---------------------------- MODULE FirstSyncProofs ----------------------------
(***************************************************************************)
(* The first synchronisation of a directory, for every directory, number   *)
(* of files, folders and parts, number of losses, timeouts and passwords,  *)
(* in order or out of order: the client that waits is woken up, no session *)
(* in use is given up and no file message is sent past a lost one.  When    *)
(* the client says that it is done the server has the directory, unless a  *)
(* message was sent again with something else in it: from then on, which   *)
(* garbled # 0 says, the invariant follows the numbers only.               *)
(*                                                                         *)
(* None of this is inductive, and none of it holds without the limits of   *)
(* FirstSync.  The invariant SyncInv follows the connection through its    *)
(* phases, in each of which little can be under way; Mirroring says what   *)
(* of the directory the server has meanwhile.                              *)
(***************************************************************************)
EXTENDS SessionProofs

(***************************************************************************)
(* The first synchronisation: one connection, a directory that stays as it *)
(* is, answers within a period of the timers, and a network that loses     *)
(* file messages, pings, hellos and acknowledgements of the server, as     *)
(* many as it likes and, with Reorder, in any order.                       *)
(***************************************************************************)
FirstSync ==
  /\ PromptReplies
  /\ MaxConnects <= 1 /\ MaxChanges = 0 /\ MaxDuplicates = 0 /\ ~OtherClients
  /\ LossyUp \subseteq {"ClientHello", "FileCreation", "FileTransfer", "Ping", "TransferEnded"}
  /\ LossyDown \subseteq {"Ack", "FileCreation"}

-----------------------------------------------------------------------------
(* What holds as long as there is one client ID, one port and one hello at *)
(* a time, and only files are deleted that do not exist.                   *)

\* What is created exists, and what is deleted is a file that does not.
FitsDirectory(m, d, ds) ==
  m.type = "FileCreation" =>
    \/ m.kind = "ft_file" /\ m.fid \in File /\ d[m.fid] # Absent
    \/ m.kind = "ft_folder" /\ m.fid \in ds \cup {Root}
    \/ m.kind = "ft_del_file" /\ m.fid \in File /\ d[m.fid] = Absent

\* A datagram to the server comes from this client, and was not sent again with
\* something else in it.
IsHarmless(m) == m.to = 1 /\ (garbled = 0 => FitsDirectory(m, disk, dirs))
IsCalm(m) == IF m.type = "ClientHello" THEN m = ClientHello ELSE IsHarmless(m)

\* The server has no session.
Quiet == \A id \in ClientId : sessions[id] = NoSession

\* A hello is the only one, and the first thing the server gets.  Nothing that
\* the client means brings the server down.
Calm ==
  /\ cId = 1
  /\ garbled = 0 => serverUp
  /\ \A id \in ClientId : sessions[id] # NoSession =>
       id = 1 /\ sessions[id].dst = cPort /\ ~sessions[id].todo
  /\ \A i \in DOMAIN up : IsCalm(up[i])
  /\ \A i, j \in DOMAIN up : up[i].type = "ClientHello" =>
       Quiet /\ (up[j].type = "ClientHello" => i = j)

-----------------------------------------------------------------------------
(* What the client knows of its directory.                                 *)

\* All files that exist have an object with the present hash, the others have
\* none.
FilesAreKnown(l) ==
  \A f \in File : IF disk[f] = Absent THEN l.file[f] = NoObject
                  ELSE l.file[f].known = "yes" /\ l.file[f].hash = disk[f]

\* A folder in the list exists, and its creation is sent or to be sent.  The
\* list has the directory itself, for which genMap takes a folder to be known.
FoldersAreListed(l) ==
  /\ \A i \in DOMAIN l.folders :
       l.folders[i].path \in dirs \cup {Root} /\ (l.folders[i].created \/ l.folders[i].pending)
  /\ dirs # {} => \E i \in DOMAIN l.folders : l.folders[i].path = Root

\* What is to be sent exists, and what is to be deleted does not.
WorkExists(w) ==
  /\ \A f \in w.files \cup {w.cur} : f # NoFile => disk[f] # Absent
  /\ \A f \in w.delFiles : disk[f] = Absent
  /\ w.delFolders = {}

\* What the client knows and has to send fits the directory.
Indexed == FilesAreKnown(lib) /\ FoldersAreListed(lib) /\ WorkExists(ws)

-----------------------------------------------------------------------------
(* The phases of the connection.                                           *)

\* A timer that was started and not stopped.
Ticking == [run |-> TRUE, thread |-> "live"]

\* The session is in this state and has filed only this message.
SessionAwaits(state, msg) ==
  /\ sessions[1] # NoSession
  /\ sessions[1].state = state
  /\ sessions[1].queue = PushSendMessage(<<>>, 0, msg)

Accepted == ServerHello(1, cPort, "accepted")

\* Nothing has happened yet.
Before ==
  /\ cPort = 0
  /\ cState = "disconnected" /\ cTimer = NewTimer /\ cQueue = <<>> /\ cIndexer = "joined"
  /\ ws = EmptyWorkingSet /\ lib = [file |-> [f \in File |-> NoObject], folders |-> <<>>]
  /\ up = <<>> /\ down = <<>> /\ Quiet /\ serverUp

\* The client says hello, or the session's answer is under way.
Greeting ==
  /\ cPort >= 1 /\ serverUp
  /\ cState = "sendClientHello" /\ cTimer = NewTimer /\ cQueue = <<>> /\ cIndexer = "joined"
  /\ Indexed /\ ws.cur = NoFile
  /\ \/ up \in {<<>>, <<ClientHello>>} /\ down = <<>> /\ Quiet
     \/ up = <<>> /\ down = <<Accepted>> /\ SessionAwaits("fsc_awaitClientAuth", Accepted)

\* The password is under way to the session, or its result to the client.
Authenticating ==
  /\ cPort >= 1 /\ serverUp
  /\ cState = "clientAuth" /\ cTimer = Ticking /\ cIndexer = "joined"
  /\ cQueue = PushSendMessage(<<>>, 0, AuthRequest(0))
  /\ Indexed /\ ws.cur = NoFile
  /\ \/ up = <<AuthRequest(0)>> /\ down = <<>> /\ SessionAwaits("fsc_awaitClientAuth", Accepted)
     \/ up = <<>> /\ \E ok \in BOOLEAN :
          /\ down = <<AuthResult(0, cPort, ok)>>
          /\ IF ok THEN SessionAwaits("fsc_awaitServerAuthAck", AuthResult(0, cPort, TRUE))
             ELSE ~Active(1)

\* What the server answers, and what of it is under way.
RequestTypes == {"Ping", "FileStatus", "FileCreation", "FileTransfer"}

Requests == {i \in DOMAIN up : up[i].type \in RequestTypes}

\* The session waits for an acknowledgement, which is under way unless the server
\* has crashed, or for nothing.
ListensTo(channel) ==
  /\ sessions[1] # NoSession
  /\ \/ /\ SessionAwaits("fsc_awaitServerAuthAck", AuthResult(0, cPort, TRUE))
        /\ serverUp => \E i \in DOMAIN channel : channel[i].type = "Ack"
     \/ sessions[1].state \in {"fsc_connected", "fsc_ping"} /\ sessions[1].queue = <<>>

\* What is under way stands for what the client has filed: it is the same
\* unless it was sent again with something else in it.
StandsFor(m, n) == SameMessage(m, n) /\ (garbled = 0 => m = n)

\* One request is under way, or the answer to it, and the client remembers it.
OneUnderWay ==
  /\ \A i \in DOMAIN up : /\ up[i].type \in RequestTypes \cup {"Ack", "TransferEnded"}
                          /\ up[i].type = "Ack" => up[i].seq = 0
  /\ \A i, j \in Requests : i = j
  /\ \A i \in Requests : down = <<>> /\ \E k \in DOMAIN cQueue : StandsFor(up[i], cQueue[k].msg)
  /\ \/ down = <<>>
     \/ /\ Len(down) = 1 /\ down[1].dst = cPort
        /\ down[1].type = IF cState = "reqestedFileStatus" THEN "FileStatus" ELSE "Ack"
        /\ \E k \in DOMAIN cQueue : cQueue[k].seq = down[1].seq /\ TakenUp(cQueue[k].msg)

\* Entries are filed under the numbers of their messages, which no other has.
WellFiled ==
  /\ \A k \in DOMAIN cQueue :
       /\ cQueue[k].msg.type \in RequestTypes /\ IsHarmless(cQueue[k].msg)
       /\ cQueue[k].seq = cQueue[k].msg.seq /\ cQueue[k].seq < cSeq
  /\ \A j, k \in DOMAIN cQueue : cQueue[j].seq = cQueue[k].seq => j = k

\* The queue holds what the state is about, and nothing else.
OnlyPings ==
  /\ cState \in {"connected", "ping"}
  /\ cTimer = Ticking
  /\ ws = EmptyWorkingSet /\ PendingFolders(lib) = {}
  /\ \A k \in DOMAIN cQueue : cQueue[k].msg.type = "Ping"
  /\ cState = "ping" => cQueue # <<>>

\* The client waits for the last part the server has, without a timer.
OneStatus ==
  /\ cState = "reqestedFileStatus"
  /\ cTimer = NewTimer /\ cIndexer = "joined"
  /\ ws.cur # NoFile
  /\ Len(cQueue) = 1 /\ cQueue[1].msg.type = "FileStatus" /\ cQueue[1].msg.fid = ws.cur
  /\ serverUp => Requests # {} \/ down # <<>>

\* The client waits for an acknowledgement, and its timer ticks.
OneFileMessage ==
  /\ cState = "awaitingAck"
  /\ cTimer = Ticking /\ cIndexer = "joined"
  /\ Len(cQueue) = 1 /\ cQueue[1].msg.type \in {"FileCreation", "FileTransfer"}

\* The client is logged in.
Talking ==
  /\ cPort >= 1
  /\ Indexed
  /\ ListensTo(up)
  /\ OneUnderWay
  /\ WellFiled
  /\ OnlyPings \/ OneStatus \/ OneFileMessage

\* The client has stopped, or its password was wrong.
Gone == cPort >= 1 /\ cState = "disconnected" /\ cQueue = <<>>

\* The inductive invariant: one phase holds at a time.
Conversation == Before \/ Greeting \/ Authenticating \/ Talking \/ Gone

SyncInv == TypeOK /\ Calm /\ Conversation

-----------------------------------------------------------------------------
(* Sequences: what stands where after a datagram or an entry is taken out. *)

\* The place of the datagram that stands at place j once the i-th is gone.
Source(i, j) == IF j < i THEN j ELSE j + 1

\* Nothing but the i-th datagram is gone, and the order is kept.
LEMMA RemoveAtPlaces ==
  ASSUME NEW T, NEW s \in Seq(T), NEW i \in DOMAIN s
  PROVE  /\ RemoveAt(s, i) \in Seq(T)
         /\ Len(RemoveAt(s, i)) = Len(s) - 1
         /\ \A j \in DOMAIN RemoveAt(s, i) :
              Source(i, j) \in DOMAIN s \ {i} /\ RemoveAt(s, i)[j] = s[Source(i, j)]
         /\ \A k \in DOMAIN s : k # i =>
              \E j \in DOMAIN RemoveAt(s, i) : RemoveAt(s, i)[j] = s[k]
<1>. DEFINE n == Len(s)
            left == SubSeq(s, 1, i - 1)
            right == SubSeq(s, i + 1, n)
<1>1. n \in Nat /\ i \in 1..n /\ DOMAIN s = 1..n
  BY LenProperties
<1>2. left \in Seq(T) /\ Len(left) = i - 1 /\ \A j \in 1..(i - 1) : left[j] = s[j]
  BY <1>1
<1>3. right \in Seq(T) /\ Len(right) = n - i /\ \A j \in 1..(n - i) : right[j] = s[i + j]
  BY <1>1
<1>4. RemoveAt(s, i) = left \o right
  BY DEF RemoveAt
<1>. HIDE DEF n, left, right
<1>5. /\ left \o right \in Seq(T) /\ Len(left \o right) = n - 1
      /\ \A j \in 1..(n - 1) :
           (left \o right)[j] = IF j <= i - 1 THEN left[j] ELSE right[j - (i - 1)]
  <2>1. (i - 1) + (n - i) = n - 1
    BY <1>1
  <2>2. left \in Seq(T) /\ right \in Seq(T)
    BY <1>2, <1>3
  <2>3. /\ left \o right \in Seq(T) /\ Len(left \o right) = Len(left) + Len(right)
        /\ \A j \in 1..(Len(left) + Len(right)) :
             (left \o right)[j] = IF j <= Len(left) THEN left[j] ELSE right[j - Len(left)]
    BY <2>2, ConcatProperties
  <2>4. Len(left) = i - 1 /\ Len(left) + Len(right) = n - 1
    BY <1>2, <1>3, <2>1
  <2>. QED
    BY <2>3, <2>4
<1>6. DOMAIN (left \o right) = 1..(n - 1)
  BY <1>1, <1>5, LenProperties
<1>7. ASSUME NEW j \in 1..(n - 1)
      PROVE  Source(i, j) \in DOMAIN s \ {i} /\ (left \o right)[j] = s[Source(i, j)]
  <2>1. CASE j < i
    BY <1>1, <1>2, <1>5, <2>1 DEF Source
  <2>2. CASE ~(j < i)
    <3>1. j - (i - 1) \in 1..(n - i) /\ ~(j <= i - 1) /\ i + (j - (i - 1)) = j + 1
      BY <1>1, <2>2
    <3>2. (left \o right)[j] = right[j - (i - 1)]
      BY <1>5, <3>1
    <3>3. right[j - (i - 1)] = s[j + 1]
      BY <1>3, <3>1
    <3>. QED
      BY <1>1, <2>2, <3>2, <3>3 DEF Source
  <2>. QED
    BY <2>1, <2>2
<1>8. ASSUME NEW k \in DOMAIN s, k # i
      PROVE  \E j \in 1..(n - 1) : (left \o right)[j] = s[k]
  <2>1. CASE k < i
    <3>1. k \in 1..(n - 1) /\ Source(i, k) = k
      BY <1>1, <2>1 DEF Source
    <3>. QED
      BY <1>7, <3>1
  <2>2. CASE ~(k < i)
    <3>1. k - 1 \in 1..(n - 1) /\ Source(i, k - 1) = k
      BY <1>1, <1>8, <2>2 DEF Source
    <3>. QED
      BY <1>7, <3>1
  <2>. QED
    BY <2>1, <2>2
<1>. QED
  BY <1>4, <1>5, <1>6, <1>7, <1>8, <1>1 DEF n

\* Two places of what is left come from two places.
LEMMA SourcesDiffer ==
  ASSUME NEW i \in Nat, NEW j \in Nat, NEW k \in Nat, Source(i, j) = Source(i, k)
  PROVE  j = k
BY DEF Source

\* The only one is gone.
LEMMA OneIsTaken ==
  ASSUME NEW T, NEW s \in Seq(T), Len(s) = 1, NEW i \in DOMAIN s
  PROVE  i = 1 /\ RemoveAt(s, i) = <<>>
<1>1. i = 1
  BY LenProperties
<1>2. RemoveAt(s, i) \in Seq(T) /\ Len(RemoveAt(s, i)) = 0
  BY RemoveAtPlaces
<1>. QED
  BY <1>1, <1>2

\* What is sent is added at the end.
LEMMA AppendPlaces ==
  ASSUME NEW T, NEW s \in Seq(T), NEW m \in T
  PROVE  /\ Append(s, m) \in Seq(T) /\ Len(Append(s, m)) = Len(s) + 1
         /\ s \o <<m>> = Append(s, m) /\ s \o Append(<<>>, m) = Append(s, m)
         /\ Append(s, m)[Len(s) + 1] = m
         /\ Len(s) + 1 \in DOMAIN Append(s, m)
         /\ \A j \in DOMAIN s : j \in DOMAIN Append(s, m) /\ Append(s, m)[j] = s[j]
         /\ \A j \in DOMAIN Append(s, m) : j = Len(s) + 1 \/ (j \in DOMAIN s /\ Append(s, m)[j] = s[j])
<1>1. Append(<<>>, m) = <<m>>
  OBVIOUS
<1>2. s \o <<m>> = Append(s, m)
  OBVIOUS
<1>. QED
  BY <1>1, <1>2, LenProperties

\* A queue with one entry.
LEMMA OneEntry ==
  ASSUME NEW seq, NEW msg, NEW q, q = PushSendMessage(<<>>, seq, msg)
  PROVE  /\ Len(q) = 1 /\ DOMAIN q = {1} /\ q # <<>>
         /\ q[1].seq = seq /\ q[1].msg = msg
         /\ IsQueued(q, seq)
         /\ OnSequenceNumberAck(q, seq) = <<>>
<1>. DEFINE e == [seq |-> seq, msg |-> msg, sendCount |-> 1]
<1>1. q = Append(<<>>, e)
  BY DEF PushSendMessage
<1>. HIDE DEF e
<1>2. q \in Seq({e}) /\ Len(q) = 1 /\ q[1] = e /\ DOMAIN q = {1} /\ Head(q) = e /\ q # <<>>
  <2>. DEFINE s == Append(<<>>, e)
  <2>1. s \in Seq({e}) /\ Len(s) = 1 /\ s[1] = e /\ DOMAIN s = {1} /\ Head(s) = e
    OBVIOUS
  <2>. HIDE DEF s
  <2>2. s # <<>>
    BY <2>1
  <2>. QED
    BY <1>1, <2>1, <2>2 DEF s
<1>3. e.seq = seq /\ e.msg = msg
  BY DEF e
<1>4. IsQueued(q, seq)
  BY <1>2, <1>3 DEF IsQueued
<1>5. FirstQueued(q, seq) \in DOMAIN q
  BY <1>2, <1>4, RangeOver, FirstQueuedIsThere
<1>6. OnSequenceNumberAck(q, seq) = <<>>
  BY <1>2, <1>5, OneIsTaken DEF OnSequenceNumberAck
<1>. QED
  BY <1>2, <1>3, <1>4, <1>6

\* It is the oldest.
LEMMA OneIsOldest ==
  ASSUME NEW seq, NEW msg, NEW q, q = PushSendMessage(<<>>, seq, msg)
  PROVE  Oldest(q) = [seq |-> seq, msg |-> msg, sendCount |-> 1]
<1>. DEFINE e == [seq |-> seq, msg |-> msg, sendCount |-> 1]
<1>1. q = Append(<<>>, e)
  BY DEF PushSendMessage
<1>. HIDE DEF e
<1>2. Head(Append(<<>>, e)) = e
  OBVIOUS
<1>. QED
  BY <1>1, <1>2 DEF Oldest, e

\* A queue with one entry that was sent again.
LEMMA OneEntryAgain ==
  ASSUME NEW M, NEW q \in Seq(Entry(M)), Len(q) = 1
  PROVE  /\ Oldest(q) = q[1] /\ Len(RequeueOldest(q)) = 1
         /\ RequeueOldest(q)[1].msg = q[1].msg /\ RequeueOldest(q)[1].seq = q[1].seq
         /\ DOMAIN q = {1} /\ DOMAIN RequeueOldest(q) = {1} /\ q # <<>>
<1>0. DOMAIN q = 1..1 /\ q # <<>>
  BY LenProperties, EmptySeq
<1>1. q[1] \in Entry(M) /\ Head(q) = q[1] /\ Tail(q) = <<>> /\ DOMAIN q = {1}
  <2>1. Tail(q) \in Seq(Entry(M)) /\ Len(Tail(q)) = 0 /\ Head(q) = q[1]
    BY <1>0, HeadTailProperties
  <2>2. Tail(q) = <<>>
    BY <2>1, EmptySeq
  <2>. QED
    BY <1>0, <2>1, <2>2, ElementOfSeq
<1>. DEFINE e == [q[1] EXCEPT !.sendCount = @ + 1]
<1>2. e.msg = q[1].msg /\ e.seq = q[1].seq
  BY <1>1 DEF Entry
<1>3. RequeueOldest(q) = Append(<<>>, e)
  BY <1>1 DEF RequeueOldest
<1>. HIDE DEF e
<1>4. Append(<<>>, e) = <<e>>
  OBVIOUS
<1>. QED
  BY <1>0, <1>1, <1>2, <1>3, <1>4 DEF Oldest

-----------------------------------------------------------------------------
(* getWorkingSet on a directory that stays as it is.                       *)

\* When no folder is missing the list of folders stays as it is: each has
\* its own place among those that are kept.
LEMMA NothingIsErased ==
  ASSUME NEW folders \in Seq(FolderObject), NEW ds,
         \A i \in DOMAIN folders : folders[i].path \in ds \cup {Root}
  PROVE  Erased(folders, ds) = {} /\ KeptFolders(folders, ds) = folders
<1>. DEFINE n == Len(folders)
            Place(i) == Cardinality({j \in 1..n : j <= i})
            Nth(k) == CHOOSE i \in 1..n : Place(i) = k
<1>1. n \in Nat /\ DOMAIN folders = 1..n /\ folders \in [1..n -> FolderObject]
  BY LenProperties
<1>2. Erased(folders, ds) = {}
  BY DEF Erased
<1>3. Cardinality(1..n) = n
  BY <1>1, FS_Interval
<1>4. ASSUME NEW i \in 1..n PROVE Place(i) = i
  <2>1. {j \in 1..n : j <= i} = 1..i
    BY <1>1
  <2>2. i \in Nat /\ Cardinality(1..i) = i
    BY <1>1, FS_Interval
  <2>. QED
    BY <2>1, <2>2
<1>5. KeptFolders(folders, ds) = [k \in 1..n |-> folders[Nth(k)]]
  <2>. DEFINE kept == DOMAIN folders \ Erased(folders, ds)
  <2>1. kept = 1..n
    BY <1>1, <1>2
  <2>2. KeptFolders(folders, ds) =
          [k \in 1..Cardinality(kept) |->
             folders[CHOOSE i \in kept : Cardinality({j \in kept : j <= i}) = k]]
    BY DEF KeptFolders, Picked
  <2>. HIDE DEF n, kept
  <2>. QED
    BY <1>3, <2>1, <2>2
<1>. HIDE DEF n, Place
<1>6. ASSUME NEW k \in 1..n PROVE Nth(k) = k
  BY <1>4
<1>. HIDE DEF Nth
<1>7. [k \in 1..n |-> folders[Nth(k)]] = folders
  BY <1>1, <1>6
<1>. QED
  BY <1>2, <1>5, <1>7

\* Once everything is sent an indexing changes nothing and finds nothing.
LEMMA IndexAgain ==
  ASSUME FilesTypeOK, FilesAreKnown(lib), FoldersAreListed(lib), PendingFolders(lib) = {}
  PROVE  Index(lib, disk, dirs) = [lib |-> lib, ws |-> EmptyWorkingSet]
<1>. DEFINE fresh  == {f \in File : disk[f] # Absent /\
                         (lib.file[f].known # "yes" \/ IsChanged(lib.file[f], disk[f]))}
            resend == {f \in fresh : IsChanged(lib.file[f], disk[f]) /\ SeemsShrunk(lib.file[f], disk[f])}
            gone   == {f \in File : disk[f] = Absent /\ lib.file[f].known # "no"}
            old    == [i \in DOMAIN lib.folders |-> [lib.folders[i] EXCEPT !.pending = FALSE]]
            found  == FoundFolders(old, dirs)
            root   == IF fresh # {} \/ found # <<>>
                      THEN <<[path |-> Root, created |-> FALSE, pending |-> TRUE]>> ELSE <<>>
            all    == old \o found \o root
            files  == [f \in File |-> IndexedObject(lib.file[f], disk[f])]
<1>0. /\ lib = [file |-> lib.file, folders |-> lib.folders]
      /\ lib.file \in [File -> FileObject] /\ lib.folders \in Seq(FolderObject)
      /\ dirs \subseteq Folder
  BY DEF FilesTypeOK, Library
<1>1. ASSUME NEW f \in File, disk[f] # Absent
      PROVE  lib.file[f].known = "yes" /\ ~IsChanged(lib.file[f], disk[f])
  BY <1>1 DEF FilesAreKnown, IsChanged
<1>2. ASSUME NEW f \in File, disk[f] = Absent
      PROVE  lib.file[f] = NoObject /\ lib.file[f].known = "no"
  <2>1. NoObject.known = "no"
    BY DEF NoObject
  <2>. QED
    BY <1>2, <2>1 DEF FilesAreKnown
<1>3. fresh = {} /\ resend = {} /\ gone = {}
  BY <1>1, <1>2
<1>4. files = lib.file
  <2>1. ASSUME NEW f \in File PROVE IndexedObject(lib.file[f], disk[f]) = lib.file[f]
    BY <1>1, <1>2 DEF IndexedObject
  <2>. QED
    BY <1>0, <2>1
<1>5. /\ DOMAIN lib.folders = 1..Len(lib.folders) /\ Len(lib.folders) \in Nat
      /\ \A i \in DOMAIN lib.folders : lib.folders[i] \in FolderObject
  BY <1>0, LenProperties, ElementOfSeq
<1>6. old = lib.folders
  <2>1. ASSUME NEW i \in DOMAIN lib.folders
        PROVE  [lib.folders[i] EXCEPT !.pending = FALSE] = lib.folders[i]
    <3>1. lib.folders[i].pending = FALSE
      BY <1>5 DEF PendingFolders, FolderObject
    <3>. QED
      BY <1>5, <3>1 DEF FolderObject
  <2>2. lib.folders = [i \in DOMAIN lib.folders |-> lib.folders[i]]
    BY <1>0
  <2>. QED
    BY <2>1, <2>2
<1>7. ASSUME NEW d \in dirs PROVE TreatedAsKnown(old, d)
  <2>. DEFINE others == {i \in DOMAIN lib.folders : lib.folders[i].path # d}
  <2>1. d # Root
    BY <1>0, FilesystemAssumption
  <2>2. others # {} /\ others \subseteq Nat
    BY <1>5, <2>1 DEF FoldersAreListed
  <2>3. PICK i \in others : \A j \in others : i <= j
    BY <2>2, LeastIsThere
  <2>4. lib.folders[i].created
    BY <2>3 DEF FoldersAreListed, PendingFolders
  <2>5. \A j \in 1..(i - 1) : lib.folders[j].path = d
    BY <1>5, <2>3
  <2>. QED
    BY <1>6, <2>3, <2>4, <2>5 DEF TreatedAsKnown
<1>8. found = <<>>
  <2>. HIDE DEF old
  <2>1. /\ found \in Seq(FolderObject)
        /\ \A k \in DOMAIN found : found[k].path \in dirs /\ ~TreatedAsKnown(old, found[k].path)
    BY <1>0, FoundFoldersFacts
  <2>. HIDE DEF found
  <2>2. DOMAIN found = {}
    BY <1>7, <2>1
  <2>. QED
    BY <2>1, <2>2, EmptySeq, LenProperties
<1>9. all = lib.folders
  <2>1. root = <<>>
    BY <1>3, <1>8
  <2>. HIDE DEF old, found, root, fresh
  <2>. QED
    BY <1>0, <1>6, <1>8, <2>1
<1>10. /\ KeptFolders(all, dirs) = lib.folders
       /\ {all[i].path : i \in Erased(all, dirs)} = {}
  <2>1. \A i \in DOMAIN lib.folders : lib.folders[i].path \in dirs \cup {Root}
    BY DEF FoldersAreListed
  <2>. HIDE DEF all
  <2>. QED
    BY <1>0, <1>9, <2>1, NothingIsErased
<1>11. Index(lib, disk, dirs) =
         [lib |-> [file |-> files, folders |-> KeptFolders(all, dirs)],
          ws  |-> [files |-> fresh, delFiles |-> resend \cup gone,
                   delFolders |-> {all[i].path : i \in Erased(all, dirs)}, cur |-> NoFile]]
  BY DEF Index
<1>. HIDE DEF fresh, resend, gone, all, files
<1>. QED
  BY <1>0, <1>3, <1>4, <1>10, <1>11 DEF EmptyWorkingSet

\* The first indexing of a process finds every folder, and every file that the
\* index has not told of, all of it still to be sent.
LEMMA StartIndex ==
  ASSUME FilesTypeOK, NEW l, l.folders = <<>>,
         \A f \in File : l.file[f].known = "yes" /\ disk[f] # Absent => l.file[f].hash = disk[f]
  PROVE  LET found == Index(l, disk, dirs) IN
         /\ FilesAreKnown(found.lib) /\ FoldersAreListed(found.lib)
         /\ WorkExists(found.ws) /\ found.ws.cur = NoFile
         /\ found.ws.files = {f \in File : disk[f] # Absent /\ l.file[f].known # "yes"}
         /\ \A f \in File : disk[f] # Absent =>
              found.lib.file[f] = IF l.file[f].known = "yes" THEN l.file[f] ELSE NewObject(disk[f])
         /\ \A d \in dirs : \E i \in DOMAIN found.lib.folders :
              found.lib.folders[i].pending /\ found.lib.folders[i].path = d
<1>. DEFINE fresh  == {f \in File : disk[f] # Absent /\
                         (l.file[f].known # "yes" \/ IsChanged(l.file[f], disk[f]))}
            resend == {f \in fresh : IsChanged(l.file[f], disk[f]) /\ SeemsShrunk(l.file[f], disk[f])}
            gone   == {f \in File : disk[f] = Absent /\ l.file[f].known # "no"}
            old    == [i \in DOMAIN l.folders |-> [l.folders[i] EXCEPT !.pending = FALSE]]
            found  == FoundFolders(old, dirs)
            root   == IF fresh # {} \/ found # <<>>
                      THEN <<[path |-> Root, created |-> FALSE, pending |-> TRUE]>> ELSE <<>>
            all    == old \o found \o root
            files  == [f \in File |-> IndexedObject(l.file[f], disk[f])]
<1>0. dirs \subseteq Folder /\ disk \in [File -> Content \cup {Absent}]
  BY DEF FilesTypeOK
<1>1. \A f \in File : disk[f] # Absent => ~IsChanged(l.file[f], disk[f])
  BY DEF IsChanged
<1>2. /\ fresh = {f \in File : disk[f] # Absent /\ l.file[f].known # "yes"}
      /\ resend = {} /\ \A f \in gone : disk[f] = Absent
  BY <1>1
<1>3. old = <<>>
  OBVIOUS
<1>4. \A f \in File : files[f] = IF disk[f] = Absent THEN NoObject
                                 ELSE IF l.file[f].known = "yes" THEN l.file[f]
                                 ELSE NewObject(disk[f])
  BY <1>1 DEF IndexedObject
<1>5. \A d \in dirs : ~TreatedAsKnown(<<>>, d)
  BY DEF TreatedAsKnown
<1>6. found = FoundFolders(<<>>, dirs)
  BY <1>3
<1>. DEFINE here == [path |-> Root, created |-> FALSE, pending |-> TRUE]
<1>7. /\ found \in Seq(FolderObject)
      /\ \A i \in DOMAIN found : found[i].path \in dirs /\ found[i].pending
      /\ \A d \in dirs : \E i \in DOMAIN found : found[i].path = d
  <2>. HIDE DEF found
  <2>. QED
    BY <1>0, <1>5, <1>6, FoundFoldersFacts
<1>8. /\ here \in FolderObject /\ here.path = Root /\ here.pending
      /\ dirs # {} => root = <<here>>
      /\ root = <<here>> \/ root = <<>>
  <2>1. here \in FolderObject /\ here.path = Root /\ here.pending
    BY DEF FolderObject, Path
  <2>2. dirs # {} => found # <<>>
    <3>1. DOMAIN <<>> = {}
      OBVIOUS
    <3>. HIDE DEF found
    <3>. QED
      BY <1>7, <3>1
  <2>. HIDE DEF found, fresh
  <2>. QED
    BY <2>1, <2>2
<1>. HIDE DEF found, here, root
<1>9. all = IF root = <<>> THEN found ELSE Append(found, here)
  <2>1. old \o found = found
    BY <1>3, <1>7, ConcatEmptySeq
  <2>2. found \o <<>> = found /\ found \o <<here>> = Append(found, here)
    BY <1>7, <1>8
  <2>. QED
    BY <1>8, <2>1, <2>2
<1>10. /\ all \in Seq(FolderObject)
       /\ \A i \in DOMAIN all : all[i].path \in dirs \cup {Root} /\ all[i].pending
       /\ \A i \in DOMAIN found : i \in DOMAIN all /\ all[i] = found[i]
       /\ dirs # {} => \E i \in DOMAIN all : all[i].path = Root
  <2>1. CASE root = <<>>
    <3>1. all = found /\ dirs = {}
      BY <1>8, <1>9, <2>1
    <3>. QED
      BY <1>7, <3>1
  <2>2. CASE root # <<>>
    <3>1. all = Append(found, here)
      BY <1>9, <2>2
    <3>. HIDE DEF all
    <3>. QED
      BY <1>7, <1>8, <3>1, AppendPlaces
  <2>. QED
    BY <2>1, <2>2
<1>. HIDE DEF all
<1>11. Erased(all, dirs) = {} /\ KeptFolders(all, dirs) = all
  BY <1>10, NothingIsErased
<1>12. Index(l, disk, dirs) =
         [lib |-> [file |-> files, folders |-> KeptFolders(all, dirs)],
          ws  |-> [files |-> fresh, delFiles |-> resend \cup gone,
                   delFolders |-> {all[i].path : i \in Erased(all, dirs)}, cur |-> NoFile]]
  BY DEF Index, all, root, found, here
<1>. HIDE DEF fresh, resend, gone, files
<1>. DEFINE result == Index(l, disk, dirs)
<1>13. /\ result.lib.file = files /\ result.lib.folders = all
       /\ result.ws.files = fresh /\ result.ws.delFiles = gone /\ result.ws.delFolders = {}
       /\ result.ws.cur = NoFile
  BY <1>2, <1>11, <1>12
<1>. HIDE DEF result
<1>14. FilesAreKnown(result.lib)
  <2>1. \A c : NewObject(c).known = "yes" /\ NewObject(c).hash = c
    BY DEF NewObject
  <2>. QED
    BY <1>4, <1>13, <2>1 DEF FilesAreKnown
<1>15. FoldersAreListed(result.lib)
  BY <1>10, <1>13 DEF FoldersAreListed
<1>16. WorkExists(result.ws)
  BY <1>2, <1>13 DEF WorkExists
<1>17. \A f \in File : disk[f] # Absent =>
         result.lib.file[f] = IF l.file[f].known = "yes" THEN l.file[f] ELSE NewObject(disk[f])
  BY <1>4, <1>13
<1>18. \A d \in dirs : \E i \in DOMAIN result.lib.folders :
         result.lib.folders[i].pending /\ result.lib.folders[i].path = d
  BY <1>7, <1>10, <1>13
<1>. QED
  BY <1>2, <1>13, <1>14, <1>15, <1>16, <1>17, <1>18 DEF result

\* The client knows nothing of its directory.
EmptyLibrary == [file |-> [f \in File |-> NoObject], folders |-> <<>>]

\* The first indexing of all finds everything.
LEMMA FirstIndex ==
  ASSUME FilesTypeOK
  PROVE  LET found == Index(EmptyLibrary, disk, dirs) IN
         /\ FilesAreKnown(found.lib) /\ FoldersAreListed(found.lib)
         /\ WorkExists(found.ws) /\ found.ws.cur = NoFile
         /\ found.ws.files = {f \in File : disk[f] # Absent}
         /\ \A f \in File : disk[f] # Absent => found.lib.file[f] = NewObject(disk[f])
         /\ \A d \in dirs : \E i \in DOMAIN found.lib.folders :
              found.lib.folders[i].pending /\ found.lib.folders[i].path = d
<1>1. /\ EmptyLibrary.folders = <<>>
      /\ \A f \in File : EmptyLibrary.file[f].known # "yes"
  BY DEF EmptyLibrary, NoObject
<1>. HIDE DEF EmptyLibrary
<1>. QED
  BY <1>1, StartIndex

-----------------------------------------------------------------------------
(* setState(sendingFS) of a client that waits for nothing else: one of     *)
(* five messages, the only one in the queue.                               *)

\* The working set without a current file that is sent.
Rest == DropSentCurFile(ws, lib)

\* The next part of the current file, as the user has it.
SendsPart(out, sq) ==
  /\ CurFileHasParts(ws, lib)
  /\ LET f == ws.cur
         o == lib.file[f]
         file == IF o.fd.open THEN o.fd.data ELSE disk[f]
     IN \E p \in o.np, fd \in [open : BOOLEAN, data : Content, pos : 0..MaxParts] :
          /\ \A j \in o.np : p <= j
          /\ fd.open => fd.data = file
          /\ SendAndWait("awaitingAck", Ticking, <<>>, out, sq,
               FileTransfer(sq, p, IF p < o.size THEN PartOf(file, p, Garbage) ELSE Hole))
          /\ lib' = [lib EXCEPT !.file[f] = [o EXCEPT !.fd = fd, !.np = @ \ {p}]]
          /\ ws' = IF o.np = {p} THEN [ws EXCEPT !.files = @ \ {f}] ELSE ws

\* What sendNextFilePart does with a file to be deleted, a pending folder, a file
\* to be sent and nothing left.
SendsDeletion(out, sq) ==
  /\ ~CurFileHasParts(ws, lib)
  /\ \E f \in Rest.delFiles :
       /\ SendAndWait("awaitingAck", Ticking, <<>>, out, sq, FileCreation(sq, "ft_del_file", f))
       /\ ws' = [Rest EXCEPT !.delFiles = @ \ {f}]
       /\ lib' = lib

SendsFolder(out, sq) ==
  /\ ~CurFileHasParts(ws, lib)
  /\ \E i \in PendingFolders(lib) :
       /\ SendAndWait("awaitingAck", Ticking, <<>>, out, sq,
                      FileCreation(sq, "ft_folder", lib.folders[i].path))
       /\ lib' = [lib EXCEPT !.folders[i] = [@ EXCEPT !.created = TRUE, !.pending = FALSE]]
       /\ ws' = Rest

SendsStatus(out, sq) ==
  /\ ~CurFileHasParts(ws, lib)
  /\ PendingFolders(lib) = {}
  /\ \E f \in Rest.files :
       /\ SendAndWait("reqestedFileStatus", NewTimer, <<>>, out, sq, FileStatus(sq, f))
       /\ ws' = [Rest EXCEPT !.cur = f]
       /\ lib' = lib

\* At the end the transfer is declared over.
SendsEnd(out, sq) ==
  /\ ~CurFileHasParts(ws, lib)
  /\ PendingFolders(lib) = {}
  /\ Rest.files = {}
  /\ cState' = "connected"
  /\ cTimer' = Ticking
  /\ cQueue' = <<>>
  /\ cSeq' = sq
  /\ up' = up \o Append(out, TransferEnded)
  /\ ws' = EmptyWorkingSet
  /\ lib' = lib

SendsSomething(out, sq) ==
  \/ SendsPart(out, sq)
  \/ SendsDeletion(out, sq)
  \/ SendsFolder(out, sq)
  \/ SendsStatus(out, sq)
  \/ SendsEnd(out, sq)

\* What deleteCurFile leaves.
LEMMA RestFacts ==
  ASSUME FilesTypeOK, WorkExists(ws)
  PROVE  /\ Rest \in WorkingSet /\ WorkExists(Rest) /\ Rest.files \subseteq ws.files
         /\ CurFileHasParts(Rest, lib) <=> CurFileHasParts(ws, lib)
         /\ CurFileHasParts(ws, lib) => Rest = ws
         /\ ~CurFileHasParts(ws, lib) => Rest.cur = NoFile /\ Rest.files = ws.files \ {ws.cur}
<1>1. ws \in WorkingSet /\ Rest \in WorkingSet
  BY DropSentCurFileType DEF FilesTypeOK, Rest
<1>2. CASE ws.cur # NoFile /\ lib.file[ws.cur].np = {}
  <2>1. Rest = [ws EXCEPT !.files = @ \ {ws.cur}, !.cur = NoFile]
    BY <1>2 DEF Rest, DropSentCurFile
  <2>2. /\ Rest.files = ws.files \ {ws.cur} /\ Rest.cur = NoFile
        /\ Rest.delFiles = ws.delFiles /\ Rest.delFolders = ws.delFolders
    BY <1>1, <2>1 DEF WorkingSet
  <2>3. ~CurFileHasParts(ws, lib) /\ ~CurFileHasParts(Rest, lib)
    BY <1>2, <2>2 DEF CurFileHasParts
  <2>4. WorkExists(Rest)
    BY <2>2 DEF WorkExists
  <2>. QED
    BY <1>1, <2>2, <2>3, <2>4
<1>3. CASE ~(ws.cur # NoFile /\ lib.file[ws.cur].np = {})
  <2>1. Rest = ws
    BY <1>3 DEF Rest, DropSentCurFile
  <2>2. ~CurFileHasParts(ws, lib) => ws.cur = NoFile
    BY <1>3 DEF CurFileHasParts
  <2>3. ws.files = ws.files \ {NoFile}
    BY <1>1, FilesystemAssumption DEF WorkingSet
  <2>. QED
    BY <1>1, <2>1, <2>2, <2>3
<1>. QED
  BY <1>2, <1>3

\* A part of the current file is read from a file that exists.
LEMMA PartIsRead ==
  ASSUME TypeOK, Indexed, NEW out, NEW sq, CurFileHasParts(ws, lib),
         SendFilePart(NewTimer, <<>>, out, sq, ws, lib)
  PROVE  SendsPart(out, sq)
<1>. DEFINE f == ws.cur
            o == lib.file[f]
            p == NextPartOf(o)
            r == ReadFile(o, disk[f], p)
            file == IF o.fd.open THEN o.fd.data ELSE disk[f]
            pos == IF p < Len(file) THEN p + 1 ELSE MaxParts
            fd == IF p + 1 >= o.size THEN ClosedFd ELSE [open |-> TRUE, data |-> file, pos |-> pos]
            sent == [r.object EXCEPT !.np = @ \ {p}]
<1>1. f \in File /\ disk[f] # Absent
  BY DEF TypeOK, FilesTypeOK, WorkingSet, FileKey, CurFileHasParts, Indexed, WorkExists
<1>2. o.known = "yes" /\ o \in FileObject /\ disk[f] \in Content
  BY <1>1 DEF TypeOK, FilesTypeOK, Library, Indexed, FilesAreKnown
<1>3. p \in o.np /\ (\A j \in o.np : p <= j) /\ p \in Part
  <2>1. o.np # {} /\ o.np \subseteq Part
    BY <1>2 DEF CurFileHasParts, FileObject
  <2>2. Part \subseteq Nat
    BY FilesystemAssumption DEF Part
  <2>3. o.np \subseteq Nat
    BY <2>1, <2>2
  <2>4. PICK i \in o.np : \A j \in o.np : i <= j
    BY <2>1, <2>3, LeastIsThere
  <2>5. p \in o.np /\ \A j \in o.np : p <= j
    BY <2>4 DEF NextPartOf, Min
  <2>. QED
    BY <2>1, <2>5
<1>. HIDE DEF p
<1>4. /\ ~r.missing
      /\ r.data = IF p < o.size THEN PartOf(file, p, Garbage) ELSE Hole
      /\ r.object = [o EXCEPT !.fd = fd]
  BY <1>1, <1>2 DEF ReadFile
<1>5. r.object \in FileObject
  BY <1>2, <1>3, ReadFileType
<1>. HIDE DEF r
<1>6. fd \in [open : BOOLEAN, data : Content, pos : 0..MaxParts]
  <2>1. r.object.fd = fd
    BY <1>2, <1>4 DEF FileObject
  <2>. QED
    BY <1>5, <2>1 DEF FileObject
<1>7. fd.open => fd.data = file
  BY DEF ClosedFd
<1>. HIDE DEF fd
<1>8. sent = [o EXCEPT !.fd = fd, !.np = @ \ {p}] /\ sent.np = o.np \ {p}
  BY <1>2, <1>4 DEF FileObject
<1>9. /\ SendAndWait("awaitingAck", StartTimer(NewTimer), <<>>, out, sq, FileTransfer(sq, p, r.data))
      /\ lib' = [lib EXCEPT !.file[f] = sent]
      /\ ws' = IF sent.np = {} THEN [ws EXCEPT !.files = @ \ {f}] ELSE ws
  BY <1>4 DEF SendFilePart, p, r
<1>10. StartTimer(NewTimer) = Ticking
  BY DEF StartTimer, NewTimer, Ticking
<1>11. o.np \ {p} = {} <=> o.np = {p}
  BY <1>3
<1>. HIDE DEF sent, file, o
<1>12. SendsPart(out, sq) <=>
         \E p0 \in o.np, fd0 \in [open : BOOLEAN, data : Content, pos : 0..MaxParts] :
          /\ \A j \in o.np : p0 <= j
          /\ fd0.open => fd0.data = file
          /\ SendAndWait("awaitingAck", Ticking, <<>>, out, sq,
               FileTransfer(sq, p0, IF p0 < o.size THEN PartOf(file, p0, Garbage) ELSE Hole))
          /\ lib' = [lib EXCEPT !.file[f] = [o EXCEPT !.fd = fd0, !.np = @ \ {p0}]]
          /\ ws' = IF o.np = {p0} THEN [ws EXCEPT !.files = @ \ {f}] ELSE ws
  BY DEF SendsPart, o, file
<1>13. SendAndWait("awaitingAck", Ticking, <<>>, out, sq,
         FileTransfer(sq, p, IF p < o.size THEN PartOf(file, p, Garbage) ELSE Hole))
  BY <1>4, <1>9, <1>10
<1>14. lib' = [lib EXCEPT !.file[f] = [o EXCEPT !.fd = fd, !.np = @ \ {p}]]
  BY <1>8, <1>9
<1>15. ws' = IF o.np = {p} THEN [ws EXCEPT !.files = @ \ {f}] ELSE ws
  BY <1>8, <1>9, <1>11
<1>. QED
  BY <1>3, <1>6, <1>7, <1>12, <1>13, <1>14, <1>15

\* One of the five.
LEMMA NextMessage ==
  ASSUME TypeOK, Indexed, NEW out, NEW sq, NEW tm \in {NewTimer, Ticking},
         EnterSendingFS("consumer", tm, <<>>, out, sq)
  PROVE  SendsSomething(out, sq)
<1>1. StopTimer("consumer", tm) = NewTimer
  <2>1. StopTimer("consumer", Ticking) = NewTimer /\ StopTimer("consumer", NewTimer) = NewTimer
    BY DEF StopTimer, Ticking, NewTimer
  <2>. QED
    BY <2>1
<1>2. StartTimer(NewTimer) = Ticking /\ ResetTimer(NewTimer) = NewTimer
  BY DEF StartTimer, ResetTimer, NewTimer, Ticking
<1>3. FilesTypeOK /\ WorkExists(ws) /\ FilesAreKnown(lib) /\ FoldersAreListed(lib)
  BY DEF TypeOK, Indexed
<1>4. /\ WorkExists(Rest) /\ (CurFileHasParts(Rest, lib) <=> CurFileHasParts(ws, lib))
      /\ CurFileHasParts(ws, lib) => Rest = ws
      /\ ~CurFileHasParts(ws, lib) => Rest.cur = NoFile
  BY <1>3, RestFacts
<1>5. Rest.delFolders = {} /\ Rest.delFiles \cup Rest.delFolders = Rest.delFiles
  BY <1>4 DEF WorkExists
<1>. DEFINE found == Index(lib, disk, dirs)
<1>6. /\ CurFileHasParts(Rest, lib) \/ ~WorkingSetIsEmpty(Rest, lib)
           => SendFrom(NewTimer, <<>>, out, sq, Rest, lib)
      /\ ~(CurFileHasParts(Rest, lib) \/ ~WorkingSetIsEmpty(Rest, lib))
           => IF ~WorkingSetIsEmpty(found.ws, found.lib)
              THEN SendFrom(NewTimer, <<>>, out, sq, found.ws, found.lib)
              ELSE EndTransfer(NewTimer, <<>>, out, sq, found)
  BY <1>1 DEF EnterSendingFS, Rest
<1>7. CASE CurFileHasParts(ws, lib)
  <2>1. SendFrom(NewTimer, <<>>, out, sq, ws, lib)
    BY <1>4, <1>6, <1>7
  <2>2. SendFilePart(NewTimer, <<>>, out, sq, ws, lib)
    BY <1>7, <2>1 DEF SendFrom
  <2>. QED
    BY <1>7, <2>2, PartIsRead DEF SendsSomething
<1>11. CASE ~CurFileHasParts(ws, lib) /\ Rest.delFiles # {}
  <2>1. SendDeletion(NewTimer, <<>>, out, sq, Rest, lib)
    BY <1>4, <1>5, <1>6, <1>11 DEF SendFrom, WorkingSetIsEmpty
  <2>. QED
    BY <1>2, <1>5, <1>11, <2>1 DEF SendDeletion, SendCreation, SendsDeletion, SendsSomething
<1>8. CASE ~CurFileHasParts(ws, lib) /\ Rest.delFiles = {} /\ PendingFolders(lib) # {}
  <2>. DEFINE i == Min(PendingFolders(lib))
  <2>1. SendFolder(NewTimer, <<>>, out, sq, Rest, lib)
    BY <1>4, <1>5, <1>6, <1>8 DEF SendFrom, WorkingSetIsEmpty
  <2>2. i \in PendingFolders(lib)
    <3>1. lib.folders \in Seq(FolderObject)
      BY <1>3 DEF FilesTypeOK, Library
    <3>2. PendingFolders(lib) \subseteq Nat
      BY <3>1, LenProperties DEF PendingFolders
    <3>. QED
      BY <1>8, <3>2, MinIsThere
  <2>3. /\ SendAndWait("awaitingAck", Ticking, <<>>, out, sq,
                       FileCreation(sq, "ft_folder", lib.folders[i].path))
        /\ lib' = [lib EXCEPT !.folders[i] = [@ EXCEPT !.created = TRUE, !.pending = FALSE]]
        /\ ws' = Rest
    BY <1>2, <2>1 DEF SendFolder, SendCreation
  <2>. HIDE DEF i
  <2>. QED
    BY <1>8, <2>2, <2>3 DEF SendsFolder, SendsSomething
<1>9. CASE /\ ~CurFileHasParts(ws, lib) /\ Rest.delFiles = {} /\ PendingFolders(lib) = {}
           /\ Rest.files # {}
  <2>1. SendFileStatus(NewTimer, <<>>, out, sq, Rest, lib)
    BY <1>4, <1>5, <1>6, <1>9 DEF SendFrom, WorkingSetIsEmpty
  <2>. QED
    BY <1>2, <1>9, <2>1 DEF SendFileStatus, SendsStatus, SendsSomething
<1>10. CASE /\ ~CurFileHasParts(ws, lib) /\ Rest.delFiles = {} /\ PendingFolders(lib) = {}
            /\ Rest.files = {}
  <2>1. found = [lib |-> lib, ws |-> EmptyWorkingSet]
    BY <1>3, <1>10, IndexAgain
  <2>2. WorkingSetIsEmpty(Rest, lib)
    BY <1>5, <1>10 DEF WorkingSetIsEmpty
  <2>3. found.ws = EmptyWorkingSet /\ found.lib = lib /\ WorkingSetIsEmpty(EmptyWorkingSet, lib)
    BY <1>10, <2>1 DEF WorkingSetIsEmpty, EmptyWorkingSet
  <2>. HIDE DEF found
  <2>4. EndTransfer(NewTimer, <<>>, out, sq, found)
    BY <1>4, <1>6, <1>10, <2>2, <2>3
  <2>. QED
    BY <1>2, <1>10, <2>3, <2>4 DEF EndTransfer, SendsEnd, SendsSomething
<1>. QED
  BY <1>7, <1>8, <1>9, <1>10, <1>11

-----------------------------------------------------------------------------
(* What the next message leaves.                                           *)

\* The library and the working set still fit the directory.
LEMMA SendingKeepsIndexed ==
  ASSUME TypeOK, Indexed, disk' = disk, dirs' = dirs, NEW out, NEW sq,
         SendsSomething(out, sq)
  PROVE  Indexed'
<1>0. /\ lib \in Library /\ ws \in WorkingSet /\ FilesTypeOK /\ lib.file \in [File -> FileObject]
      /\ lib.folders \in Seq(FolderObject)
  BY DEF TypeOK, FilesTypeOK, Library
<1>1. FilesAreKnown(lib) /\ FoldersAreListed(lib) /\ WorkExists(ws)
  BY DEF Indexed
<1>2. WorkExists(Rest) /\ Rest \in WorkingSet
  BY <1>0, <1>1, RestFacts
<1>3. CASE SendsPart(out, sq)
  <2>. DEFINE f == ws.cur
              o == lib.file[f]
  <2>1. f \in File /\ disk[f] # Absent
    BY <1>0, <1>1, <1>3 DEF SendsPart, CurFileHasParts, WorkingSet, FileKey, WorkExists
  <2>2. PICK p \in o.np, fd \in [open : BOOLEAN, data : Content, pos : 0..MaxParts] :
          /\ lib' = [lib EXCEPT !.file[f] = [o EXCEPT !.fd = fd, !.np = @ \ {p}]]
          /\ ws' = IF o.np = {p} THEN [ws EXCEPT !.files = @ \ {f}] ELSE ws
    BY <1>3 DEF SendsPart
  <2>. DEFINE sent == [o EXCEPT !.fd = fd, !.np = @ \ {p}]
  <2>3. sent.known = o.known /\ sent.hash = o.hash
    BY <1>0, <2>1 DEF FileObject
  <2>. HIDE DEF sent
  <2>4. /\ lib'.folders = lib.folders /\ lib'.file[f] = sent
        /\ \A g \in File : g # f => lib'.file[g] = lib.file[g]
    BY <1>0, <2>1, <2>2 DEF Library, sent
  <2>5. FilesAreKnown(lib)'
    BY <1>1, <2>1, <2>3, <2>4 DEF FilesAreKnown
  <2>6. FoldersAreListed(lib)'
    BY <1>1, <2>4 DEF FoldersAreListed
  <2>7. /\ ws'.cur = ws.cur /\ ws'.delFiles = ws.delFiles /\ ws'.delFolders = ws.delFolders
        /\ ws'.files \subseteq ws.files
    BY <1>0, <2>2 DEF WorkingSet
  <2>8. WorkExists(ws)'
    BY <1>1, <2>7 DEF WorkExists
  <2>. QED
    BY <2>5, <2>6, <2>8 DEF Indexed
<1>7. CASE SendsDeletion(out, sq)
  <2>1. PICK f \in Rest.delFiles : ws' = [Rest EXCEPT !.delFiles = @ \ {f}] /\ lib' = lib
    BY <1>7 DEF SendsDeletion
  <2>2. /\ ws'.files = Rest.files /\ ws'.cur = Rest.cur /\ ws'.delFiles \subseteq Rest.delFiles
        /\ ws'.delFolders = Rest.delFolders
    BY <1>2, <2>1 DEF WorkingSet
  <2>3. WorkExists(ws)'
    BY <1>2, <2>2 DEF WorkExists
  <2>. QED
    BY <1>1, <2>1, <2>3 DEF Indexed, FilesAreKnown, FoldersAreListed
<1>4. CASE SendsFolder(out, sq)
  <2>1. PICK i \in PendingFolders(lib) :
          /\ lib' = [lib EXCEPT !.folders[i] = [@ EXCEPT !.created = TRUE, !.pending = FALSE]]
          /\ ws' = Rest
    BY <1>4 DEF SendsFolder
  <2>2. i \in DOMAIN lib.folders /\ lib.folders[i] \in FolderObject
    BY <1>0, ElementOfSeq, LenProperties DEF PendingFolders
  <2>. DEFINE sent == [lib.folders[i] EXCEPT !.created = TRUE, !.pending = FALSE]
  <2>3. sent.path = lib.folders[i].path /\ sent.created
    BY <2>2 DEF FolderObject
  <2>. HIDE DEF sent
  <2>4. /\ lib'.file = lib.file /\ lib'.folders = [lib.folders EXCEPT ![i] = sent]
    BY <1>0, <2>1 DEF Library, sent
  <2>5. /\ DOMAIN lib'.folders = DOMAIN lib.folders
        /\ lib'.folders[i] = sent
        /\ \A j \in DOMAIN lib.folders : j # i => lib'.folders[j] = lib.folders[j]
    BY <1>0, <2>2, <2>4
  <2>6. FilesAreKnown(lib)'
    BY <1>1, <2>4 DEF FilesAreKnown
  <2>7. FoldersAreListed(lib)'
    BY <1>1, <2>2, <2>3, <2>5 DEF FoldersAreListed
  <2>8. WorkExists(ws)'
    BY <1>2, <2>1 DEF WorkExists
  <2>. QED
    BY <2>6, <2>7, <2>8 DEF Indexed
<1>5. CASE SendsStatus(out, sq)
  <2>1. PICK f \in Rest.files : ws' = [Rest EXCEPT !.cur = f] /\ lib' = lib
    BY <1>5 DEF SendsStatus
  <2>2. /\ ws'.files = Rest.files /\ ws'.cur = f /\ ws'.delFiles = Rest.delFiles
        /\ ws'.delFolders = Rest.delFolders
    BY <1>2, <2>1 DEF WorkingSet
  <2>3. WorkExists(ws)'
    BY <1>2, <2>2 DEF WorkExists
  <2>. QED
    BY <1>1, <2>1, <2>3 DEF Indexed, FilesAreKnown, FoldersAreListed
<1>6. CASE SendsEnd(out, sq)
  <2>1. lib' = lib /\ ws' = EmptyWorkingSet
    BY <1>6 DEF SendsEnd
  <2>2. WorkExists(ws)'
    BY <2>1 DEF WorkExists, EmptyWorkingSet
  <2>. QED
    BY <1>1, <2>1, <2>2 DEF Indexed, FilesAreKnown, FoldersAreListed
<1>. QED
  BY <1>3, <1>4, <1>5, <1>6, <1>7 DEF SendsSomething

\* Before the next message nothing is under way that needs an answer.
NoRequests(channel) ==
  \A i \in DOMAIN channel :
    IsCalm(channel[i]) /\ channel[i].type \in {"Ack", "TransferEnded"} /\
    (channel[i].type = "Ack" => channel[i].seq = 0)

\* A request is sent after what is under way, and waited for.
Asks(channel, sq) ==
  \E msg \in UpMessage :
    /\ cQueue' = PushSendMessage(<<>>, sq, msg)
    /\ cSeq' = sq + 1
    /\ up' = Append(channel, msg)
    /\ msg.seq = sq
    /\ \/ /\ cState' = "reqestedFileStatus" /\ cTimer' = NewTimer
          /\ msg.type = "FileStatus" /\ msg.fid = ws'.cur /\ ws'.cur # NoFile
       \/ /\ cState' = "awaitingAck" /\ cTimer' = Ticking
          /\ msg.type \in {"FileCreation", "FileTransfer"}
    /\ IsHarmless(msg)

\* There is nothing left to be sent.
Rests(channel) ==
  /\ cState' = "connected" /\ cTimer' = Ticking /\ cQueue' = <<>>
  /\ ws' = EmptyWorkingSet /\ PendingFolders(lib') = {}
  /\ up' = channel \/ up' = Append(channel, TransferEnded)

\* The next message asks, or nothing is left.
LEMMA NextAsksOrRests ==
  ASSUME TypeOK, Indexed, cId = 1, NEW channel \in Seq(UpMessage), NEW out \in Seq(UpMessage),
         NEW sq \in Nat, \A msg \in UpMessage : up \o Append(out, msg) = Append(channel, msg),
         SendsSomething(out, sq)
  PROVE  Asks(channel, sq) \/ Rests(channel)
<1>0. cId \in ClientId /\ cPw \in Passwords /\ cPort \in Nat
  BY ClientAssumption DEF TypeOK, ClientTypeOK
<1>1. /\ lib \in Library /\ ws \in WorkingSet /\ FilesTypeOK /\ lib.file \in [File -> FileObject]
      /\ lib.folders \in Seq(FolderObject) /\ WorkExists(ws)
  BY DEF TypeOK, FilesTypeOK, Library, Indexed
<1>2. ASSUME NEW msg \in UpMessage, NEW state, NEW tm, SendAndWait(state, tm, <<>>, out, sq, msg)
      PROVE  /\ cState' = state /\ cTimer' = tm /\ cQueue' = PushSendMessage(<<>>, sq, msg)
             /\ cSeq' = sq + 1 /\ up' = Append(channel, msg)
  BY <1>2 DEF SendAndWait
<1>3. CASE SendsPart(out, sq)
  <2>1. ws.cur \in File /\ lib.file[ws.cur].np \subseteq Part /\ disk[ws.cur] \in Content
        /\ lib.file[ws.cur] \in FileObject
    <3>1. ws.cur \in File
      BY <1>1, <1>3 DEF SendsPart, CurFileHasParts, WorkingSet, FileKey
    <3>2. disk[ws.cur] # Absent
      BY <1>1, <3>1, FilesystemAssumption DEF WorkExists
    <3>. QED
      BY <1>1, <3>1, <3>2 DEF FilesTypeOK, FileObject
  <2>2. PICK p \in Part, v \in Data :
          SendAndWait("awaitingAck", Ticking, <<>>, out, sq, FileTransfer(sq, p, v))
    <3>. DEFINE o == lib.file[ws.cur]
                file == IF o.fd.open THEN o.fd.data ELSE disk[ws.cur]
    <3>1. file \in Content
      BY <1>1, <2>1 DEF FileObject
    <3>2. Hole \in Data /\ Garbage \in Data
      BY DEF Data
    <3>3. PICK p \in o.np :
            SendAndWait("awaitingAck", Ticking, <<>>, out, sq,
               FileTransfer(sq, p, IF p < o.size THEN PartOf(file, p, Garbage) ELSE Hole))
      BY <1>3 DEF SendsPart
    <3>4. p \in Part
      BY <2>1
    <3>. HIDE DEF file
    <3>5. (IF p < o.size THEN PartOf(file, p, Garbage) ELSE Hole) \in Data
      BY <3>1, <3>2, <3>4, PartOfIsData
    <3>. QED
      BY <3>3, <3>4, <3>5
  <2>. DEFINE msg == FileTransfer(sq, p, v)
  <2>3. msg \in UpMessage
    BY <1>0, <2>2, UpMessages
  <2>4. msg.seq = sq /\ IsHarmless(msg) /\ msg.type = "FileTransfer"
    BY DEF FileTransfer, IsHarmless, FitsDirectory
  <2>. HIDE DEF msg
  <2>. QED
    BY <1>2, <2>2, <2>3, <2>4 DEF Asks, msg
<1>7. CASE SendsDeletion(out, sq)
  <2>1. PICK f \in Rest.delFiles :
          SendAndWait("awaitingAck", Ticking, <<>>, out, sq, FileCreation(sq, "ft_del_file", f))
    BY <1>7 DEF SendsDeletion
  <2>2. f \in File /\ disk[f] = Absent
    BY <1>1, RestFacts DEF WorkingSet, WorkExists
  <2>. DEFINE msg == FileCreation(sq, "ft_del_file", f)
  <2>3. msg \in UpMessage
    BY <1>0, <2>2, UpMessages
  <2>4. msg.seq = sq /\ IsHarmless(msg) /\ msg.type = "FileCreation"
    BY <2>2 DEF FileCreation, IsHarmless, FitsDirectory
  <2>. HIDE DEF msg
  <2>. QED
    BY <1>2, <2>1, <2>3, <2>4 DEF Asks, msg
<1>4. CASE SendsFolder(out, sq)
  <2>1. PICK i \in PendingFolders(lib) :
          SendAndWait("awaitingAck", Ticking, <<>>, out, sq,
                      FileCreation(sq, "ft_folder", lib.folders[i].path))
    BY <1>4 DEF SendsFolder
  <2>2. lib.folders[i].path \in Path /\ lib.folders[i].path \in dirs \cup {Root}
    <3>1. lib.folders[i] \in FolderObject
      BY <1>1, ElementOfSeq, LenProperties DEF PendingFolders
    <3>2. i \in DOMAIN lib.folders
      BY DEF PendingFolders
    <3>. QED
      BY <3>1, <3>2 DEF FolderObject, Indexed, FoldersAreListed
  <2>. DEFINE msg == FileCreation(sq, "ft_folder", lib.folders[i].path)
  <2>3. msg \in UpMessage
    BY <1>0, <2>2, UpMessages
  <2>4. msg.seq = sq /\ IsHarmless(msg) /\ msg.type = "FileCreation"
    BY <2>2 DEF FileCreation, IsHarmless, FitsDirectory
  <2>. HIDE DEF msg
  <2>. QED
    BY <1>2, <2>1, <2>3, <2>4 DEF Asks, msg
<1>5. CASE SendsStatus(out, sq)
  <2>1. PICK f \in Rest.files :
          /\ SendAndWait("reqestedFileStatus", NewTimer, <<>>, out, sq, FileStatus(sq, f))
          /\ ws' = [Rest EXCEPT !.cur = f]
    BY <1>5 DEF SendsStatus
  <2>2. f \in File /\ f # NoFile /\ ws'.cur = f
    BY <1>1, <2>1, RestFacts, FilesystemAssumption DEF WorkingSet
  <2>. DEFINE msg == FileStatus(sq, f)
  <2>3. msg \in UpMessage
    BY <1>0, <2>2, UpMessages
  <2>4. msg.seq = sq /\ IsHarmless(msg) /\ msg.type = "FileStatus" /\ msg.fid = f
    BY DEF FileStatus, IsHarmless, FitsDirectory
  <2>. HIDE DEF msg
  <2>. QED
    BY <1>2, <2>1, <2>2, <2>3, <2>4 DEF Asks, msg
<1>6. CASE SendsEnd(out, sq)
  <2>1. TransferEnded \in UpMessage
    <3>1. 0 \in Nat
      OBVIOUS
    <3>. QED
      BY <1>0, <3>1, UpMessages
  <2>. QED
    BY <1>6, <2>1 DEF SendsEnd, Rests
<1>. QED
  BY <1>3, <1>4, <1>5, <1>6, <1>7 DEF SendsSomething

\* As long as the client keeps its ID and port it says the same hello.
LEMMA HelloStays ==
  ASSUME cId' = cId, cPort' = cPort
  PROVE  ClientHello' = ClientHello
BY DEF ClientHello

\* The client asks: it talks to a session that listens.
LEMMA AskingTalks ==
  ASSUME Calm, cPort >= 1, cPort' = cPort, cId' = cId, cIndexer = "joined", cIndexer' = cIndexer,
         Indexed', UNCHANGED <<disk, dirs, sessions, serverUp, garbled>>, down' = <<>>,
         NEW channel \in Seq(UpMessage), NoRequests(channel), ListensTo(channel),
         NEW sq \in Nat, Asks(channel, sq)
  PROVE  Calm' /\ Talking'
<1>1. PICK msg \in UpMessage :
        /\ cQueue' = PushSendMessage(<<>>, sq, msg)
        /\ cSeq' = sq + 1
        /\ up' = Append(channel, msg)
        /\ msg.seq = sq
        /\ \/ /\ cState' = "reqestedFileStatus" /\ cTimer' = NewTimer
              /\ msg.type = "FileStatus" /\ msg.fid = ws'.cur /\ ws'.cur # NoFile
           \/ /\ cState' = "awaitingAck" /\ cTimer' = Ticking
              /\ msg.type \in {"FileCreation", "FileTransfer"}
        /\ IsHarmless(msg)
  BY DEF Asks
<1>. DEFINE n == Len(channel) + 1
<1>2. /\ \A i \in DOMAIN up' : i = n \/ (i \in DOMAIN channel /\ up'[i] = channel[i])
      /\ \A i \in DOMAIN channel : i \in DOMAIN up' /\ up'[i] = channel[i]
      /\ up'[n] = msg /\ n \in DOMAIN up'
  BY <1>1, AppendPlaces
<1>3. Len(cQueue') = 1 /\ DOMAIN cQueue' = {1} /\ cQueue'[1].seq = sq /\ cQueue'[1].msg = msg
  BY <1>1, OneEntry
<1>. HIDE DEF n
<1>5. msg.type \in {"FileStatus", "FileCreation", "FileTransfer"}
  BY <1>1
<1>6. \A i \in DOMAIN up' : i = n \/ (IsCalm(up'[i]) /\ up'[i].type \in {"Ack", "TransferEnded"}
                                      /\ (up'[i].type = "Ack" => up'[i].seq = 0))
  BY <1>2 DEF NoRequests
<1>7. IsCalm(msg)
  BY <1>1, <1>5 DEF IsCalm
<1>8. Calm'
  <2>1. cId' = 1 /\ (garbled' = 0 => serverUp')
    BY DEF Calm
  <2>2. (\A id \in ClientId : sessions[id] # NoSession =>
           id = 1 /\ sessions[id].dst = cPort /\ ~sessions[id].todo)'
    BY DEF Calm
  <2>3. \A i \in DOMAIN up' : IsCalm(up'[i]) /\ up'[i].type # "ClientHello"
    BY <1>2, <1>5, <1>6, <1>7
  <2>4. (\A i \in DOMAIN up : IsCalm(up[i]))'
    BY <2>3, HelloStays DEF IsCalm, IsHarmless
  <2>. QED
    BY <2>1, <2>2, <2>3, <2>4 DEF Calm
<1>9. Requests' = {n}
  BY <1>2, <1>5, <1>6 DEF Requests, RequestTypes
<1>10. OneUnderWay'
  <2>1. ASSUME NEW i \in DOMAIN up'
        PROVE  /\ up'[i].type \in RequestTypes \cup {"Ack", "TransferEnded"}
               /\ up'[i].type = "Ack" => up'[i].seq = 0
    BY <1>2, <1>5, <1>6 DEF RequestTypes
  <2>2. \A i, j \in Requests' : i = j
    BY <1>9
  <2>3. \A i \in Requests' : down' = <<>> /\ \E k \in DOMAIN cQueue' : StandsFor(up[i], cQueue[k].msg)'
    BY <1>2, <1>3, <1>9 DEF StandsFor, SameMessage
  <2>. QED
    BY <2>1, <2>2, <2>3 DEF OneUnderWay
<1>11. WellFiled'
  BY <1>1, <1>3, <1>5 DEF WellFiled, RequestTypes, IsHarmless
<1>12. ListensTo(up)'
  BY <1>2 DEF ListensTo, SessionAwaits, AuthResult
<1>13. (OneStatus \/ OneFileMessage)'
  BY <1>1, <1>3, <1>9 DEF OneStatus, OneFileMessage
<1>. QED
  BY <1>8, <1>10, <1>11, <1>12, <1>13 DEF Talking

\* The client rests, and listens to its session.
LEMMA RestingTalks ==
  ASSUME Calm, cPort >= 1, cPort' = cPort, cId' = cId,
         Indexed', UNCHANGED <<disk, dirs, sessions, serverUp, garbled>>, down' = <<>>,
         NEW channel \in Seq(UpMessage), NoRequests(channel), ListensTo(channel), Rests(channel),
         TransferEnded \in UpMessage
  PROVE  Calm' /\ Talking'
<1>1. TransferEnded.type = "TransferEnded" /\ TransferEnded.to = 1
  BY DEF TransferEnded, Calm
<1>2. /\ cState' = "connected" /\ cTimer' = Ticking /\ cQueue' = <<>>
      /\ ws' = EmptyWorkingSet /\ PendingFolders(lib') = {}
  BY DEF Rests
<1>3. /\ \A i \in DOMAIN up' : \/ up'[i] = TransferEnded
                               \/ i \in DOMAIN channel /\ up'[i] = channel[i]
      /\ \A i \in DOMAIN channel : i \in DOMAIN up' /\ up'[i] = channel[i]
  BY AppendPlaces DEF Rests
<1>4. IsCalm(TransferEnded)
  BY <1>1 DEF IsCalm, IsHarmless, FitsDirectory
<1>5. \A i \in DOMAIN up' : /\ IsCalm(up'[i]) /\ up'[i].type \in {"Ack", "TransferEnded"}
                            /\ up'[i].type = "Ack" => up'[i].seq = 0
  BY <1>1, <1>3, <1>4 DEF NoRequests
<1>6. Calm'
  <2>1. cId' = 1 /\ (garbled' = 0 => serverUp')
    BY DEF Calm
  <2>2. (\A id \in ClientId : sessions[id] # NoSession =>
           id = 1 /\ sessions[id].dst = cPort /\ ~sessions[id].todo)'
    BY DEF Calm
  <2>3. \A i \in DOMAIN up' : IsCalm(up'[i]) /\ up'[i].type # "ClientHello"
    BY <1>5
  <2>4. (\A i \in DOMAIN up : IsCalm(up[i]))'
    BY <2>3, HelloStays DEF IsCalm, IsHarmless
  <2>. QED
    BY <2>1, <2>2, <2>3, <2>4 DEF Calm
<1>7. Requests' = {}
  BY <1>5 DEF Requests, RequestTypes
<1>8. OneUnderWay'
  BY <1>5, <1>7 DEF OneUnderWay, RequestTypes
<1>9. WellFiled' /\ OnlyPings'
  BY <1>2 DEF WellFiled, OnlyPings, PendingFolders
<1>10. ListensTo(up)'
  BY <1>3 DEF ListensTo, SessionAwaits, AuthResult
<1>. QED
  BY <1>6, <1>8, <1>9, <1>10 DEF Talking

-----------------------------------------------------------------------------
(* What the server does with one session.                                  *)

\* Sessions go or keep the port of their client, and get nothing to do.
SessionsStay ==
  \A id \in ClientId : sessions'[id] # NoSession =>
    /\ sessions[id] # NoSession
    /\ sessions'[id].dst = sessions[id].dst
    /\ sessions'[id].todo = sessions[id].todo

\* The datagrams to the server are those it had, or one less.
NothingSent == up' = up \/ \E i \in DOMAIN up : up' = RemoveAt(up, i)

\* The server survives what the client means.
KeepsUp == garbled' = 0 => garbled = 0 /\ serverUp' = serverUp

\* Such a step keeps calm.
LEMMA StepKeepsCalm ==
  ASSUME TypeOK, Calm, cId' = cId, cPort' = cPort, UNCHANGED <<disk, dirs>>, KeepsUp,
         NothingSent, SessionsStay
  PROVE  Calm'
<1>0. up \in Seq(UpMessage)
  BY DEF TypeOK, NetTypeOK
<1>1. cId' = 1 /\ (garbled' = 0 => serverUp')
  BY DEF Calm, KeepsUp
<1>2. (\A id \in ClientId : sessions[id] # NoSession =>
         id = 1 /\ sessions[id].dst = cPort /\ ~sessions[id].todo)'
  BY DEF Calm, SessionsStay
<1>4. \A j \in DOMAIN up' : \E k \in DOMAIN up : up'[j] = up[k]
  BY <1>0, RemoveAtPlaces DEF NothingSent
<1>5. (\A i \in DOMAIN up : IsCalm(up[i]))'
  <2>1. \A j \in DOMAIN up' : IsCalm(up'[j])
    BY <1>4 DEF Calm
  <2>. QED
    BY <2>1, HelloStays DEF IsCalm, IsHarmless, KeepsUp
<1>6. ASSUME NEW i \in DOMAIN up', NEW j \in DOMAIN up', up'[i].type = "ClientHello"
      PROVE  Quiet' /\ (up'[j].type = "ClientHello" => i = j)
  <2>1. Quiet'
    <3>1. Quiet
      BY <1>4, <1>6 DEF Calm
    <3>. QED
      BY <3>1 DEF Quiet, SessionsStay
  <2>2. ASSUME up'[j].type = "ClientHello" PROVE i = j
    <3>1. CASE up' = up
      BY <1>6, <2>2, <3>1 DEF Calm
    <3>2. CASE up' # up
      <4>1. PICK k \in DOMAIN up : up' = RemoveAt(up, k)
        BY <3>2 DEF NothingSent
      <4>2. /\ Source(k, i) \in DOMAIN up /\ up'[i] = up[Source(k, i)]
            /\ Source(k, j) \in DOMAIN up /\ up'[j] = up[Source(k, j)]
        BY <1>0, <4>1, RemoveAtPlaces
      <4>3. Source(k, i) = Source(k, j)
        BY <1>6, <2>2, <4>2 DEF Calm
      <4>4. k \in Nat /\ i \in Nat /\ j \in Nat
        <5>1. up' \in Seq(UpMessage)
          BY <1>0, <4>1, RemoveAtPlaces
        <5>. QED
          BY <1>0, <1>6, <5>1, LenProperties
      <4>. QED
        BY <4>3, <4>4, SourcesDiffer
    <3>. QED
      BY <3>1, <3>2
  <2>. QED
    BY <2>1, <2>2
<1>7. (\A i, j \in DOMAIN up : up[i].type = "ClientHello" =>
         Quiet /\ (up[j].type = "ClientHello" => i = j))'
  BY <1>6
<1>. QED
  BY <1>1, <1>2, <1>5, <1>7 DEF Calm

\* One session is replaced by one with the same client.
LEMMA ReplacedStays ==
  ASSUME TypeOK, sessions[1] # NoSession, NEW s,
         sessions' = [sessions EXCEPT ![1] = s], s.dst = sessions[1].dst, s.todo = sessions[1].todo
  PROVE  SessionsStay /\ sessions'[1] = s
BY ServerFacts, ClientIds DEF SessionsStay

\* A handler of a request keeps everything of its session but the file.
SameSession ==
  /\ sessions'[1] # NoSession
  /\ sessions'[1].state = sessions[1].state
  /\ sessions'[1].dst = sessions[1].dst
  /\ sessions'[1].todo = sessions[1].todo
  /\ sessions'[1].queue = sessions[1].queue

\* The type of the answer to a request.
AnswerType(m) == IF m.type = "FileStatus" THEN "FileStatus" ELSE "Ack"

\* A request is acted on and answered under its number.
LEMMA RequestIsAnswered ==
  ASSUME TypeOK, Calm, NEW m \in UpMessage, m.type \in RequestTypes, IsCalm(m),
         Active(1), SessionReceive(m)
  PROVE  /\ SameSession /\ SessionsStay /\ (garbled = 0 => serverUp' = serverUp)
         /\ handled' = handled \cup {m}
         /\ \E a \in DownMessage :
              /\ down' = Append(down, a)
              /\ a.dst = cPort /\ a.seq = m.seq /\ a.type = AnswerType(m)
<1>. DEFINE s == sessions[1]
<1>0. 1 \in ClientId /\ s # NoSession
  BY ClientIds DEF Active
<1>1. /\ m.to = 1 /\ s # NoSession /\ s \in SessionRecord /\ s.dst = cPort /\ 1 \in ClientId
      /\ sessions \in [ClientId -> SessionRecord \cup {NoSession}] /\ m.seq \in Nat /\ s.dst \in Nat
  <2>1. m.to = 1
    BY DEF IsCalm, IsHarmless, RequestTypes
  <2>2. m.seq \in Nat
    BY UpByType DEF RequestTypes
  <2>3. s.dst = cPort
    BY <1>0 DEF Calm
  <2>4. cPort \in Nat
    BY ClientFacts
  <2>. QED
    BY <1>0, <2>1, <2>2, <2>3, <2>4, ServerFacts
<1>2. ASSUME sessions' = sessions
      PROVE  SameSession /\ SessionsStay
  <2>1. SameSession
    BY <1>0, <1>2 DEF SameSession
  <2>2. SessionsStay
    BY <1>2 DEF SessionsStay
  <2>. QED
    BY <2>1, <2>2
<1>3. ASSUME NEW f \in FileKey, sessions' = [sessions EXCEPT ![1].cur = f]
      PROVE  SameSession /\ SessionsStay
  <2>. DEFINE t == [s EXCEPT !.cur = f]
  <2>1. /\ t \in SessionRecord /\ t.state = s.state /\ t.dst = s.dst /\ t.todo = s.todo
        /\ t.queue = s.queue
    BY <1>1 DEF SessionRecord
  <2>2. sessions' = [sessions EXCEPT ![1] = t]
    BY <1>1, <1>3
  <2>. HIDE DEF t
  <2>3. SessionsStay /\ sessions'[1] = t
    BY <1>1, <2>1, <2>2, ReplacedStays
  <2>. QED
    BY <2>1, <2>3, NoSessionAssumption DEF SameSession
<1>4. DownAck(m.seq, s.dst) \in DownMessage
  BY <1>1, DownMessages
<1>5. /\ DownAck(m.seq, s.dst).dst = cPort /\ DownAck(m.seq, s.dst).seq = m.seq
      /\ DownAck(m.seq, s.dst).type = "Ack"
  BY <1>1 DEF DownAck
<1>6. CASE m.type = "Ping"
  <2>1. OnPing(1, m)
    BY <1>1, <1>6 DEF SessionReceive
  <2>. QED
    BY <1>2, <1>4, <1>5, <1>6, <2>1 DEF OnPing, AnswerType
<1>7. CASE m.type = "FileStatus"
  <2>1. OnFileStatusRequest(1, m)
    BY <1>1, <1>7 DEF SessionReceive
  <2>. DEFINE last == IF m.fid = NoFile THEN 0 ELSE sLast[m.fid]
  <2>2. last \in Part
    BY <1>7, UpByType, ServerFacts, FilesystemAssumption DEF FsServerTypeOK, Part, FileKey
  <2>. HIDE DEF last
  <2>3. FileStatusAnswer(m.seq, s.dst, last) \in DownMessage
    BY <1>1, <2>2, DownMessages
  <2>4. /\ FileStatusAnswer(m.seq, s.dst, last).dst = cPort
        /\ FileStatusAnswer(m.seq, s.dst, last).seq = m.seq
        /\ FileStatusAnswer(m.seq, s.dst, last).type = "FileStatus"
    BY <1>1 DEF FileStatusAnswer
  <2>. QED
    BY <1>2, <1>7, <2>1, <2>3, <2>4 DEF OnFileStatusRequest, AnswerType, last
<1>8. CASE m.type = "FileTransfer"
  <2>1. OnFileTransfer(1, m)
    BY <1>1, <1>8 DEF SessionReceive
  <2>. QED
    BY <1>2, <1>4, <1>5, <1>8, <2>1 DEF OnFileTransfer, AnswerType
<1>9. CASE m.type = "FileCreation"
  <2>1. OnFileCreation(1, m)
    BY <1>1, <1>9 DEF SessionReceive
  <2>2. /\ down' = Append(down, DownAck(m.seq, s.dst)) /\ handled' = handled \cup {m}
        /\ CarryOut(1, m)
    BY <2>1 DEF OnFileCreation
  <2>3. garbled = 0 => \/ m.kind \in {"ft_folder", "ft_file"} /\ m.fid \in File \cup Path
                       \/ m.kind = "ft_del_file" /\ m.fid \in File
    BY <1>9 DEF IsCalm, IsHarmless, FitsDirectory, Path, TypeOK, FilesTypeOK
  <2>4. ASSUME garbled = 0 PROVE serverUp' = serverUp
    <3>1. m.fid # BadPath
      BY <2>3, <2>4, FilesystemAssumption
    <3>2. CASE m.kind = "ft_folder"
      BY <2>2, <3>1, <3>2 DEF CarryOut
    <3>3. CASE m.kind = "ft_file"
      BY <2>2, <3>1, <3>3 DEF CarryOut
    <3>4. CASE m.kind = "ft_del_file" /\ m.fid \in File
      BY <2>2, <3>1, <3>4, FilesystemAssumption DEF CarryOut, Path
    <3>. QED
      BY <2>3, <2>4, <3>2, <3>3, <3>4
  <2>5. CASE m.kind = "ft_file" /\ m.fid # BadPath
    <3>1. sessions' = [sessions EXCEPT ![1].cur = m.fid]
      BY <2>2, <2>5 DEF CarryOut
    <3>2. m.fid \in FileKey
      BY <1>9, <2>5, UpByType
    <3>. QED
      BY <1>3, <1>4, <1>5, <1>9, <2>2, <2>4, <3>1, <3>2 DEF AnswerType
  <2>6. CASE ~(m.kind = "ft_file" /\ m.fid # BadPath)
    <3>1. sessions' = sessions
      BY <2>2, <2>6 DEF CarryOut
    <3>. QED
      BY <1>2, <1>4, <1>5, <1>9, <2>2, <2>4, <3>1 DEF AnswerType
  <2>. QED
    BY <2>5, <2>6
<1>. QED
  BY <1>6, <1>7, <1>8, <1>9 DEF RequestTypes

\* Whatever a session is sent, it keeps calm.
LEMMA SessionKeepsCalm ==
  ASSUME TypeOK, Calm, NEW m \in UpMessage, m.type # "ClientHello", IsCalm(m), SessionReceive(m)
  PROVE  SessionsStay /\ (garbled = 0 => serverUp' = serverUp)
<1>. DEFINE s == sessions[1]
<1>1. m.to = 1
  BY DEF IsCalm, IsHarmless
<1>2. CASE UNCHANGED <<serverVars, down>>
  BY <1>2 DEF serverVars, SessionsStay
<1>3. CASE Active(1) /\ m.type \in RequestTypes
  BY <1>3, RequestIsAnswered
<1>4. ASSUME Active(1)
      PROVE  s # NoSession /\ s \in SessionRecord /\ s.dst = cPort
  BY <1>4, ServerFacts, ClientIds DEF Active, Calm
<1>5. CASE Active(1) /\ m.type = "AuthRequest" /\ IsQueued(s.queue, m.seq)
  <2>. DEFINE ok == m.pw = Password
              result == AuthResult(m.seq, s.dst, ok)
              q == OnSequenceNumberAck(s.queue, m.seq)
              t == IF ok THEN [s EXCEPT !.state = "fsc_awaitServerAuthAck",
                                        !.queue = PushSendMessage(q, m.seq, result)]
                   ELSE [s EXCEPT !.state = "fsc_error", !.queue = <<>>]
  <2>1. OnAuthRequest(1, m)
    BY <1>1, <1>5 DEF SessionReceive
  <2>2. down' = Append(down, result) /\ sessions' = [sessions EXCEPT ![1] = t] /\ serverUp' = serverUp
    BY <1>5, <2>1 DEF OnAuthRequest
  <2>3. result.dst = cPort /\ t.dst = s.dst /\ t.todo = s.todo
    BY <1>4, <1>5 DEF AuthResult, SessionRecord
  <2>. HIDE DEF t, result
  <2>. QED
    BY <1>4, <1>5, <2>2, <2>3, ReplacedStays
<1>6. CASE Active(1) /\ m.type = "Ack" /\ IsQueued(s.queue, m.seq)
  <2>. DEFINE q == OnSequenceNumberAck(s.queue, m.seq)
              t == [s EXCEPT !.queue = q,
                             !.state = IF @ = "fsc_awaitServerAuthAck" THEN "fsc_connected" ELSE @]
  <2>1. OnClientAck(1, m)
    BY <1>1, <1>6 DEF SessionReceive
  <2>2. down' = down /\ sessions' = [sessions EXCEPT ![1] = t] /\ serverUp' = serverUp
    BY <1>6, <2>1 DEF OnClientAck
  <2>3. t.dst = s.dst /\ t.todo = s.todo
    BY <1>4, <1>6 DEF SessionRecord
  <2>. HIDE DEF t
  <2>. QED
    BY <1>4, <1>6, <2>2, <2>3, ReplacedStays
<1>. QED
  BY <1>1, <1>2, <1>3, <1>5, <1>6
     DEF SessionReceive, OnAuthRequest, OnClientAck, OnTransferEnded, RequestTypes

\* So does a tick of a session.
LEMMA TickKeepsCalm ==
  ASSUME TypeOK, Calm, NEW id \in ClientId, SessionTick(id)
  PROVE  SessionsStay /\ serverUp' = serverUp
<1>. DEFINE s == sessions[id]
<1>1. id = 1 /\ s # NoSession /\ s \in SessionRecord /\ s.dst = cPort /\ ~s.todo
  BY ServerFacts DEF SessionTick, Active, Calm
<1>2. CASE TickIdle(id)
  <2>. DEFINE t == [s EXCEPT !.state = "fsc_ping"]
  <2>1. sessions' = [sessions EXCEPT ![1] = t] /\ down' = down /\ serverUp' = serverUp
    BY <1>1, <1>2, ServerFacts DEF TickIdle
  <2>2. t.dst = s.dst /\ t.todo = s.todo
    BY <1>1 DEF SessionRecord
  <2>. HIDE DEF t
  <2>. QED
    BY <1>1, <2>1, <2>2, ReplacedStays
<1>3. CASE TickAwaitingClient(id) /\ Oldest(s.queue).sendCount > MaxMessageTimeouts
  <2>. DEFINE t == [s EXCEPT !.state = "fsc_error", !.queue = <<>>]
  <2>1. sessions' = [sessions EXCEPT ![1] = t] /\ down' = down /\ serverUp' = serverUp
    BY <1>1, <1>3 DEF TickAwaitingClient
  <2>2. t.dst = s.dst /\ t.todo = s.todo
    BY <1>1 DEF SessionRecord
  <2>. HIDE DEF t
  <2>. QED
    BY <1>1, <2>1, <2>2, ReplacedStays
<1>4. CASE TickAwaitingClient(id) /\ ~(Oldest(s.queue).sendCount > MaxMessageTimeouts)
  <2>. DEFINE t == [s EXCEPT !.queue = RequeueOldest(@)]
  <2>1. /\ sessions' = [sessions EXCEPT ![1] = t] /\ down' = Append(down, Oldest(s.queue).msg)
        /\ serverUp' = serverUp
    BY <1>1, <1>4 DEF TickAwaitingClient
  <2>2. t.dst = s.dst /\ t.todo = s.todo
    BY <1>1 DEF SessionRecord
  <2>. HIDE DEF t
  <2>3. SessionsStay
    BY <1>1, <2>1, <2>2, ReplacedStays
  <2>. QED
    BY <1>1, <2>1, <2>3
<1>. QED
  BY <1>1, <1>2, <1>3, <1>4 DEF SessionTick, TickSendingChanges

-----------------------------------------------------------------------------
(* The steps there are in a first synchronisation.                         *)

\* Nothing changes the directory, and nothing is delivered twice.
LEMMA FewActions ==
  ASSUME FirstSync, TypeOK, Next
  PROVE  /\ UNCHANGED <<disk, dirs>>
         /\ \/ Connects \/ Stops \/ SaysHello \/ Indexes \/ ClientTicks \/ TimerEnds
            \/ SessionTicks \/ CleansUp
            \/ LoseUp /\ UNCHANGED <<clientVars, fsClientVars, serverVars>>
            \/ LoseDown /\ UNCHANGED <<clientVars, fsClientVars, serverVars>>
            \/ DeliverUp \/ DeliverDown
<1>1. changes = 0 /\ duplicates = 0 /\ ~OtherClients
  BY DEF FirstSync, TypeOK, FilesTypeOK, NetTypeOK
<1>2. ~UserChanges
  <2>1. ~Change
    BY <1>1 DEF Change, FirstSync
  <2>. QED
    BY <2>1 DEF UserChanges, UserChange, SaveFile, RemoveFile, MakeFolder, RemoveFolder
<1>3. ~OthersUpload
  BY <1>1 DEF OthersUpload, OtherClientUploads
<1>4. ~DuplicateUp /\ ~DuplicateDown
  BY <1>1 DEF DuplicateUp, DuplicateDown, FirstSync
<1>5. \/ Connects \/ Stops \/ SaysHello \/ Indexes \/ ClientTicks \/ TimerEnds
      \/ SessionTicks \/ CleansUp
      \/ LoseUp /\ UNCHANGED <<clientVars, fsClientVars, serverVars>>
      \/ LoseDown /\ UNCHANGED <<clientVars, fsClientVars, serverVars>>
      \/ DeliverUp \/ DeliverDown
  BY <1>2, <1>3, <1>4 DEF Next, Faults, NetworkFault
<1>6. UNCHANGED <<disk, dirs>>
  <2>1. CASE Connects
    BY <2>1 DEF Connects, UserConnect
  <2>2. CASE Stops \/ SaysHello \/ Indexes \/ TimerEnds
    BY <2>2 DEF Stops, UserStop, SaysHello, SendClientHello, Indexes, IndexerEnds, TimerEnds,
                TimerThreadEnds, fsClientVars
  <2>3. CASE ClientTicks
    BY <2>3 DEF ClientTicks, ClientTick, TickConnected, TickAwaiting, TickPing, Reconnect, fsClientVars
  <2>4. CASE SessionTicks \/ CleansUp \/ UNCHANGED <<clientVars, fsClientVars, serverVars>> \/ DeliverUp
    BY <2>4 DEF SessionTicks, CleansUp, ServerThreads, DeliverUp, fsClientVars
  <2>5. CASE DeliverDown
    <3>1. PICK i \in DOMAIN down : ClientReceive(down[i])
      BY <2>5 DEF DeliverDown, Deliverable
    <3>2. CASE Ignored
      BY <3>2 DEF Ignored, fsClientVars
    <3>3. CASE OnServerHello(down[i])
      BY <3>3 DEF OnServerHello, Ignored, fsClientVars
    <3>4. CASE OnAuthResult(down[i])
      BY <3>4 DEF OnAuthResult, Ignored, fsClientVars
    <3>5. CASE OnFileStatus(down[i])
      BY <3>5 DEF OnFileStatus, Ignored, fsClientVars
    <3>6. CASE OnAck(down[i])
      BY <3>6 DEF OnAck, Ignored, fsClientVars
    <3>. QED
      BY <3>1, <3>2, <3>3, <3>4, <3>5, <3>6 DEF ClientReceive
  <2>. QED
    BY <1>5, <2>1, <2>2, <2>3, <2>4, <2>5
<1>. QED
  BY <1>5, <1>6

\* A client that sends something else than a hello keeps calm.
LEMMA SendingKeepsCalm ==
  ASSUME TypeOK, Calm, UNCHANGED <<disk, dirs, cId, cPort, sessions, serverUp>>,
         garbled' = 0 => garbled = 0,
         NEW m \in UpMessage, IsCalm(m) \/ (garbled' # 0 /\ m.to = 1), m.type # "ClientHello",
         up' = Append(up, m)
  PROVE  Calm'
<1>1. up \in Seq(UpMessage)
  BY DEF TypeOK, NetTypeOK
<1>2. /\ \A j \in DOMAIN up' : j = Len(up) + 1 \/ (j \in DOMAIN up /\ up'[j] = up[j])
      /\ up'[Len(up) + 1] = m
  BY <1>1, AppendPlaces
<1>3. cId' = 1 /\ (garbled' = 0 => serverUp')
  BY DEF Calm
<1>4. (\A id \in ClientId : sessions[id] # NoSession =>
         id = 1 /\ sessions[id].dst = cPort /\ ~sessions[id].todo)'
  BY DEF Calm
<1>5. (\A i \in DOMAIN up : IsCalm(up[i]))'
  <2>1. \A j \in DOMAIN up' : IsCalm(up'[j]) \/ (up'[j] = m /\ garbled' # 0 /\ m.to = 1)
    BY <1>2 DEF Calm
  <2>. QED
    BY <2>1, HelloStays DEF IsCalm, IsHarmless
<1>6. (\A i, j \in DOMAIN up : up[i].type = "ClientHello" =>
         Quiet /\ (up[j].type = "ClientHello" => i = j))'
  <2>1. ASSUME NEW i \in DOMAIN up', NEW j \in DOMAIN up', up'[i].type = "ClientHello"
        PROVE  Quiet' /\ (up'[j].type = "ClientHello" => i = j)
    <3>1. i \in DOMAIN up /\ up[i].type = "ClientHello"
      BY <1>2, <2>1
    <3>2. Quiet
      BY <3>1 DEF Calm
    <3>3. up'[j].type = "ClientHello" => j \in DOMAIN up /\ up[j].type = "ClientHello"
      BY <1>2
    <3>4. Quiet'
      BY <3>2 DEF Quiet
    <3>. QED
      BY <3>1, <3>3, <3>4 DEF Calm
  <2>. QED
    BY <2>1
<1>. QED
  BY <1>3, <1>4, <1>5, <1>6 DEF Calm

\* The hello opens the session, which greets the client.
LEMMA HelloIsGreeted ==
  ASSUME TypeOK, Calm, serverUp,
         UNCHANGED <<disk, dirs, cId, cPort, garbled>>, cPort >= 1, NEW i \in DOMAIN up,
         up[i].type = "ClientHello", ServerReceive(up[i]), up' = RemoveAt(up, i)
  PROVE  /\ Calm'
         /\ sessions'[1] = NewSession(ClientHello) /\ sessions'[1] # NoSession
         /\ down' = Append(down, Accepted)
         /\ Quiet /\ serverUp'
<1>1. up \in Seq(UpMessage) /\ 1 \in ClientId /\ cPort \in Nat
  BY ClientFacts, ClientIds DEF TypeOK, NetTypeOK
<1>2. up[i] = ClientHello /\ Quiet /\ cId = 1
  BY DEF Calm, IsCalm, IsHarmless
<1>3. ClientHello.id = 1 /\ ClientHello.dst = cPort
  BY <1>2 DEF ClientHello
<1>4. sessions[1] = NoSession
  BY <1>1, <1>2 DEF Quiet
<1>5. OnClientHello(ClientHello)
  BY <1>2 DEF ServerReceive
<1>6. /\ sessions' = [sessions EXCEPT ![1] = NewSession(ClientHello)]
      /\ down' = Append(down, Accepted) /\ serverUp' = serverUp
  BY <1>3, <1>4, <1>5 DEF OnClientHello, Accepted
<1>7. sessions \in [ClientId -> SessionRecord \cup {NoSession}]
  BY ServerFacts
<1>8. /\ sessions'[1] = NewSession(ClientHello)
      /\ \A id \in ClientId : id # 1 => sessions'[id] = sessions[id]
  BY <1>1, <1>6, <1>7
<1>9. NewSession(ClientHello) \in SessionRecord
  <2>1. ServerHello(1, cPort, "accepted") \in DownMessage
    BY <1>1, DownMessages
  <2>. DEFINE hello == ServerHello(1, cPort, "accepted")
  <2>2. <<>> \in Seq(Entry(DownMessage)) /\ 0 \in Nat
    OBVIOUS
  <2>. HIDE DEF hello
  <2>3. PushSendMessage(<<>>, 0, hello) \in Seq(Entry(DownMessage))
    BY <2>1, <2>2, PushType DEF hello
  <2>. QED
    BY <1>1, <1>3, <2>3 DEF NewSession, SessionRecord, SessionStates, FileKey, hello
<1>10. sessions'[1] # NoSession
  BY <1>8, <1>9, NoSessionAssumption
<1>11. /\ \A j \in DOMAIN up' : Source(i, j) \in DOMAIN up \ {i} /\ up'[j] = up[Source(i, j)]
  BY <1>1, RemoveAtPlaces
<1>12. \A j \in DOMAIN up' : up'[j].type # "ClientHello" /\ IsCalm(up'[j])
  BY <1>11 DEF Calm
<1>13. Calm'
  <2>1. (\A id \in ClientId : sessions[id] # NoSession =>
         id = 1 /\ sessions[id].dst = cPort /\ ~sessions[id].todo)'
    <3>1. NewSession(ClientHello).dst = cPort /\ ~NewSession(ClientHello).todo
      BY <1>3 DEF NewSession
    <3>. QED
      BY <1>2, <1>8, <3>1 DEF Quiet
  <2>2. (\A j \in DOMAIN up : IsCalm(up[j]))'
    BY <1>12, HelloStays DEF IsCalm, IsHarmless
  <2>. QED
    BY <1>2, <1>6, <1>12, <2>1, <2>2 DEF Calm
<1>. QED
  BY <1>2, <1>6, <1>8, <1>10, <1>13

\* A step of the server that is no answer to a hello keeps calm.
LEMMA ServerKeepsCalm ==
  ASSUME TypeOK, Calm, cPort >= 1,
         SessionTicks \/ CleansUp \/ DeliverUp
  PROVE  Calm'
<1>1. CASE SessionTicks
  <2>1. PICK id \in ClientId : SessionTick(id) /\ ServerThreads
    BY <1>1 DEF SessionTicks
  <2>2. SessionsStay /\ serverUp' = serverUp
    BY <2>1, TickKeepsCalm
  <2>. QED
    BY <2>1, <2>2, StepKeepsCalm DEF ServerThreads, clientVars, fsClientVars, NothingSent, KeepsUp
<1>2. CASE CleansUp
  <2>1. PICK id \in ClientId : Cleanup(id) /\ ServerThreads
    BY <1>2 DEF CleansUp
  <2>2. sessions' = [sessions EXCEPT ![id] = NoSession] /\ serverUp' = serverUp
    BY <2>1 DEF Cleanup
  <2>3. SessionsStay
    BY <2>2, ServerFacts DEF SessionsStay
  <2>. QED
    BY <2>1, <2>2, <2>3, StepKeepsCalm DEF ServerThreads, clientVars, fsClientVars, NothingSent, KeepsUp
<1>3. CASE DeliverUp
  <2>1. PICK i \in DOMAIN up : up' = RemoveAt(up, i) /\ ServerReceive(up[i])
    BY <1>3 DEF DeliverUp, Deliverable
  <2>2. UNCHANGED <<disk, dirs, cId, cPort, garbled>>
    BY <1>3 DEF DeliverUp, clientVars, fsClientVars
  <2>3. up[i] \in UpMessage /\ IsCalm(up[i])
    BY ElementOfSeq, LenProperties DEF TypeOK, NetTypeOK, Calm
  <2>4. CASE up[i].type = "ClientHello" /\ serverUp
    BY <2>1, <2>2, <2>4, HelloIsGreeted
  <2>6. CASE up[i].type = "ClientHello" /\ ~serverUp
    <3>1. UNCHANGED serverVars
      BY <2>1, <2>6 DEF ServerReceive
    <3>. QED
      BY <2>1, <2>2, <3>1, StepKeepsCalm DEF NothingSent, SessionsStay, serverVars, KeepsUp
  <2>5. CASE up[i].type # "ClientHello"
    <3>1. SessionReceive(up[i])
      BY <2>1, <2>5 DEF ServerReceive
    <3>2. SessionsStay /\ (garbled = 0 => serverUp' = serverUp)
      BY <2>3, <2>5, <3>1, SessionKeepsCalm
    <3>. QED
      BY <2>1, <2>2, <3>2, StepKeepsCalm DEF NothingSent, KeepsUp
  <2>. QED
    BY <2>4, <2>5, <2>6
<1>. QED
  BY <1>1, <1>2, <1>3

\* So does a step that leaves the datagrams to the server and the sessions.
LEMMA OthersKeepCalm ==
  ASSUME TypeOK, Calm, UNCHANGED <<disk, dirs, cId, cPort, sessions, serverUp, garbled>>,
         up' = up \/ \E i \in DOMAIN up : up' = RemoveAt(up, i)
  PROVE  Calm'
<1>1. SessionsStay
  BY DEF SessionsStay
<1>. QED
  BY <1>1, StepKeepsCalm DEF NothingSent, KeepsUp

-----------------------------------------------------------------------------
(* The phases, one after the other.                                        *)

\* A timer that was never started does nothing.
LEMMA NewTimerRests == ~Ticks(NewTimer) /\ ~LeavesLoop(NewTimer) /\ StartTimer(NewTimer) = Ticking
BY DEF Ticks, LeavesLoop, NewTimer, StartTimer, Ticking

\* A ticking timer stays so, whoever starts it.
LEMMA TickingTicks ==
  /\ Ticks(Ticking) /\ ~LeavesLoop(Ticking)
  /\ StartTimer(Ticking) = Ticking /\ ResetTimer(Ticking) = Ticking
BY DEF Ticks, LeavesLoop, StartTimer, ResetTimer, Ticking

\* No session does anything while there is none.
LEMMA NoSessionRests ==
  ASSUME Quiet
  PROVE  ~SessionTicks /\ ~CleansUp
BY DEF Quiet, SessionTicks, SessionTick, Active, CleansUp, Cleanup

\* The first thing that happens is that the client connects.
LEMMA FirstConnect ==
  ASSUME FirstSync, TypeOK, Calm, Before, Next
  PROVE  LET found == Index(EmptyLibrary, disk, dirs) IN
         /\ cPort' = 1 /\ cQueue' = <<>> /\ cTimer' = NewTimer /\ cIndexer' = "joined"
         /\ cState' = "sendClientHello" /\ ws' = found.ws /\ lib' = found.lib
         /\ up' = <<>> /\ down' = <<>>
         /\ UNCHANGED <<disk, dirs, cId, ended, garbled>> /\ UNCHANGED serverVars
<1>1. UNCHANGED <<disk, dirs>>
  BY FewActions
<1>2. /\ ~Stops /\ ~SaysHello /\ ~Indexes /\ ~ClientTicks /\ ~TimerEnds
      /\ ~SessionTicks /\ ~CleansUp /\ ~LoseUp /\ ~LoseDown /\ ~DeliverUp /\ ~DeliverDown
  <2>1. DOMAIN up = {} /\ DOMAIN down = {}
    BY DEF Before
  <2>2. ~LoseUp /\ ~LoseDown /\ ~DeliverUp /\ ~DeliverDown
    BY <2>1 DEF LoseUp, LoseDown, DeliverUp, DeliverDown, Deliverable
  <2>3. ~ClientTicks /\ ~TimerEnds /\ ~SessionTicks /\ ~CleansUp
    BY NewTimerRests, NoSessionRests
       DEF Before, ClientTicks, ClientTick, TimerEnds, TimerThreadEnds
  <2>4. ~Stops /\ ~SaysHello /\ ~Indexes
    BY DEF Before, Stops, UserStop, SaysHello, SendClientHello, Indexes, IndexerEnds
  <2>. QED
    BY <2>2, <2>3, <2>4
<1>3. Connects
  BY <1>2, FewActions
<1>4. Connect(NewTimer) /\ UNCHANGED <<serverVars, down>>
  BY <1>3 DEF Connects, UserConnect, ClientThreads, Before
<1>5. lib = EmptyLibrary
  BY DEF Before, EmptyLibrary
<1>. QED
  BY <1>1, <1>4, <1>5 DEF Connect, Before

\* The client is about to say hello, and knows its directory.
LEMMA BeforeStep ==
  ASSUME FirstSync, TypeOK, Calm, Before, Next
  PROVE  Calm' /\ Greeting'
<1>. DEFINE found == Index(EmptyLibrary, disk, dirs)
<1>1. /\ cPort' = 1 /\ cQueue' = <<>> /\ cTimer' = NewTimer /\ cIndexer' = "joined"
      /\ cState' = "sendClientHello" /\ ws' = found.ws /\ lib' = found.lib
      /\ up' = <<>> /\ down' = <<>>
      /\ UNCHANGED <<disk, dirs, cId, sessions, serverUp>>
  BY FirstConnect DEF serverVars
<1>2. /\ FilesAreKnown(found.lib) /\ FoldersAreListed(found.lib)
      /\ WorkExists(found.ws) /\ found.ws.cur = NoFile
  BY FirstIndex DEF TypeOK
<1>. HIDE DEF found
<1>3. Indexed' /\ ws'.cur = NoFile
  BY <1>1, <1>2 DEF Indexed, FilesAreKnown, FoldersAreListed, WorkExists
<1>4. Calm'
  <2>1. cId' = 1 /\ serverUp' /\ Quiet'
    BY <1>1 DEF Calm, Before, Quiet
  <2>2. DOMAIN up' = {}
    BY <1>1
  <2>. QED
    BY <2>1, <2>2 DEF Calm, Quiet
<1>5. Greeting'
  BY <1>1, <1>3 DEF Greeting, Before, Quiet
<1>. QED
  BY <1>4, <1>5

\* A client that has given up does nothing more.
LEMMA GoneStep ==
  ASSUME FirstSync, TypeOK, Calm, Gone, Next
  PROVE  Calm' /\ Gone'
<1>0. UNCHANGED <<disk, dirs>>
  BY FewActions
<1>1. ~Connects /\ ~Stops /\ ~SaysHello /\ ~ClientTicks
  BY DEF Gone, Connects, UserConnect, Stops, UserStop, SaysHello, SendClientHello, ClientTicks,
         ClientTick, TickConnected, TickAwaiting, TickPing
<1>2. CASE Indexes
  <2>1. UNCHANGED <<cId, cPort, cState, cQueue, sessions, serverUp, garbled, up>>
    BY <1>2 DEF Indexes, IndexerEnds, ClientThreads, serverVars
  <2>. QED
    BY <1>0, <2>1, OthersKeepCalm DEF Gone
<1>3. CASE TimerEnds
  <2>1. UNCHANGED <<cId, cPort, cState, cQueue, sessions, serverUp, garbled, up>>
    BY <1>3 DEF TimerEnds, TimerThreadEnds, ClientThreads, serverVars
  <2>. QED
    BY <1>0, <2>1, OthersKeepCalm DEF Gone
<1>4. CASE SessionTicks \/ CleansUp \/ DeliverUp
  <2>1. UNCHANGED <<cPort, cState, cQueue>>
    BY <1>4 DEF SessionTicks, CleansUp, DeliverUp, ServerThreads, clientVars
  <2>2. Calm'
    BY <1>4, ServerKeepsCalm DEF Gone
  <2>. QED
    BY <2>1, <2>2 DEF Gone
<1>5. CASE (LoseUp \/ LoseDown) /\ UNCHANGED <<clientVars, fsClientVars, serverVars>>
  <2>1. UNCHANGED <<cId, cPort, cState, cQueue, sessions, serverUp, garbled>>
    BY <1>5 DEF clientVars, serverVars
  <2>2. up' = up \/ \E i \in DOMAIN up : up' = RemoveAt(up, i)
    BY <1>5 DEF LoseUp, LoseDown
  <2>. QED
    BY <1>0, <2>1, <2>2, OthersKeepCalm DEF Gone
<1>6. CASE DeliverDown
  <2>1. PICK i \in DOMAIN down : ClientReceive(down[i]) /\ UNCHANGED serverVars
    BY <1>6 DEF DeliverDown, Deliverable
  <2>2. Ignored
    BY <2>1 DEF ClientReceive, Gone
  <2>3. UNCHANGED <<cId, cPort, cState, cQueue, sessions, serverUp, garbled, up>>
    BY <2>1, <2>2 DEF Ignored, clientVars, serverVars
  <2>. QED
    BY <1>0, <2>3, OthersKeepCalm DEF Gone
<1>. QED
  BY <1>1, <1>2, <1>3, <1>4, <1>5, <1>6, FewActions

\* A client that stops is gone.
LEMMA StopStep ==
  ASSUME FirstSync, TypeOK, Calm, cPort >= 1, Stops
  PROVE  Calm' /\ Gone'
<1>1. /\ cState' = "disconnected" /\ cQueue' = <<>> 
      /\ UNCHANGED <<disk, dirs, cId, cPort, sessions, serverUp, garbled, up>>
  BY DEF Stops, UserStop, EnterDisconnected, ClientThreads, serverVars, fsClientVars
<1>. QED
  BY <1>1, OthersKeepCalm DEF Gone

\* The library and the working set stay, and so does what they fit.
LEMMA IndexedStays ==
  ASSUME Indexed, UNCHANGED <<disk, dirs, lib, ws>>
  PROVE  Indexed'
BY DEF Indexed, FilesAreKnown, FoldersAreListed, WorkExists

\* A sequence of one, and what is left of it.
LEMMA SingleFacts ==
  ASSUME NEW T, NEW m \in T
  PROVE  /\ DOMAIN <<m>> = {1} /\ <<m>>[1] = m /\ Len(<<m>>) = 1
         /\ \A i \in DOMAIN <<m>> : RemoveAt(<<m>>, i) = <<>>
         /\ Append(<<>>, m) = <<m>> /\ <<>> \o <<m>> = <<m>>
<1>1. <<m>> \in Seq(T) /\ Len(<<m>>) = 1 /\ DOMAIN <<m>> = {1} /\ <<m>>[1] = m
  OBVIOUS
<1>2. Append(<<>>, m) = <<m>> /\ <<>> \o <<m>> = <<m>>
  OBVIOUS
<1>3. \A i \in DOMAIN <<m>> : RemoveAt(<<m>>, i) = <<>>
  <2>. DEFINE s == <<m>>
  <2>1. s \in Seq(T) /\ Len(s) = 1
    OBVIOUS
  <2>. HIDE DEF s
  <2>2. \A i \in DOMAIN s : RemoveAt(s, i) = <<>>
    BY <2>1, OneIsTaken
  <2>. QED
    BY <2>2 DEF s
<1>. QED
  BY <1>1, <1>2, <1>3

\* A session that waits for what is under way does not send it again.
LEMMA AwaitingRests ==
  ASSUME FirstSync, TypeOK, Calm, NEW state, NEW msg, SessionAwaits(state, msg),
         state \in {"fsc_awaitClientAuth", "fsc_awaitServerAuthAck"},
         SessionEntryInTransit(1, [seq |-> 0, msg |-> msg, sendCount |-> 1])
  PROVE  ~SessionTicks
<1>. SUFFICES ASSUME NEW id \in ClientId, SessionTick(id) PROVE FALSE
  BY DEF SessionTicks
<1>1. id = 1 /\ sessions[1] # NoSession
  BY DEF SessionTick, Active, Calm
<1>2. TickAwaitingClient(1)
  BY <1>1 DEF SessionTick, TickIdle, TickSendingChanges, SessionAwaits
<1>3. Oldest(sessions[1].queue) = [seq |-> 0, msg |-> msg, sendCount |-> 1]
  BY OneIsOldest DEF SessionAwaits
<1>. QED
  BY <1>2, <1>3 DEF TickAwaitingClient, FirstSync

\* Nothing but a silent session, or one in error, is cleaned up.
LEMMA HeardStays ==
  ASSUME FirstSync, TypeOK, Calm, sessions[1] # NoSession, sessions[1].state # "fsc_error",
         ~ClientIsSilent(1)
  PROVE  ~CleansUp
BY DEF FirstSync, CleansUp, Cleanup, Calm

\* The client says hello, the session is made and greets it.
LEMMA GreetingStep ==
  ASSUME FirstSync, TypeOK, Calm, Greeting, Next
  PROVE  Calm' /\ (Greeting \/ Authenticating \/ Gone)'
<1>0. /\ UNCHANGED <<disk, dirs>>
      /\ cPort >= 1 /\ cState = "sendClientHello" /\ cTimer = NewTimer /\ cQueue = <<>>
      /\ cIndexer = "joined" /\ Indexed /\ ws.cur = NoFile /\ cId = 1 /\ serverUp
      /\ 1 \in ClientId /\ cPw \in Passwords /\ 0 \in Nat /\ cPort \in Nat /\ cId \in ClientId
  BY FewActions, ClientIds DEF Greeting, Calm, TypeOK, ClientTypeOK
<1>1. ~Connects /\ ~Indexes /\ ~ClientTicks /\ ~TimerEnds
  BY <1>0, NewTimerRests DEF Connects, UserConnect, Indexes, IndexerEnds, ClientTicks, ClientTick,
         TimerEnds, TimerThreadEnds
<1>2. CASE Stops
  BY <1>0, <1>2, StopStep
<1>3. /\ ClientHello \in UpMessage /\ ClientHello.type = "ClientHello" /\ ClientHello.dst = cPort
      /\ ClientHello.id = 1
  BY <1>0, UpMessages DEF ClientHello
<1>4. /\ Accepted \in DownMessage /\ Accepted.type = "ServerHello" /\ Accepted.dst = cPort
      /\ Accepted.seq = 0 /\ Accepted.id = 1 /\ Accepted.flags = "accepted"
  BY <1>0, DownMessages DEF Accepted, ServerHello
<1>5. /\ AuthRequest(0) \in UpMessage /\ AuthRequest(0).type = "AuthRequest"
      /\ AuthRequest(0).to = 1 /\ AuthRequest(0).seq = 0
  BY <1>0, UpMessages DEF AuthRequest
<1>6. CASE up \in {<<>>, <<ClientHello>>} /\ down = <<>> /\ Quiet
  <2>1. ~SessionTicks /\ ~CleansUp
    BY <1>6, NoSessionRests
  <2>2. ~LoseDown /\ ~DeliverDown
    BY <1>6 DEF LoseDown, DeliverDown, Deliverable
  <2>3. CASE SaysHello
    <3>1. up = <<>>
      <4>1. up = <<ClientHello>> => HelloInTransit
        BY <1>0, <1>3 DEF HelloInTransit
      <4>. QED
        BY <1>6, <2>3, <4>1 DEF SaysHello, SendClientHello, FirstSync
    <3>2. /\ up' = <<ClientHello>> /\ UNCHANGED <<cId, cPort, cState, cTimer, cQueue, cIndexer>>
          /\ UNCHANGED <<disk, dirs, lib, ws, sessions, serverUp, garbled, down>>
      BY <2>3, <3>1 DEF SaysHello, SendClientHello, ClientThreads, serverVars, fsClientVars
    <3>3. ClientHello' = ClientHello
      BY <3>2, HelloStays
    <3>4. Indexed'
      BY <1>0, <3>2, IndexedStays
    <3>5. Quiet'
      BY <1>6, <3>2 DEF Quiet
    <3>6. Calm'
      <4>1. DOMAIN up' = {1} /\ up'[1] = ClientHello
        BY <3>2
      <4>. QED
        BY <1>3, <3>2, <3>3, <3>5, <4>1 DEF Calm, Quiet, IsCalm, IsHarmless
    <3>. QED
      BY <1>0, <1>6, <3>2, <3>3, <3>4, <3>5, <3>6 DEF Greeting
  <2>4. CASE LoseUp /\ UNCHANGED <<clientVars, fsClientVars, serverVars>>
    <3>1. PICK i \in DOMAIN up : up' = RemoveAt(up, i)
      BY <2>4 DEF LoseUp
    <3>2. up = <<ClientHello>>
      BY <1>6, <3>1
    <3>3. up' = <<>>
      BY <1>3, <3>1, <3>2, SingleFacts
    <3>4. UNCHANGED <<cId, cPort, cState, cTimer, cQueue, cIndexer, disk, dirs, lib, ws, sessions,
                      serverUp, garbled, down>>
      BY <2>4 DEF LoseUp, clientVars, fsClientVars, serverVars
    <3>5. Calm'
      BY <1>0, <3>1, <3>4, OthersKeepCalm
    <3>6. Indexed' /\ Quiet'
      BY <1>0, <1>6, <3>4, IndexedStays DEF Quiet
    <3>. QED
      BY <1>0, <1>6, <3>3, <3>4, <3>5, <3>6 DEF Greeting
  <2>5. CASE DeliverUp
    <3>1. PICK i \in DOMAIN up : up' = RemoveAt(up, i) /\ ServerReceive(up[i])
      BY <2>5 DEF DeliverUp, Deliverable
    <3>2. up = <<ClientHello>>
      BY <1>6, <3>1
    <3>3. up' = <<>> /\ up[i] = ClientHello
      BY <1>3, <3>1, <3>2, SingleFacts
    <3>4. UNCHANGED <<cId, cPort, cState, cTimer, cQueue, cIndexer, garbled, disk, dirs, lib, ws>>
      BY <2>5 DEF DeliverUp, clientVars, fsClientVars
    <3>5. /\ Calm' /\ sessions'[1] = NewSession(ClientHello) /\ sessions'[1] # NoSession
          /\ down' = Append(down, Accepted) /\ serverUp'
      BY <1>0, <1>3, <3>1, <3>3, <3>4, HelloIsGreeted
    <3>6. down' = <<Accepted>>
      BY <1>4, <1>6, <3>5, SingleFacts
    <3>7. SessionAwaits("fsc_awaitClientAuth", Accepted)'
      BY <1>3, <3>4, <3>5 DEF SessionAwaits, NewSession, Accepted, ServerHello
    <3>8. Indexed'
      BY <1>0, <3>4, IndexedStays
    <3>. QED
      BY <1>0, <3>3, <3>4, <3>5, <3>6, <3>7, <3>8 DEF Greeting, Accepted, ServerHello
  <2>. QED
    BY <1>1, <1>2, <2>1, <2>2, <2>3, <2>4, <2>5, FewActions
<1>7. CASE up = <<>> /\ down = <<Accepted>> /\ SessionAwaits("fsc_awaitClientAuth", Accepted)
  <2>1. DOMAIN down = {1} /\ down[1] = Accepted /\ DOMAIN up = {}
    BY <1>4, <1>7, SingleFacts
  <2>2. ~SaysHello
    BY <1>0, <1>4, <2>1 DEF SaysHello, SendClientHello, FirstSync, HelloInTransit
  <2>3. ~LoseUp /\ ~DeliverUp
    BY <2>1 DEF LoseUp, DeliverUp, Deliverable
  <2>4. ~SessionTicks
    <3>1. SessionEntryInTransit(1, [seq |-> 0, msg |-> Accepted, sendCount |-> 1])
      BY <2>1 DEF SessionEntryInTransit
    <3>. QED
      BY <1>7, <3>1, AwaitingRests
  <2>5. ~CleansUp
    <3>1. sessions[1] # NoSession /\ sessions[1].state = "fsc_awaitClientAuth" /\ sessions[1].dst = cPort
      BY <1>0, <1>7 DEF SessionAwaits, Calm
    <3>2. ~ClientIsSilent(1)
      BY <1>4, <2>1, <3>1 DEF ClientIsSilent
    <3>. QED
      BY <3>1, <3>2, HeardStays
  <2>6. ~LoseDown
    BY <1>4, <2>1 DEF LoseDown, FirstSync
  <2>7. CASE DeliverDown
    <3>1. PICK i \in DOMAIN down : /\ down' = RemoveAt(down, i) /\ ClientReceive(down[i])
                                   /\ UNCHANGED serverVars
      BY <2>7 DEF DeliverDown, Deliverable
    <3>2. down' = <<>> /\ down[i] = Accepted
      BY <1>4, <1>7, <2>1, <3>1, SingleFacts
    <3>3. OnServerHello(Accepted)
      BY <1>0, <1>4, <3>1, <3>2 DEF ClientReceive
    <3>4. /\ cState' = "clientAuth" /\ cTimer' = Ticking
          /\ cQueue' = PushSendMessage(<<>>, 0, AuthRequest(0))
          /\ up' = Append(up, AuthRequest(0))
          /\ UNCHANGED <<cId, cPw, cPort, cIndexer, garbled, lib, ws>>
      BY <1>0, <1>4, <3>3, NewTimerRests DEF OnServerHello, fsClientVars
    <3>5. up' = <<AuthRequest(0)>>
      BY <1>5, <1>7, <3>4, SingleFacts
    <3>6. UNCHANGED <<sessions, serverUp>>
      BY <3>1 DEF serverVars
    <3>7. Calm'
      BY <1>0, <1>5, <3>4, <3>6, SendingKeepsCalm DEF IsCalm, IsHarmless, FitsDirectory
    <3>8. Indexed'
      BY <1>0, <3>4, IndexedStays
    <3>9. SessionAwaits("fsc_awaitClientAuth", Accepted)'
      BY <1>7, <3>4, <3>6 DEF SessionAwaits, Accepted, ServerHello
    <3>10. AuthRequest(0)' = AuthRequest(0)
      BY <3>4 DEF AuthRequest
    <3>. QED
      BY <1>0, <3>2, <3>4, <3>5, <3>6, <3>7, <3>8, <3>9, <3>10 DEF Authenticating
  <2>. QED
    BY <1>1, <1>2, <2>2, <2>3, <2>4, <2>5, <2>6, <2>7, FewActions
<1>. QED
  BY <1>6, <1>7 DEF Greeting

\* The consumer goes on to the next message: it asks or rests.
LEMMA ConsumerGoesOn ==
  ASSUME TypeOK, Calm, Indexed, cPort >= 1, cIndexer = "joined",
         UNCHANGED <<disk, dirs, cPort, cId, cIndexer, sessions, serverUp, garbled>>, down' = <<>>,
         NEW tm \in {NewTimer, Ticking},
         NEW channel \in Seq(UpMessage), NoRequests(channel), ListensTo(channel),
         NEW out \in Seq(UpMessage),
         \A msg \in UpMessage : up \o Append(out, msg) = Append(channel, msg),
         EnterSendingFS("consumer", tm, <<>>, out, cSeq)
  PROVE  Calm' /\ Talking'
<1>1. SendsSomething(out, cSeq)
  BY NextMessage
<1>2. Indexed'
  BY <1>1, SendingKeepsIndexed
<1>3. cSeq \in Nat /\ cId = 1 /\ TransferEnded \in UpMessage
  <2>1. cSeq \in Nat /\ cId \in ClientId /\ cPw \in Passwords /\ cPort \in Nat /\ 0 \in Nat
    BY ClientFacts
  <2>2. TransferEnded \in UpMessage
    BY <2>1, UpMessages
  <2>. QED
    BY <2>1, <2>2 DEF Calm
<1>4. Asks(channel, cSeq) \/ Rests(channel)
  BY <1>1, <1>3, NextAsksOrRests
<1>5. CASE Asks(channel, cSeq)
  BY <1>2, <1>3, <1>5, AskingTalks
<1>6. CASE Rests(channel)
  <2>1. cPort' = cPort
    OBVIOUS
  <2>. QED
    BY <1>2, <1>3, <1>6, <2>1, RestingTalks
<1>. QED
  BY <1>4, <1>5, <1>6

\* An empty working set with no current file is the empty one.
LEMMA EmptyIsEmpty ==
  ASSUME TypeOK, WorkingSetIsEmpty(ws, lib), ws.cur = NoFile
  PROVE  ws = EmptyWorkingSet /\ PendingFolders(lib) = {}
<1>1. ws \in WorkingSet
  BY DEF TypeOK, FilesTypeOK
<1>. QED
  BY <1>1 DEF WorkingSet, WorkingSetIsEmpty, EmptyWorkingSet

\* The client logs in: its acknowledgement is under way to a session that
\* waits for it.
LEMMA LoggingIn ==
  ASSUME TypeOK, Calm, Indexed, cPort >= 1, cIndexer = "joined", ws.cur = NoFile, up = <<>>,
         UNCHANGED <<disk, dirs, cPort, cId, cIndexer, sessions, serverUp, garbled>>, down' = <<>>,
         SessionAwaits("fsc_awaitServerAuthAck", AuthResult(0, cPort, TRUE)),
         EnterConnected("consumer", Ticking, <<>>, <<UpAck(0)>>, cSeq)
  PROVE  Calm' /\ Talking'
<1>. DEFINE channel == <<UpAck(0)>>
<1>0. cSeq \in Nat /\ cId \in ClientId /\ cPw \in Passwords /\ cPort \in Nat /\ 0 \in Nat /\ cId = 1
  BY ClientFacts DEF Calm
<1>1. /\ UpAck(0) \in UpMessage /\ UpAck(0).type = "Ack" /\ UpAck(0).seq = 0 /\ UpAck(0).to = 1
      /\ IsCalm(UpAck(0))
  BY <1>0, UpMessages DEF UpAck, IsCalm, IsHarmless, FitsDirectory
<1>2. /\ DOMAIN channel = {1} /\ channel[1] = UpAck(0) /\ channel \in Seq(UpMessage)
      /\ up \o channel = channel
      /\ \A msg \in UpMessage : up \o Append(channel, msg) = Append(channel, msg)
  BY <1>1
<1>. HIDE DEF channel
<1>3. NoRequests(channel) /\ ListensTo(channel)
  BY <1>1, <1>2 DEF NoRequests, ListensTo, SessionAwaits
<1>4. EnterConnected("consumer", Ticking, <<>>, channel, cSeq)
  BY DEF channel
<1>5. CASE ~WorkingSetIsEmpty(ws, lib)
  <2>1. EnterSendingFS("consumer", Ticking, <<>>, channel, cSeq)
    BY <1>4, <1>5, TickingTicks DEF EnterConnected
  <2>. QED
    BY <1>2, <1>3, <2>1, ConsumerGoesOn
<1>6. CASE WorkingSetIsEmpty(ws, lib)
  <2>1. /\ cState' = "connected" /\ cTimer' = Ticking /\ cQueue' = <<>> /\ up' = channel
        /\ UNCHANGED <<ws, lib>>
    BY <1>2, <1>4, <1>6, TickingTicks DEF EnterConnected
  <2>2. Rests(channel)
    BY <1>6, <2>1, EmptyIsEmpty DEF Rests, PendingFolders
  <2>3. Indexed'
    BY <2>1, IndexedStays
  <2>4. TransferEnded \in UpMessage
    BY <1>0, UpMessages
  <2>. QED
    BY <1>2, <1>3, <2>2, <2>3, <2>4, RestingTalks
<1>. QED
  BY <1>5, <1>6

\* The password is checked, and the client is logged in or gives up.
LEMMA AuthenticatingStep ==
  ASSUME FirstSync, TypeOK, Calm, Authenticating, Next
  PROVE  Calm' /\ (Authenticating \/ Talking \/ Gone)'
<1>0. /\ UNCHANGED <<disk, dirs>>
      /\ cPort >= 1 /\ cState = "clientAuth" /\ cTimer = Ticking /\ cIndexer = "joined"
      /\ cQueue = PushSendMessage(<<>>, 0, AuthRequest(0))
      /\ Indexed /\ ws.cur = NoFile /\ cId = 1 /\ serverUp
      /\ 1 \in ClientId /\ cPw \in Passwords /\ 0 \in Nat /\ cPort \in Nat /\ cId \in ClientId
  BY FewActions, ClientIds DEF Authenticating, Calm, TypeOK, ClientTypeOK
<1>1. ~Connects /\ ~Indexes /\ ~SaysHello /\ ~TimerEnds
  BY <1>0, TickingTicks DEF Connects, UserConnect, Indexes, IndexerEnds, SaysHello,
         SendClientHello, TimerEnds, TimerThreadEnds
<1>2. CASE Stops
  BY <1>0, <1>2, StopStep
<1>3. /\ AuthRequest(0) \in UpMessage /\ AuthRequest(0).type = "AuthRequest"
      /\ AuthRequest(0).to = 1 /\ AuthRequest(0).seq = 0 /\ AuthRequest(0).pw = cPw
  BY <1>0, UpMessages DEF AuthRequest
<1>4. \A ok \in BOOLEAN :
        /\ AuthResult(0, cPort, ok) \in DownMessage /\ AuthResult(0, cPort, ok).type = "AuthResult"
        /\ AuthResult(0, cPort, ok).dst = cPort /\ AuthResult(0, cPort, ok).seq = 0
        /\ AuthResult(0, cPort, ok).ok = ok
  BY <1>0, DownMessages DEF AuthResult
<1>5. /\ DOMAIN cQueue = {1} /\ cQueue[1].msg = AuthRequest(0) /\ cQueue[1].seq = 0
      /\ IsQueued(cQueue, 0) /\ OnSequenceNumberAck(cQueue, 0) = <<>>
  BY <1>0, OneEntry
<1>6. ASSUME UNCHANGED <<clientVars, fsClientVars>>
      PROVE  /\ UNCHANGED <<cId, cPw, cPort, cState, cTimer, cQueue, cIndexer, garbled, lib, ws>>
             /\ Indexed' /\ AuthRequest(0)' = AuthRequest(0)
             /\ cQueue' = PushSendMessage(<<>>, 0, AuthRequest(0)')
  <2>1. UNCHANGED <<cId, cPw, cPort, cState, cTimer, cQueue, cIndexer, garbled, lib, ws>>
    BY <1>6 DEF clientVars, fsClientVars
  <2>. QED
    BY <1>0, <2>1, IndexedStays DEF AuthRequest
<1>7. CASE /\ up = <<AuthRequest(0)>> /\ down = <<>>
           /\ SessionAwaits("fsc_awaitClientAuth", Accepted)
  <2>1. DOMAIN up = {1} /\ up[1] = AuthRequest(0) /\ DOMAIN down = {}
    BY <1>3, <1>7, SingleFacts
  <2>2. ~ClientTicks
    <3>1. EntryInTransit(cQueue[1])
      BY <1>5, <2>1 DEF EntryInTransit, SameMessage
    <3>. QED
      BY <1>5, <3>1 DEF ClientTicks, ClientTick, FirstSync
  <2>3. ~LoseUp /\ ~LoseDown /\ ~DeliverDown
    BY <1>3, <2>1 DEF LoseUp, LoseDown, DeliverDown, Deliverable, FirstSync
  <2>4. ~SessionTicks
    <3>1. SessionEntryInTransit(1, [seq |-> 0, msg |-> Accepted, sendCount |-> 1])
      BY <1>3, <2>1 DEF SessionEntryInTransit
    <3>. QED
      BY <1>7, <3>1, AwaitingRests
  <2>5. ~CleansUp
    <3>1. sessions[1] # NoSession /\ sessions[1].state = "fsc_awaitClientAuth"
      BY <1>7 DEF SessionAwaits
    <3>2. ~ClientIsSilent(1)
      BY <1>3, <2>1 DEF ClientIsSilent
    <3>. QED
      BY <3>1, <3>2, HeardStays
  <2>6. CASE DeliverUp
    <3>1. PICK i \in DOMAIN up : /\ up' = RemoveAt(up, i) /\ ServerReceive(up[i])
                                 /\ UNCHANGED <<clientVars, fsClientVars>>
      BY <2>6 DEF DeliverUp, Deliverable
    <3>2. up' = <<>> /\ up[i] = AuthRequest(0)
      BY <1>3, <1>7, <2>1, <3>1, SingleFacts
    <3>3. /\ sessions[1] # NoSession /\ sessions[1] \in SessionRecord /\ sessions[1].dst = cPort
          /\ sessions[1].queue = PushSendMessage(<<>>, 0, Accepted) /\ Active(1)
      BY <1>0, <1>7, ServerFacts DEF SessionAwaits, Calm, Active
    <3>. DEFINE ok == cPw = Password
                s == sessions[1]
    <3>4. OnAuthRequest(1, AuthRequest(0))
      BY <1>3, <3>1, <3>2, <3>3 DEF ServerReceive, SessionReceive
    <3>5. IsQueued(s.queue, 0) /\ OnSequenceNumberAck(s.queue, 0) = <<>>
      BY <3>3, OneEntry
    <3>6. /\ down' = Append(down, AuthResult(0, cPort, ok))
          /\ sessions' = [sessions EXCEPT ![1] =
               IF ok THEN [s EXCEPT !.state = "fsc_awaitServerAuthAck",
                                    !.queue = PushSendMessage(<<>>, 0, AuthResult(0, cPort, ok))]
               ELSE [s EXCEPT !.state = "fsc_error", !.queue = <<>>]]
          /\ serverUp' = serverUp
      BY <1>3, <3>3, <3>4, <3>5 DEF OnAuthRequest
    <3>7. ok \in BOOLEAN
      OBVIOUS
    <3>8. down' = <<AuthResult(0, cPort, ok)>>
      BY <1>4, <1>7, <3>6, <3>7, SingleFacts
    <3>9. sessions' \in [ClientId -> SessionRecord \cup {NoSession}]
      BY NextType DEF TypeOK, ServerTypeOK
    <3>10. sessions'[1] = IF ok THEN [s EXCEPT !.state = "fsc_awaitServerAuthAck",
                                        !.queue = PushSendMessage(<<>>, 0, AuthResult(0, cPort, ok))]
                          ELSE [s EXCEPT !.state = "fsc_error", !.queue = <<>>]
      BY <1>0, <3>6, ServerFacts
    <3>. HIDE DEF ok
    <3>11. IF ok THEN /\ sessions'[1].state = "fsc_awaitServerAuthAck"
                      /\ sessions'[1].queue = PushSendMessage(<<>>, 0, AuthResult(0, cPort, ok))
           ELSE sessions'[1].state = "fsc_error"
      BY <3>3, <3>10 DEF SessionRecord
    <3>12. sessions'[1] # NoSession
      <4>1. sessions[1] # NoSession /\ sessions'[1] \in SessionRecord \cup {NoSession}
        BY <1>0, <3>3, <3>9
      <4>2. ASSUME NEW t, t = IF ok THEN [s EXCEPT !.state = "fsc_awaitServerAuthAck",
                                        !.queue = PushSendMessage(<<>>, 0, AuthResult(0, cPort, ok))]
                          ELSE [s EXCEPT !.state = "fsc_error", !.queue = <<>>]
            PROVE  t \in SessionRecord
        <5>1. PushSendMessage(<<>>, 0, AuthResult(0, cPort, ok)) \in Seq(Entry(DownMessage))
          <6>. DEFINE msg == AuthResult(0, cPort, ok)
          <6>1. msg \in DownMessage /\ <<>> \in Seq(Entry(DownMessage))
            BY <1>4, <3>7
          <6>. HIDE DEF msg
          <6>2. PushSendMessage(<<>>, 0, msg) \in Seq(Entry(DownMessage))
            BY <1>0, <6>1, PushType
          <6>. QED
            BY <6>2 DEF msg
        <5>2. <<>> \in Seq(Entry(DownMessage))
          OBVIOUS
        <5>. HIDE DEF s
        <5>3. s \in SessionRecord
          BY <3>3 DEF s
        <5>4. CASE ok
          <6>1. t = [s EXCEPT !.state = "fsc_awaitServerAuthAck",
                              !.queue = PushSendMessage(<<>>, 0, AuthResult(0, cPort, ok))]
            BY <4>2, <5>4
          <6>. QED
            BY <5>1, <5>3, <6>1 DEF SessionRecord, SessionStates
        <5>5. CASE ~ok
          <6>1. t = [s EXCEPT !.state = "fsc_error", !.queue = <<>>]
            BY <4>2, <5>5
          <6>. QED
            BY <5>2, <5>3, <6>1 DEF SessionRecord, SessionStates
        <5>. QED
          BY <5>4, <5>5
      <4>3. sessions'[1] \in SessionRecord
        BY <3>10, <4>2
      <4>. QED
        BY <4>3, NoSessionAssumption
    <3>13. \/ ok = TRUE /\ SessionAwaits("fsc_awaitServerAuthAck", AuthResult(0, cPort, TRUE))'
           \/ ok = FALSE /\ (~Active(1))'
      BY <1>6, <3>1, <3>7, <3>11, <3>12 DEF SessionAwaits, AuthResult, Active
    <3>14. Calm'
      BY <1>0, <2>6, ServerKeepsCalm
    <3>15. AuthResult(0, cPort, ok)' = AuthResult(0, cPort, ok)
      BY <1>6, <3>1 DEF AuthResult, ok
    <3>16. Authenticating'
      <4>1. \E b \in BOOLEAN : /\ down' = <<AuthResult(0, cPort, b)>>
                               /\ IF b THEN SessionAwaits("fsc_awaitServerAuthAck", AuthResult(0, cPort, TRUE))'
                                  ELSE (~Active(1))'
        BY <3>7, <3>8, <3>13
      <4>. QED
        BY <1>0, <1>6, <3>1, <3>2, <3>6, <4>1 DEF Authenticating, AuthResult
    <3>. QED
      BY <3>14, <3>16
  <2>. QED
    BY <1>1, <1>2, <2>2, <2>3, <2>4, <2>5, <2>6, FewActions
<1>8. ASSUME NEW ok \in BOOLEAN, up = <<>>, down = <<AuthResult(0, cPort, ok)>>,
             IF ok THEN SessionAwaits("fsc_awaitServerAuthAck", AuthResult(0, cPort, TRUE))
             ELSE ~Active(1)
      PROVE  Calm' /\ (Authenticating \/ Talking \/ Gone)'
  <2>1. DOMAIN down = {1} /\ down[1] = AuthResult(0, cPort, ok) /\ DOMAIN up = {}
    BY <1>4, <1>8, SingleFacts
  <2>2. ~ClientTicks
    <3>1. EntryInTransit(cQueue[1])
      BY <1>0, <1>4, <1>5, <2>1 DEF EntryInTransit
    <3>. QED
      BY <1>5, <3>1 DEF ClientTicks, ClientTick, FirstSync
  <2>3. ~LoseUp /\ ~LoseDown /\ ~DeliverUp
    BY <1>4, <2>1 DEF LoseUp, LoseDown, DeliverUp, Deliverable, FirstSync
  <2>4. ~SessionTicks
    <3>1. CASE ok
      <4>1. SessionEntryInTransit(1, [seq |-> 0, msg |-> AuthResult(0, cPort, TRUE), sendCount |-> 1])
        BY <2>1, <3>1 DEF SessionEntryInTransit
      <4>. QED
        BY <1>8, <3>1, <4>1, AwaitingRests
    <3>2. CASE ~ok
      BY <1>8, <3>2 DEF SessionTicks, SessionTick, Active, Calm
    <3>. QED
      BY <3>1, <3>2
  <2>5. CASE CleansUp
    <3>1. ~ok
      <4>1. SUFFICES ASSUME ok PROVE FALSE
        OBVIOUS
      <4>2. /\ sessions[1] # NoSession /\ sessions[1].state = "fsc_awaitServerAuthAck"
            /\ sessions[1].dst = cPort
        BY <1>0, <1>8, <4>1 DEF SessionAwaits, Calm
      <4>3. ~ClientIsSilent(1)
        BY <1>4, <2>1, <4>2 DEF ClientIsSilent
      <4>. QED
        BY <2>5, <4>2, <4>3, HeardStays
    <3>2. PICK id \in ClientId : Cleanup(id) /\ ServerThreads
      BY <2>5 DEF CleansUp
    <3>3. /\ sessions' = [sessions EXCEPT ![id] = NoSession] /\ serverUp' = serverUp
          /\ down' = down /\ up' = up
      BY <3>2 DEF Cleanup, ServerThreads
    <3>4. (~Active(1))'
      BY <1>0, <1>8, <3>1, <3>3, ServerFacts DEF Active
    <3>5. Calm'
      BY <1>0, <2>5, ServerKeepsCalm
    <3>6. UNCHANGED <<clientVars, fsClientVars>>
      BY <3>2 DEF ServerThreads
    <3>. QED
      BY <1>0, <1>6, <1>8, <3>1, <3>3, <3>4, <3>5, <3>6 DEF Authenticating, AuthResult
  <2>6. CASE DeliverDown
    <3>1. PICK i \in DOMAIN down : /\ down' = RemoveAt(down, i) /\ ClientReceive(down[i])
                                   /\ UNCHANGED serverVars
      BY <2>6 DEF DeliverDown, Deliverable
    <3>2. down' = <<>> /\ down[i] = AuthResult(0, cPort, ok)
      BY <1>4, <1>8, <2>1, <3>1, SingleFacts
    <3>3. OnAuthResult(AuthResult(0, cPort, ok))
      BY <1>0, <1>4, <3>1, <3>2 DEF ClientReceive
    <3>4. /\ IF ok THEN EnterConnected("consumer", Ticking, <<>>, <<UpAck(0)>>, cSeq)
             ELSE EnterDisconnected("consumer") /\ up' = Append(up, UpAck(0))
          /\ UNCHANGED <<cPort, cId, cIndexer, garbled>>
      BY <1>0, <1>4, <1>5, <3>3 DEF OnAuthResult
    <3>5. UNCHANGED <<sessions, serverUp>>
      BY <3>1 DEF serverVars
    <3>6. CASE ok
      <4>1. /\ SessionAwaits("fsc_awaitServerAuthAck", AuthResult(0, cPort, TRUE))
            /\ EnterConnected("consumer", Ticking, <<>>, <<UpAck(0)>>, cSeq)
        BY <1>8, <3>4, <3>6
      <4>. QED
        BY <1>0, <1>8, <3>2, <3>4, <3>5, <4>1, LoggingIn
    <3>7. CASE ~ok
      <4>1. cState' = "disconnected" /\ cQueue' = <<>> /\ up' = Append(up, UpAck(0))
        BY <3>4, <3>7 DEF EnterDisconnected
      <4>2. UpAck(0) \in UpMessage /\ UpAck(0).type = "Ack" /\ IsCalm(UpAck(0))
        BY <1>0, UpMessages DEF UpAck, IsCalm, IsHarmless, FitsDirectory
      <4>3. Calm'
        BY <1>0, <3>4, <3>5, <4>1, <4>2, SendingKeepsCalm
      <4>. QED
        BY <1>0, <3>4, <4>1, <4>3 DEF Gone
    <3>. QED
      BY <3>6, <3>7
  <2>. QED
    BY <1>1, <1>2, <2>2, <2>3, <2>4, <2>5, <2>6, FewActions
<1>. QED
  BY <1>7, <1>8 DEF Authenticating

-----------------------------------------------------------------------------
(* The client and its session talk.                                        *)

\* The two sides while they talk.
LEMMA TalkingFacts ==
  ASSUME TypeOK, Calm, Talking
  PROVE  /\ cPort >= 1 /\ cId = 1 /\ 1 \in ClientId
         /\ sessions[1] # NoSession /\ sessions[1].state # "fsc_error" /\ sessions[1].dst = cPort
         /\ ~sessions[1].todo /\ (serverUp => Active(1))
         /\ cState \in {"connected", "ping", "reqestedFileStatus", "awaitingAck"}
         /\ cTimer \in {NewTimer, Ticking}
         /\ up \in Seq(UpMessage) /\ down \in Seq(DownMessage) /\ cQueue \in Seq(Entry(UpMessage))
         /\ \A i \in DOMAIN up : /\ up[i] \in UpMessage /\ up[i].to = 1 /\ up[i].type # "ClientHello"
                                 /\ IsCalm(up[i])
<1>1. cPort >= 1 /\ cId = 1 /\ 1 \in ClientId
  BY ClientIds DEF Talking, Calm
<1>2. sessions[1] # NoSession /\ sessions[1].state # "fsc_error"
  BY DEF Talking, ListensTo, SessionAwaits
<1>3. sessions[1].dst = cPort /\ ~sessions[1].todo /\ (serverUp => Active(1))
  BY <1>1, <1>2 DEF Calm, Active
<1>4. cState \in {"connected", "ping", "reqestedFileStatus", "awaitingAck"}
  BY DEF Talking, OnlyPings, OneStatus, OneFileMessage
<1>5. cTimer \in {NewTimer, Ticking}
  BY DEF Talking, OnlyPings, OneStatus, OneFileMessage
<1>6. up \in Seq(UpMessage) /\ down \in Seq(DownMessage) /\ cQueue \in Seq(Entry(UpMessage))
  BY DEF TypeOK, NetTypeOK, ClientTypeOK
<1>7. ASSUME NEW i \in DOMAIN up
      PROVE  up[i] \in UpMessage /\ up[i].to = 1 /\ up[i].type # "ClientHello" /\ IsCalm(up[i])
  <2>1. up[i] \in UpMessage
    BY <1>6, ElementOfSeq, LenProperties
  <2>2. IsCalm(up[i]) /\ up[i].type # "ClientHello"
    BY DEF Calm, Talking, OneUnderWay, RequestTypes
  <2>. QED
    BY <2>1, <2>2 DEF IsCalm, IsHarmless
<1>. QED
  BY <1>1, <1>2, <1>3, <1>4, <1>5, <1>6, <1>7

\* The acknowledgement of the client is no request.
LEMMA TypesDiffer ==
  ASSUME NEW i \in Requests
  PROVE  i \in DOMAIN up /\ up[i].type \in RequestTypes /\ up[i].type \notin {"Ack", "TransferEnded"}
BY DEF Requests, RequestTypes

\* What is filed fits the directory as long as it stays as it is.
LEMMA FiledStays ==
  ASSUME WellFiled, UNCHANGED <<disk, dirs, cQueue, cSeq, garbled>>
  PROVE  WellFiled'
BY DEF WellFiled, IsHarmless

\* Only a datagram to the server is gone, no answer the client waits for.
LEMMA LeftTalks ==
  ASSUME TypeOK, Calm, Talking, UNCHANGED <<disk, dirs>>,
         UNCHANGED <<cPort, cState, cTimer, cQueue, cSeq, cIndexer, garbled, lib, ws>>,
         NEW i \in DOMAIN up, up' = RemoveAt(up, i), down' = down, handled \subseteq handled',
         ListensTo(up)', serverUp' => serverUp,
         OneStatus /\ serverUp => i \notin Requests
  PROVE  Talking'
<1>0. up \in Seq(UpMessage)
  BY DEF TypeOK, NetTypeOK
<1>1. /\ up' \in Seq(UpMessage)
      /\ \A j \in DOMAIN up' : Source(i, j) \in DOMAIN up \ {i} /\ up'[j] = up[Source(i, j)]
      /\ \A k \in DOMAIN up : k # i => \E j \in DOMAIN up' : up'[j] = up[k]
  BY <1>0, RemoveAtPlaces
<1>2. OneUnderWay
  BY DEF Talking
<1>3. OneUnderWay'
  <2>1. (\A j \in DOMAIN up : /\ up[j].type \in RequestTypes \cup {"Ack", "TransferEnded"}
                              /\ up[j].type = "Ack" => up[j].seq = 0)'
    BY <1>1, <1>2 DEF OneUnderWay
  <2>2. ASSUME NEW j \in Requests', NEW k \in Requests' PROVE j = k
    <3>1. j \in DOMAIN up' /\ k \in DOMAIN up'
      BY <2>2 DEF Requests
    <3>2. Source(i, j) \in Requests /\ Source(i, k) \in Requests
      BY <1>1, <2>2, <3>1 DEF Requests
    <3>3. Source(i, j) = Source(i, k)
      BY <1>2, <3>2 DEF OneUnderWay
    <3>4. i \in Nat /\ j \in Nat /\ k \in Nat
      <4>1. \A s \in Seq(UpMessage) : \A p \in DOMAIN s : p \in Nat
        BY LenProperties
      <4>. QED
        BY <1>0, <1>1, <3>1, <4>1
    <3>. QED
      BY <3>3, <3>4, SourcesDiffer
  <2>3. ASSUME NEW j \in Requests'
        PROVE  (down = <<>> /\ \E k \in DOMAIN cQueue : StandsFor(up[j], cQueue[k].msg))'
    <3>1. j \in DOMAIN up'
      BY <2>3 DEF Requests
    <3>2. Source(i, j) \in Requests
      BY <1>1, <2>3, <3>1 DEF Requests
    <3>. QED
      BY <1>1, <1>2, <3>1, <3>2 DEF OneUnderWay, StandsFor, SameMessage
  <2>4. \/ down = <<>>
        \/ /\ Len(down) = 1 /\ down[1].dst = cPort
           /\ down[1].type = IF cState = "reqestedFileStatus" THEN "FileStatus" ELSE "Ack"
           /\ \E k \in DOMAIN cQueue : cQueue[k].seq = down[1].seq /\ TakenUp(cQueue[k].msg)
    BY <1>2 DEF OneUnderWay
  <2>5. (\/ down = <<>>
         \/ /\ Len(down) = 1 /\ down[1].dst = cPort
            /\ down[1].type = IF cState = "reqestedFileStatus" THEN "FileStatus" ELSE "Ack"
            /\ \E k \in DOMAIN cQueue : cQueue[k].seq = down[1].seq /\ TakenUp(cQueue[k].msg))'
    BY <2>4 DEF TakenUp, SameMessage
  <2>. QED
    BY <2>1, <2>2, <2>3, <2>5 DEF OneUnderWay
<1>4. WellFiled' /\ Indexed' /\ cPort' = cPort
  BY IndexedStays, FiledStays DEF Talking
<1>5. OneStatus => OneStatus'
  <2>1. SUFFICES ASSUME OneStatus, serverUp PROVE Requests' # {} \/ down' # <<>>
    BY DEF OneStatus
  <2>2. CASE Requests # {}
    <3>1. PICK k \in Requests : TRUE
      BY <2>2
    <3>2. k # i /\ k \in DOMAIN up /\ up[k].type \in RequestTypes
      BY <2>1, <3>1 DEF Requests
    <3>3. PICK j \in DOMAIN up' : up'[j] = up[k]
      BY <1>1, <3>2
    <3>4. j \in Requests'
      BY <3>2, <3>3 DEF Requests
    <3>. QED
      BY <3>4
  <2>3. CASE down # <<>>
    BY <2>3
  <2>. QED
    BY <2>1, <2>2, <2>3 DEF OneStatus
<1>6. (OnlyPings => OnlyPings') /\ (OneFileMessage => OneFileMessage')
  BY DEF OnlyPings, OneFileMessage, PendingFolders
<1>. QED
  BY <1>3, <1>4, <1>5, <1>6 DEF Talking

\* The session listens on when what is gone is not the acknowledgement.
LEMMA ListensOn ==
  ASSUME TypeOK, ListensTo(up), NEW i \in DOMAIN up, up[i].type # "Ack", up' = RemoveAt(up, i),
         SameSession, cPort' = cPort, serverUp' => serverUp
  PROVE  ListensTo(up)'
<1>1. \A k \in DOMAIN up : k # i => \E j \in DOMAIN up' : up'[j] = up[k]
  BY RemoveAtPlaces DEF TypeOK, NetTypeOK
<1>2. (\E k \in DOMAIN up : up[k].type = "Ack") => \E j \in DOMAIN up' : up'[j].type = "Ack"
  BY <1>1
<1>. QED
  BY <1>2 DEF ListensTo, SessionAwaits, SameSession, AuthResult

\* A session that nobody touches is the same.
LEMMA UntouchedSession ==
  ASSUME sessions' = sessions, sessions[1] # NoSession
  PROVE  SameSession
BY DEF SameSession

\* The network loses a datagram to the server.
LEMMA LoseUpTalks ==
  ASSUME FirstSync, TypeOK, Calm, Talking, UNCHANGED <<disk, dirs>>,
         LoseUp, UNCHANGED <<clientVars, fsClientVars, serverVars>>
  PROVE  Calm' /\ Talking'
<1>1. PICK i \in DOMAIN up : up[i].type \in LossyUp /\ up' = RemoveAt(up, i)
  BY DEF LoseUp
<1>2. /\ UNCHANGED <<cId, cPort, cState, cTimer, cQueue, cSeq, cIndexer, garbled, lib, ws>>
      /\ UNCHANGED <<sessions, serverUp, handled, down>>
  BY DEF LoseUp, clientVars, fsClientVars, serverVars
<1>3. up[i].type \in {"FileCreation", "FileTransfer", "Ping", "TransferEnded"}
  BY <1>1, TalkingFacts DEF FirstSync
<1>4. ListensTo(up)'
  BY <1>1, <1>2, <1>3, TalkingFacts, UntouchedSession, ListensOn DEF Talking
<1>5. OneStatus => i \notin Requests
  <2>1. SUFFICES ASSUME OneStatus, i \in Requests PROVE FALSE
    OBVIOUS
  <2>2. PICK k \in DOMAIN cQueue : cQueue[k].msg.type = up[i].type
    BY <2>1 DEF Talking, OneUnderWay, StandsFor, SameMessage
  <2>3. k = 1
    BY <2>1, <2>2, TalkingFacts, LenProperties DEF OneStatus
  <2>. QED
    BY <1>3, <2>1, <2>2, <2>3 DEF OneStatus
<1>6. Talking'
  BY <1>1, <1>2, <1>4, <1>5, LeftTalks
<1>7. Calm'
  BY <1>1, <1>2, OthersKeepCalm
<1>. QED
  BY <1>6, <1>7

\* The network loses an acknowledgement to the client.
LEMMA LoseDownTalks ==
  ASSUME FirstSync, TypeOK, Calm, Talking, UNCHANGED <<disk, dirs>>,
         LoseDown, UNCHANGED <<clientVars, fsClientVars, serverVars>>
  PROVE  Calm' /\ Talking'
<1>1. PICK i \in DOMAIN down : down[i].type \in LossyDown /\ down' = RemoveAt(down, i)
  BY DEF LoseDown
<1>2. /\ UNCHANGED <<cId, cPort, cState, cTimer, cQueue, cSeq, cIndexer, garbled, lib, ws>>
      /\ UNCHANGED <<sessions, serverUp, up>>
  BY DEF LoseDown, clientVars, fsClientVars, serverVars
<1>3. Len(down) = 1
  BY <1>1 DEF Talking, OneUnderWay
<1>4. i = 1 /\ down' = <<>>
  BY <1>1, <1>3, TalkingFacts, OneIsTaken
<1>5. ~OneStatus
  <2>0. down # <<>>
    BY <1>3
  <2>1. OneStatus => down[1].type = "FileStatus"
    BY <2>0 DEF Talking, OneUnderWay, OneStatus
  <2>2. down[1].type # "FileStatus"
    BY <1>1, <1>4 DEF FirstSync
  <2>. QED
    BY <2>1, <2>2
<1>6. OneUnderWay'
  BY <1>2, <1>4 DEF Talking, OneUnderWay, Requests, StandsFor, SameMessage
<1>7. Indexed' /\ WellFiled' /\ ListensTo(up)'
  BY <1>2, IndexedStays, FiledStays DEF Talking, ListensTo, SessionAwaits, AuthResult
<1>8. (OnlyPings => OnlyPings') /\ (OneFileMessage => OneFileMessage')
  BY <1>2 DEF OnlyPings, OneFileMessage, PendingFolders
<1>9. Calm'
  BY <1>2, OthersKeepCalm
<1>. QED
  BY <1>2, <1>5, <1>6, <1>7, <1>8, <1>9 DEF Talking

\* The server acts on a request and answers it.
LEMMA RequestTalks ==
  ASSUME FirstSync, TypeOK, Calm, Talking, serverUp, UNCHANGED <<disk, dirs>>,
         UNCHANGED <<clientVars, fsClientVars>>,
         NEW i \in Requests, up' = RemoveAt(up, i), ServerReceive(up[i])
  PROVE  Talking'
<1>. DEFINE m == up[i]
<1>1. i \in DOMAIN up /\ m.type \in RequestTypes /\ m \in UpMessage /\ IsCalm(m)
      /\ m.type # "ClientHello" /\ m.type \notin {"Ack", "TransferEnded"}
  BY TalkingFacts, TypesDiffer
<1>2. UNCHANGED <<cPort, cState, cTimer, cQueue, cSeq, cIndexer, garbled, lib, ws>>
  BY DEF clientVars, fsClientVars
<1>3. SessionReceive(m)
  BY <1>1 DEF ServerReceive
<1>4. /\ SameSession /\ handled' = handled \cup {m}
      /\ \E a \in DownMessage :
           down' = Append(down, a) /\ a.dst = cPort /\ a.seq = m.seq /\ a.type = AnswerType(m)
  BY <1>1, <1>3, TalkingFacts, RequestIsAnswered
<1>5. PICK a \in DownMessage :
        down' = Append(down, a) /\ a.dst = cPort /\ a.seq = m.seq /\ a.type = AnswerType(m)
  BY <1>4
<1>6. down = <<>> /\ OneUnderWay
  BY DEF Talking, OneUnderWay
<1>7. PICK k \in DOMAIN cQueue : StandsFor(m, cQueue[k].msg)
  BY DEF Talking, OneUnderWay
<1>8. Len(down') = 1 /\ down'[1] = a /\ down' # <<>>
  <2>1. down' = <<a>>
    BY <1>5, <1>6, SingleFacts
  <2>. QED
    BY <2>1
<1>9. cQueue[k].seq = a.seq /\ cQueue[k].msg.type = m.type /\ TakenUp(cQueue[k].msg)'
  <2>1. SameMessage(m, cQueue[k].msg) /\ (garbled = 0 => m = cQueue[k].msg)
    BY <1>7 DEF StandsFor
  <2>2. cQueue[k].seq = cQueue[k].msg.seq
    BY DEF Talking, WellFiled
  <2>3. m \in handled' /\ cQueue' = cQueue /\ garbled' = garbled
    BY <1>2, <1>4
  <2>. QED
    BY <1>5, <2>1, <2>2, <2>3 DEF TakenUp, SameMessage
<1>10. a.type = IF cState = "reqestedFileStatus" THEN "FileStatus" ELSE "Ack"
  <2>1. CASE OnlyPings
    BY <1>5, <1>9, <2>1 DEF OnlyPings, AnswerType
  <2>2. CASE OneStatus
    <3>1. k = 1
      BY <1>7, <2>2, TalkingFacts, LenProperties DEF OneStatus
    <3>. QED
      BY <1>5, <1>9, <2>2, <3>1 DEF OneStatus, AnswerType
  <2>3. CASE OneFileMessage
    <3>1. k = 1
      BY <1>7, <2>3, TalkingFacts, LenProperties DEF OneFileMessage
    <3>. QED
      BY <1>5, <1>9, <2>3, <3>1 DEF OneFileMessage, AnswerType
  <2>. QED
    BY <2>1, <2>2, <2>3 DEF Talking
<1>. HIDE DEF m
<1>11. up \in Seq(UpMessage)
  BY TalkingFacts
<1>12. \A j \in DOMAIN up' : Source(i, j) \in DOMAIN up \ {i} /\ up'[j] = up[Source(i, j)]
  BY <1>1, <1>11, RemoveAtPlaces
<1>13. Requests' = {}
  <2>1. ASSUME NEW j \in Requests' PROVE FALSE
    <3>1. j \in DOMAIN up' /\ up'[j].type \in RequestTypes
      BY <2>1 DEF Requests
    <3>2. Source(i, j) \in Requests /\ Source(i, j) # i
      BY <1>12, <3>1 DEF Requests
    <3>. QED
      BY <1>6, <3>2 DEF OneUnderWay
  <2>. QED
    BY <2>1
<1>14. OneUnderWay'
  <2>1. (\A j \in DOMAIN up : /\ up[j].type \in RequestTypes \cup {"Ack", "TransferEnded"}
                              /\ up[j].type = "Ack" => up[j].seq = 0)'
    BY <1>6, <1>12 DEF OneUnderWay
  <2>2. (\E n \in DOMAIN cQueue : cQueue[n].seq = down[1].seq /\ TakenUp(cQueue[n].msg))'
    BY <1>2, <1>7, <1>8, <1>9
  <2>3. /\ Len(down') = 1 /\ down'[1].dst = cPort
        /\ down'[1].type = IF cState' = "reqestedFileStatus" THEN "FileStatus" ELSE "Ack"
    BY <1>2, <1>5, <1>8, <1>10
  <2>. QED
    BY <1>2, <1>13, <2>1, <2>2, <2>3 DEF OneUnderWay
<1>15. ListensTo(up)'
  BY <1>1, <1>2, <1>4, ListensOn DEF Talking, m
<1>16. Indexed' /\ WellFiled'
  BY <1>2, IndexedStays, FiledStays DEF Talking
<1>17. (OnlyPings \/ OneStatus \/ OneFileMessage)'
  BY <1>2, <1>8 DEF Talking, OnlyPings, OneStatus, OneFileMessage, PendingFolders
<1>. QED
  BY <1>2, <1>14, <1>15, <1>16, <1>17 DEF Talking

\* The session is told that the client has its answer, or that it is done.
LEMMA NoticeTalks ==
  ASSUME FirstSync, TypeOK, Calm, Talking, UNCHANGED <<disk, dirs>>,
         UNCHANGED <<clientVars, fsClientVars>>,
         NEW i \in DOMAIN up, up[i].type \in {"Ack", "TransferEnded"},
         up' = RemoveAt(up, i), ServerReceive(up[i])
  PROVE  Talking'
<1>. DEFINE m == up[i]
            s == sessions[1]
<1>1. UNCHANGED <<cPort, cState, cTimer, cQueue, cSeq, cIndexer, garbled, lib, ws>>
  BY DEF clientVars, fsClientVars
<1>2. /\ m.to = 1 /\ (serverUp => Active(1)) /\ SessionReceive(m) /\ 1 \in ClientId /\ s # NoSession
      /\ m.type = "Ack" => m.seq = 0
  BY TalkingFacts DEF ServerReceive, Talking, OneUnderWay
<1>3. i \notin Requests
  BY TypesDiffer
<1>4. down' = down /\ handled \subseteq handled' /\ ListensTo(up)' /\ (serverUp' => serverUp)
  <2>1. CASE serverUp /\ m.type = "TransferEnded"
    <3>1. UNCHANGED <<serverVars, down>>
      BY <1>2, <2>1 DEF SessionReceive, OnTransferEnded
    <3>2. UNCHANGED <<sessions, serverUp, handled, down>>
      BY <3>1 DEF serverVars
    <3>3. SameSession
      BY <1>2, <3>2, UntouchedSession
    <3>. QED
      BY <1>1, <2>1, <3>2, <3>3, ListensOn DEF Talking
  <2>2. CASE serverUp /\ m.type = "Ack"
    <3>1. OnClientAck(1, m)
      BY <1>2, <2>2 DEF SessionReceive
    <3>2. CASE SessionAwaits("fsc_awaitServerAuthAck", AuthResult(0, cPort, TRUE))
      <4>0. s.queue = PushSendMessage(<<>>, 0, AuthResult(0, cPort, TRUE))
        BY <3>2 DEF SessionAwaits
      <4>1. IsQueued(s.queue, 0) /\ OnSequenceNumberAck(s.queue, 0) = <<>>
        <5>1. \A q : q = PushSendMessage(<<>>, 0, AuthResult(0, cPort, TRUE))
                       => IsQueued(q, 0) /\ OnSequenceNumberAck(q, 0) = <<>>
          BY OneEntry
        <5>. QED
          BY <4>0, <5>1
      <4>2. /\ sessions' = [sessions EXCEPT ![1] =
                 [s EXCEPT !.queue = <<>>, !.state = "fsc_connected"]]
            /\ UNCHANGED <<serverUp, handled, down>>
        BY <1>2, <2>2, <3>1, <3>2, <4>1 DEF OnClientAck, SessionAwaits
      <4>3. s \in SessionRecord
        BY <1>2, ServerFacts
      <4>. DEFINE t == [s EXCEPT !.queue = <<>>, !.state = "fsc_connected"]
      <4>4. t \in SessionRecord /\ t.state = "fsc_connected" /\ t.queue = <<>>
        <5>1. <<>> \in Seq(Entry(DownMessage))
          OBVIOUS
        <5>. QED
          BY <4>3, <5>1 DEF SessionRecord, SessionStates
      <4>5. sessions'[1] = t
        BY <1>2, <4>2, ServerFacts
      <4>. HIDE DEF t
      <4>6. sessions'[1] # NoSession
        BY <4>4, <4>5, NoSessionAssumption
      <4>. QED
        BY <4>2, <4>4, <4>5, <4>6 DEF ListensTo
    <3>3. CASE s.state \in {"fsc_connected", "fsc_ping"} /\ s.queue = <<>>
      <4>1. ~IsQueued(s.queue, m.seq)
        BY <3>3 DEF IsQueued
      <4>2. UNCHANGED <<sessions, serverUp, handled, down>>
        BY <3>1, <4>1 DEF OnClientAck, serverVars
      <4>. QED
        BY <1>2, <3>3, <4>2 DEF ListensTo
    <3>. QED
      BY <3>2, <3>3 DEF Talking, ListensTo
  <2>3. CASE ~serverUp
    <3>1. UNCHANGED <<serverVars, down>>
      BY <1>2, <2>3 DEF SessionReceive, Active
    <3>2. UNCHANGED <<sessions, serverUp, handled, down>>
      BY <3>1 DEF serverVars
    <3>. QED
      BY <1>1, <2>3, <3>2 DEF Talking, ListensTo, SessionAwaits, AuthResult
  <2>. QED
    BY <2>1, <2>2, <2>3
<1>. QED
  BY <1>1, <1>3, <1>4, LeftTalks

\* The server gets a datagram.
LEMMA DeliverUpTalks ==
  ASSUME FirstSync, TypeOK, Calm, Talking, UNCHANGED <<disk, dirs>>, DeliverUp
  PROVE  Calm' /\ Talking'
<1>1. PICK i \in DOMAIN up : /\ up' = RemoveAt(up, i) /\ ServerReceive(up[i])
                             /\ UNCHANGED <<clientVars, fsClientVars>>
  BY DEF DeliverUp, Deliverable
<1>2. Calm'
  BY ServerKeepsCalm, TalkingFacts
<1>3. CASE up[i].type \in {"Ack", "TransferEnded"}
  BY <1>1, <1>2, <1>3, NoticeTalks
<1>4. CASE i \in Requests /\ serverUp
  BY <1>1, <1>2, <1>4, RequestTalks
<1>5. CASE i \in Requests /\ ~serverUp
  <2>1. SessionReceive(up[i])
    BY <1>1, TalkingFacts DEF ServerReceive
  <2>2. UNCHANGED <<sessions, serverUp, handled, down>>
    BY <1>5, <2>1 DEF SessionReceive, Active, serverVars
  <2>3. UNCHANGED <<cPort, cState, cTimer, cQueue, cSeq, cIndexer, garbled, lib, ws>>
    BY <1>1 DEF clientVars, fsClientVars
  <2>4. ListensTo(up)'
    BY <1>5, <2>2, <2>3 DEF Talking, ListensTo, SessionAwaits, AuthResult
  <2>. QED
    BY <1>1, <1>2, <1>5, <2>2, <2>3, <2>4, LeftTalks
<1>. QED
  BY <1>3, <1>4, <1>5 DEF Talking, OneUnderWay, Requests

\* The acknowledgement a session waits for is under way: it is only idle.
LEMMA SessionIsIdle ==
  ASSUME FirstSync, TypeOK, Calm, Talking, SessionTicks
  PROVE  /\ serverUp /\ sessions[1].state \in {"fsc_connected", "fsc_ping"} /\ sessions[1].queue = <<>>
         /\ sessions' = [sessions EXCEPT ![1].state = "fsc_ping"]
         /\ UNCHANGED <<clientVars, fsClientVars, up, down, serverUp, handled>>
<1>1. PICK id \in ClientId : SessionTick(id) /\ ServerThreads
  BY DEF SessionTicks
<1>2. id = 1 /\ serverUp
  BY <1>1 DEF SessionTick, Active, Calm
<1>3. ~SessionAwaits("fsc_awaitServerAuthAck", AuthResult(0, cPort, TRUE))
  <2>1. SUFFICES ASSUME SessionAwaits("fsc_awaitServerAuthAck", AuthResult(0, cPort, TRUE)) PROVE FALSE
    OBVIOUS
  <2>2. PICK i \in DOMAIN up : up[i].type = "Ack"
    BY <1>2, <2>1 DEF Talking, ListensTo, SessionAwaits
  <2>3. up[i].seq = 0 /\ up[i].to = 1
    BY <2>2, TalkingFacts DEF Talking, OneUnderWay
  <2>4. SessionEntryInTransit(1, [seq |-> 0, msg |-> AuthResult(0, cPort, TRUE), sendCount |-> 1])
    BY <2>2, <2>3 DEF SessionEntryInTransit
  <2>. QED
    BY <2>1, <2>4, AwaitingRests
<1>4. sessions[1].state \in {"fsc_connected", "fsc_ping"} /\ sessions[1].queue = <<>>
  BY <1>3 DEF Talking, ListensTo
<1>5. TickIdle(1)
  BY <1>1, <1>2, <1>4, TalkingFacts DEF SessionTick, TickSendingChanges, TickAwaitingClient
<1>. QED
  BY <1>1, <1>2, <1>4, <1>5 DEF TickIdle, ServerThreads

\* A tick of the session changes nothing for the client.
LEMMA SessionTickTalks ==
  ASSUME FirstSync, TypeOK, Calm, Talking, UNCHANGED <<disk, dirs>>, SessionTicks
  PROVE  Calm' /\ Talking'
<1>1. sessions[1].state \in {"fsc_connected", "fsc_ping"} /\ sessions[1].queue = <<>>
  BY SessionIsIdle
<1>2. sessions' = [sessions EXCEPT ![1].state = "fsc_ping"] /\ down' = down /\ handled' = handled /\ serverUp' = serverUp
  BY SessionIsIdle
<1>3. UNCHANGED <<clientVars, fsClientVars, up>>
  BY SessionIsIdle
<1>4. UNCHANGED <<cPort, cState, cTimer, cQueue, cSeq, cIndexer, garbled, lib, ws>>
  BY <1>3 DEF clientVars, fsClientVars
<1>5. ListensTo(up)'
  <2>. DEFINE t == [sessions[1] EXCEPT !.state = "fsc_ping"]
  <2>1. sessions[1] \in SessionRecord /\ sessions[1] # NoSession /\ 1 \in ClientId
    BY TalkingFacts, ServerFacts
  <2>2. t \in SessionRecord /\ t.state = "fsc_ping" /\ t.queue = sessions[1].queue
    BY <2>1 DEF SessionRecord, SessionStates
  <2>3. sessions'[1] = t
    BY <1>2, <2>1, ServerFacts
  <2>. HIDE DEF t
  <2>4. sessions'[1] # NoSession
    BY <2>2, <2>3, NoSessionAssumption
  <2>. QED
    BY <1>1, <2>2, <2>3, <2>4 DEF ListensTo
<1>6. OneUnderWay' /\ WellFiled' /\ Indexed'
  BY <1>2, <1>3, <1>4, IndexedStays, FiledStays DEF Talking, OneUnderWay, Requests, StandsFor, TakenUp, SameMessage
<1>7. (OnlyPings \/ OneStatus \/ OneFileMessage)'
  BY <1>2, <1>3, <1>4 DEF Talking, OnlyPings, OneStatus, OneFileMessage, PendingFolders, Requests
<1>8. Calm'
  BY TalkingFacts, ServerKeepsCalm
<1>. QED
  BY <1>4, <1>5, <1>6, <1>7, <1>8 DEF Talking

\* No session of a client that talks is cleaned up.
LEMMA TalkingStays ==
  ASSUME FirstSync, TypeOK, Calm, Talking
  PROVE  ~CleansUp
<1>. SUFFICES ASSUME serverUp PROVE ~CleansUp
  BY DEF CleansUp, Cleanup
<1>1. ~ClientIsSilent(1)
  <2>1. CASE OneStatus
    <3>1. Requests # {} => \E i \in DOMAIN up : up[i].type # "ClientHello" /\ up[i].to = 1
      BY TalkingFacts DEF Requests
    <3>2. down # <<>> => 1 \in DOMAIN down /\ down[1].dst = cPort
      <4>1. SUFFICES ASSUME down # <<>> PROVE 1 \in DOMAIN down /\ down[1].dst = cPort
        OBVIOUS
      <4>2. Len(down) = 1 /\ down[1].dst = cPort
        BY <4>1 DEF Talking, OneUnderWay
      <4>. QED
        BY <4>2, TalkingFacts, LenProperties
    <3>. QED
      BY <2>1, <3>1, <3>2, TalkingFacts DEF OneStatus, ClientIsSilent
  <2>2. CASE OnlyPings
    BY <2>2, TalkingFacts, TickingTicks DEF OnlyPings, ClientIsSilent
  <2>3. CASE OneFileMessage
    <3>1. cQueue # <<>>
      BY <2>3 DEF OneFileMessage
    <3>. QED
      BY <2>3, <3>1, TalkingFacts, TickingTicks DEF OneFileMessage, ClientIsSilent
  <2>. QED
    BY <2>1, <2>2, <2>3 DEF Talking
<1>. QED
  BY <1>1, TalkingFacts, HeardStays

\* The indexing that a tick has started finds nothing.
LEMMA IndexTalks ==
  ASSUME FirstSync, TypeOK, Calm, Talking, UNCHANGED <<disk, dirs>>, Indexes
  PROVE  Calm' /\ Talking'
<1>1. OnlyPings
  BY DEF Indexes, IndexerEnds, Talking, OneStatus, OneFileMessage
<1>2. Index(lib, disk, dirs) = [lib |-> lib, ws |-> EmptyWorkingSet]
  BY <1>1, IndexAgain DEF TypeOK, Talking, Indexed, OnlyPings
<1>3. /\ lib' = lib /\ ws' = EmptyWorkingSet
      /\ UNCHANGED <<cId, cPort, cState, cTimer, cQueue, cSeq, up, down, sessions, serverUp, handled,
                     garbled>>
  BY <1>2 DEF Indexes, IndexerEnds, ClientThreads, serverVars
<1>4. ws' = ws
  BY <1>1, <1>3 DEF OnlyPings
<1>5. OnlyPings'
  BY <1>1, <1>3, <1>4 DEF OnlyPings, PendingFolders
<1>6. Indexed' /\ ListensTo(up)' /\ OneUnderWay' /\ WellFiled'
  BY <1>3, <1>4, IndexedStays, FiledStays
     DEF Talking, ListensTo, SessionAwaits, AuthResult, OneUnderWay, Requests, StandsFor, TakenUp,
         SameMessage
<1>7. Calm'
  BY <1>3, OthersKeepCalm
<1>. QED
  BY <1>3, <1>5, <1>6, <1>7 DEF Talking

\* With prompt replies a tick finds nothing under way that needs an answer.
LEMMA TickFindsQuiet ==
  ASSUME FirstSync, TypeOK, Calm, Talking, ClientTick
  PROVE  /\ Requests = {} /\ down = <<>> /\ cTimer = Ticking /\ ~OneStatus
         /\ OnlyPings \/ OneFileMessage
<1>1. \A k \in DOMAIN cQueue : ~EntryInTransit(cQueue[k])
  BY DEF ClientTick, FirstSync
<1>2. Requests = {}
  <2>1. ASSUME NEW i \in Requests PROVE FALSE
    <3>1. PICK k \in DOMAIN cQueue : SameMessage(up[i], cQueue[k].msg)
      BY DEF Talking, OneUnderWay, StandsFor
    <3>2. i \in DOMAIN up
      BY DEF Requests
    <3>. QED
      BY <1>1, <3>1, <3>2 DEF EntryInTransit
  <2>. QED
    BY <2>1
<1>3. down = <<>>
  <2>1. SUFFICES ASSUME down # <<>> PROVE FALSE
    OBVIOUS
  <2>2. /\ Len(down) = 1 /\ down[1].dst = cPort /\ down[1].type \in {"FileStatus", "Ack"}
        /\ \E k \in DOMAIN cQueue : cQueue[k].seq = down[1].seq
    BY <2>1 DEF Talking, OneUnderWay
  <2>3. 1 \in DOMAIN down
    BY <2>2, TalkingFacts, LenProperties
  <2>. QED
    BY <1>1, <2>2, <2>3, TalkingFacts DEF EntryInTransit
<1>4. ~OneStatus
  BY NewTimerRests DEF OneStatus, ClientTick
<1>5. cTimer = Ticking /\ (OnlyPings \/ OneFileMessage)
  BY <1>4 DEF Talking, OnlyPings, OneFileMessage
<1>. QED
  BY <1>2, <1>3, <1>4, <1>5

\* A request that is sent for an entry of the queue is the only one.
LEMMA SentTalks ==
  ASSUME TypeOK, Calm, Talking, Requests = {}, down = <<>>, down' = <<>>,
         UNCHANGED <<disk, dirs, cPort, cId, lib, ws, sessions, serverUp>>,
         garbled' = 0 => garbled = 0,
         NEW msg \in UpMessage, msg.type \in RequestTypes, up' = Append(up, msg),
         IsCalm(msg) \/ (garbled' # 0 /\ msg.to = 1),
         \E k \in DOMAIN cQueue' : /\ SameMessage(msg, cQueue'[k].msg)
                                   /\ garbled' = 0 => msg = cQueue'[k].msg,
         WellFiled', (OnlyPings \/ OneFileMessage)'
  PROVE  Calm' /\ Talking'
<1>0. up \in Seq(UpMessage) /\ msg.type \notin {"ClientHello", "Ack", "TransferEnded"}
  BY TalkingFacts DEF RequestTypes
<1>1. /\ \A j \in DOMAIN up' : j = Len(up) + 1 \/ (j \in DOMAIN up /\ up'[j] = up[j])
      /\ \A j \in DOMAIN up : j \in DOMAIN up' /\ up'[j] = up[j]
      /\ up'[Len(up) + 1] = msg /\ Len(up) + 1 \in DOMAIN up'
  BY <1>0, AppendPlaces
<1>2. Calm'
  BY <1>0, SendingKeepsCalm
<1>3. \A j \in Requests' : j = Len(up) + 1
  <2>1. ASSUME NEW j \in Requests', j # Len(up) + 1 PROVE FALSE
    <3>1. j \in DOMAIN up' /\ up'[j].type \in RequestTypes
      BY <2>1 DEF Requests
    <3>2. j \in Requests
      BY <1>1, <2>1, <3>1 DEF Requests
    <3>. QED
      BY <3>2
  <2>. QED
    BY <2>1
<1>4. OneUnderWay'
  <2>1. (\A j \in DOMAIN up : /\ up[j].type \in RequestTypes \cup {"Ack", "TransferEnded"}
                              /\ up[j].type = "Ack" => up[j].seq = 0)'
    BY <1>0, <1>1 DEF Talking, OneUnderWay
  <2>2. \A i, j \in Requests' : i = j
    BY <1>3
  <2>3. (\A i \in Requests : down = <<>> /\ \E k \in DOMAIN cQueue : StandsFor(up[i], cQueue[k].msg))'
    BY <1>1, <1>3 DEF StandsFor, SameMessage
  <2>. QED
    BY <2>1, <2>2, <2>3 DEF OneUnderWay
<1>5. ListensTo(up)'
  BY <1>1 DEF Talking, ListensTo, SessionAwaits, AuthResult
<1>6. Indexed' /\ cPort' = cPort
  BY IndexedStays DEF Talking
<1>. QED
  BY <1>2, <1>4, <1>5, <1>6 DEF Talking

\* A ping gets the next number.
LEMMA PingFacts ==
  ASSUME TypeOK, Calm
  PROVE  /\ PingMessage(cSeq) \in UpMessage /\ PingMessage(cSeq).type = "Ping"
         /\ PingMessage(cSeq).seq = cSeq /\ IsCalm(PingMessage(cSeq)) /\ cSeq \in Nat
         /\ IsHarmless(PingMessage(cSeq))
<1>1. cSeq \in Nat /\ cId \in ClientId /\ cPw \in Passwords /\ cPort \in Nat /\ cId = 1
  BY ClientFacts DEF Calm
<1>. QED
  BY <1>1, UpMessages DEF PingMessage, IsCalm, IsHarmless, FitsDirectory

\* A client that is connected pings.
LEMMA TickConnectedTalks ==
  ASSUME FirstSync, TypeOK, Calm, Talking, UNCHANGED <<disk, dirs>>, ClientTicks, TickConnected
  PROVE  Calm' /\ Talking'
<1>1. Requests = {} /\ down = <<>> /\ cTimer = Ticking /\ OnlyPings
  BY TickFindsQuiet DEF ClientTicks, TickConnected, OneFileMessage
<1>2. /\ cState' = "ping" /\ cTimer' = Ticking
      /\ cQueue' = PushSendMessage(cQueue, cSeq, PingMessage(cSeq)) /\ cSeq' = cSeq + 1
      /\ up' = Append(up, PingMessage(cSeq))
      /\ UNCHANGED <<cPort, cId, lib, ws, down, sessions, serverUp, garbled>>
  BY <1>1, TickingTicks DEF TickConnected, ClientTicks, ClientThreads, serverVars, fsClientVars
<1>3. /\ PingMessage(cSeq) \in UpMessage /\ PingMessage(cSeq).type = "Ping"
      /\ PingMessage(cSeq).seq = cSeq /\ IsCalm(PingMessage(cSeq)) /\ cSeq \in Nat
      /\ IsHarmless(PingMessage(cSeq))
  BY PingFacts
<1>. DEFINE e == [seq |-> cSeq, msg |-> PingMessage(cSeq), sendCount |-> 1]
            n == Len(cQueue) + 1
<1>4. e \in Entry(UpMessage) /\ e.seq = cSeq /\ e.msg = PingMessage(cSeq)
  BY <1>3 DEF Entry
<1>5. cQueue' = Append(cQueue, e)
  BY <1>2 DEF PushSendMessage
<1>. HIDE DEF e
<1>6. /\ \A j \in DOMAIN cQueue' : j = n \/ (j \in DOMAIN cQueue /\ cQueue'[j] = cQueue[j])
      /\ cQueue'[n] = e /\ n \in DOMAIN cQueue' /\ cQueue' # <<>>
  <2>1. cQueue \in Seq(Entry(UpMessage))
    BY TalkingFacts
  <2>2. /\ \A j \in DOMAIN cQueue' : j = n \/ (j \in DOMAIN cQueue /\ cQueue'[j] = cQueue[j])
        /\ cQueue'[n] = e /\ n \in DOMAIN cQueue'
    BY <1>4, <1>5, <2>1, AppendPlaces
  <2>3. cQueue' # <<>>
    BY <2>2
  <2>. QED
    BY <2>2, <2>3
<1>. HIDE DEF n
<1>7. WellFiled'
  <2>1. \A k \in DOMAIN cQueue : cQueue[k].seq \in Nat
    <3>1. cQueue \in Seq(Entry(UpMessage))
      BY TalkingFacts
    <3>2. \A k \in DOMAIN cQueue : cQueue[k] \in Entry(UpMessage)
      BY <3>1, ElementOfSeq, LenProperties
    <3>. QED
      BY <3>2 DEF Entry
  <2>2. WellFiled
    BY DEF Talking
  <2>3. ASSUME NEW k \in DOMAIN cQueue'
        PROVE  /\ cQueue'[k].msg.type \in RequestTypes /\ IsHarmless(cQueue'[k].msg)
               /\ cQueue'[k].seq = cQueue'[k].msg.seq /\ cQueue'[k].seq < cSeq'
    <3>1. CASE k = n
      BY <1>2, <1>3, <1>4, <1>6, <3>1 DEF RequestTypes
    <3>2. CASE k # n
      <4>1. k \in DOMAIN cQueue /\ cQueue'[k] = cQueue[k]
        BY <1>6, <3>2
      <4>2. cQueue[k].seq < cSeq /\ cQueue[k].seq \in Nat
        BY <2>1, <2>2, <4>1 DEF WellFiled
      <4>3. cQueue[k].seq < cSeq'
        BY <1>2, <1>3, <4>2
      <4>. QED
        BY <2>2, <4>1, <4>3 DEF WellFiled
    <3>. QED
      BY <3>1, <3>2
  <2>4. ASSUME NEW j \in DOMAIN cQueue', NEW k \in DOMAIN cQueue', cQueue'[j].seq = cQueue'[k].seq
        PROVE  j = k
    <3>1. \A i \in DOMAIN cQueue : cQueue[i].seq < cSeq /\ cQueue[i].seq # cSeq
      BY <1>3, <2>1, <2>2 DEF WellFiled
    <3>2. CASE j = n /\ k # n
      BY <1>4, <1>6, <2>4, <3>1, <3>2
    <3>3. CASE j # n /\ k = n
      BY <1>4, <1>6, <2>4, <3>1, <3>3
    <3>4. CASE j # n /\ k # n
      BY <1>6, <2>2, <2>4, <3>4 DEF WellFiled
    <3>. QED
      BY <3>2, <3>3, <3>4
  <2>. QED
    BY <1>2, <2>3, <2>4 DEF WellFiled, IsHarmless
<1>8. OnlyPings'
  <2>1. \A k \in DOMAIN cQueue' : cQueue'[k].msg.type = "Ping"
    BY <1>1, <1>3, <1>4, <1>6 DEF OnlyPings
  <2>. QED
    BY <1>1, <1>2, <1>6, <2>1 DEF OnlyPings, PendingFolders
<1>. QED
  BY <1>1, <1>2, <1>3, <1>4, <1>6, <1>7, <1>8, SentTalks DEF RequestTypes, SameMessage

\* A message that was not answered is sent again.
LEMMA TickAwaitingTalks ==
  ASSUME FirstSync, TypeOK, Calm, Talking, UNCHANGED <<disk, dirs>>, ClientTicks, TickAwaiting
  PROVE  Calm' /\ Talking'
<1>1. Requests = {} /\ down = <<>> /\ cTimer = Ticking /\ OneFileMessage
  BY TickFindsQuiet DEF ClientTicks, TickAwaiting, OnlyPings
<1>2. ~Reconnect
  <2>1. cPort >= 1 /\ ~(cPort < MaxConnects)
    BY TalkingFacts, ClientFacts, ClientAssumption DEF FirstSync
  <2>. QED
    BY <2>1 DEF Reconnect, Connect
<1>3. PICK m \in Resent(Oldest(cQueue).msg) :
      /\ up' = Append(up, m) /\ cQueue' = RequeueOldest(cQueue)
      /\ garbled' = garbled + (IF m = Oldest(cQueue).msg THEN 0 ELSE 1)
      /\ UNCHANGED <<cState, cTimer, cSeq, cPort, cId, cIndexer, lib, ws, down, sessions, serverUp>>
  BY <1>2 DEF TickAwaiting, ClientTicks, ClientThreads, serverVars, fsClientVars
<1>4. /\ Oldest(cQueue) = cQueue[1] /\ Len(cQueue') = 1
      /\ cQueue'[1].msg = cQueue[1].msg /\ cQueue'[1].seq = cQueue[1].seq
      /\ DOMAIN cQueue = {1} /\ DOMAIN cQueue' = {1}
  BY <1>1, <1>3, TalkingFacts, OneEntryAgain DEF OneFileMessage
<1>. DEFINE msg == cQueue[1].msg
<1>5. msg \in UpMessage /\ msg.type \in {"FileCreation", "FileTransfer"} /\ msg.type \in RequestTypes
  <2>1. cQueue[1] \in Entry(UpMessage)
    <3>1. cQueue \in Seq(Entry(UpMessage)) /\ 1 \in DOMAIN cQueue
      BY <1>4, TalkingFacts
    <3>. QED
      BY <3>1, ElementOfSeq, LenProperties
  <2>. QED
    BY <1>1, <2>1 DEF OneFileMessage, Entry, RequestTypes
<1>6. IsCalm(msg)
  <2>1. IsHarmless(msg)
    BY <1>4 DEF Talking, WellFiled
  <2>. QED
    BY <1>5, <2>1 DEF IsCalm
<1>7. WellFiled'
  <2>1. garbled' = 0 => garbled = 0
    BY <1>3 DEF TypeOK, ClientTypeOK
  <2>. QED
    BY <1>3, <1>4, <2>1 DEF Talking, WellFiled, IsHarmless
<1>8. OneFileMessage'
  BY <1>1, <1>3, <1>4 DEF OneFileMessage
<1>9. Oldest(cQueue).msg = msg /\ cQueue'[1].msg = msg /\ 1 \in DOMAIN cQueue'
  BY <1>4
<1>. HIDE DEF msg
<1>10. garbled \in Nat /\ garbled' = garbled + (IF m = msg THEN 0 ELSE 1)
  BY <1>3, <1>9 DEF TypeOK, ClientTypeOK
<1>11. garbled' = 0 => garbled = 0 /\ m = msg
  BY <1>10
<1>12. m \in UpMessage /\ SameMessage(m, msg)
  BY <1>5, <1>9, ResentFacts
<1>13. \E k \in DOMAIN cQueue' : SameMessage(m, cQueue'[k].msg) /\ (garbled' = 0 => m = cQueue'[k].msg)
  BY <1>9, <1>11, <1>12
<1>14. IsCalm(m) \/ (garbled' # 0 /\ m.to = 1)
  <2>1. msg.to = 1
    BY <1>5, <1>6 DEF IsCalm, IsHarmless
  <2>. QED
    BY <1>6, <1>11, <1>12, <2>1 DEF SameMessage
<1>. QED
  BY <1>1, <1>3, <1>5, <1>7, <1>8, <1>11, <1>12, <1>13, <1>14, SentTalks DEF SameMessage

\* A client whose ping is not answered pings again.
LEMMA TickPingTalks ==
  ASSUME FirstSync, TypeOK, Calm, Talking, UNCHANGED <<disk, dirs>>, ClientTicks, TickPing
  PROVE  Calm' /\ Talking'
<1>1. Requests = {} /\ down = <<>> /\ cTimer = Ticking /\ OnlyPings
  BY TickFindsQuiet DEF ClientTicks, TickPing, OneFileMessage
<1>2. ~Reconnect
  <2>1. cPort >= 1 /\ ~(cPort < MaxConnects)
    BY TalkingFacts, ClientFacts, ClientAssumption DEF FirstSync
  <2>. QED
    BY <2>1 DEF Reconnect, Connect
<1>. DEFINE msg == PingMessage(cSeq)
            q == PushSendMessage(<<>>, cSeq, msg)
<1>3. EnterConnected("timer", Ticking, q, <<msg>>, cSeq + 1)
  BY <1>1, <1>2 DEF TickPing
<1>4. WorkingSetIsEmpty(ws, lib)
  BY <1>1 DEF OnlyPings, WorkingSetIsEmpty, EmptyWorkingSet
<1>5. /\ cState' = "connected" /\ cTimer' = Ticking /\ cQueue' = q /\ cSeq' = cSeq + 1
      /\ up' = up \o <<msg>> /\ UNCHANGED <<ws, lib>>
  BY <1>3, <1>4, TickingTicks DEF EnterConnected
<1>6. UNCHANGED <<cPort, cId, down, sessions, serverUp, garbled>>
  BY <1>2 DEF TickPing, ClientTicks, ClientThreads, serverVars
<1>7. /\ msg \in UpMessage /\ msg.type = "Ping" /\ msg.seq = cSeq /\ IsCalm(msg) /\ cSeq \in Nat
      /\ IsHarmless(msg)
  BY PingFacts
<1>8. DOMAIN cQueue' = {1} /\ cQueue'[1].seq = cSeq /\ cQueue'[1].msg = msg
  BY <1>5, OneEntry
<1>. HIDE DEF msg, q
<1>9. up' = Append(up, msg)
  BY <1>5, <1>7, TalkingFacts, AppendPlaces
<1>10. WellFiled' /\ OnlyPings'
  BY <1>1, <1>5, <1>6, <1>7, <1>8
     DEF WellFiled, OnlyPings, PendingFolders, RequestTypes, IsHarmless
<1>. QED
  BY <1>1, <1>5, <1>6, <1>7, <1>8, <1>9, <1>10, SentTalks DEF RequestTypes, SameMessage

\* What is left of a queue is well filed.
LEMMA AckedIsFiled ==
  ASSUME TypeOK, WellFiled, NEW n, IsQueued(cQueue, n), UNCHANGED <<disk, dirs, cSeq, garbled>>,
         cQueue' = OnSequenceNumberAck(cQueue, n)
  PROVE  /\ WellFiled'
         /\ \A j \in DOMAIN cQueue' : \E k \in DOMAIN cQueue : cQueue'[j] = cQueue[k]
<1>. DEFINE i == FirstQueued(cQueue, n)
<1>1. cQueue \in Seq(Entry(UpMessage))
  BY ClientFacts
<1>2. i \in DOMAIN cQueue
  BY <1>1, RangeOver, FirstQueuedIsThere
<1>. HIDE DEF i
<1>3. cQueue' = RemoveAt(cQueue, i)
  BY DEF OnSequenceNumberAck, i
<1>4. /\ cQueue' \in Seq(Entry(UpMessage))
      /\ \A j \in DOMAIN cQueue' :
           Source(i, j) \in DOMAIN cQueue \ {i} /\ cQueue'[j] = cQueue[Source(i, j)]
  BY <1>1, <1>2, <1>3, RemoveAtPlaces
<1>5. ASSUME NEW j \in DOMAIN cQueue', NEW k \in DOMAIN cQueue', cQueue'[j].seq = cQueue'[k].seq
      PROVE  j = k
  <2>1. Source(i, j) = Source(i, k)
    BY <1>4, <1>5 DEF WellFiled
  <2>2. i \in Nat /\ j \in Nat /\ k \in Nat
    <3>1. \A s \in Seq(Entry(UpMessage)) : \A p \in DOMAIN s : p \in Nat
      BY LenProperties
    <3>. QED
      BY <1>1, <1>2, <1>4, <1>5, <3>1
  <2>. QED
    BY <2>1, <2>2, SourcesDiffer
<1>6. ASSUME NEW j \in DOMAIN cQueue'
      PROVE  /\ cQueue'[j].msg.type \in RequestTypes /\ IsHarmless(cQueue'[j].msg)
             /\ cQueue'[j].seq = cQueue'[j].msg.seq /\ cQueue'[j].seq < cSeq'
             /\ \E k \in DOMAIN cQueue : cQueue'[j] = cQueue[k]
  BY <1>4, <1>6 DEF WellFiled
<1>. QED
  BY <1>5, <1>6 DEF WellFiled, IsHarmless

\* A queue of one entry is empty once that is answered.
LEMMA AckedOne ==
  ASSUME TypeOK, Len(cQueue) = 1, NEW n, IsQueued(cQueue, n)
  PROVE  OnSequenceNumberAck(cQueue, n) = <<>>
<1>1. cQueue \in Seq(Entry(UpMessage))
  BY ClientFacts
<1>2. FirstQueued(cQueue, n) \in DOMAIN cQueue
  BY <1>1, RangeOver, FirstQueuedIsThere
<1>. QED
  BY <1>1, <1>2, OneIsTaken DEF OnSequenceNumberAck

\* The client is answered, and goes on or rests.
LEMMA Answered ==
  ASSUME FirstSync, TypeOK, Calm, Talking, DeliverDown
  PROVE  /\ down # <<>> /\ down' = <<>> /\ Requests = {} /\ IsQueued(cQueue, down[1].seq)
         /\ UNCHANGED <<cPort, cId, cIndexer, garbled>> /\ UNCHANGED serverVars
         /\ \/ /\ OneStatus /\ 1 \in DOMAIN down /\ down[1].type = "FileStatus"
               /\ IF down[1].last = 0
                  THEN /\ SendCreation(NewTimer, <<>>, <<>>, cSeq, "ft_file", ws.cur)
                       /\ UNCHANGED <<ws, lib>>
                  ELSE EnterSendingFS("consumer", NewTimer, <<>>, <<>>, cSeq)
            \/ OneFileMessage /\ EnterSendingFS("consumer", Ticking, <<>>, <<>>, cSeq)
            \/ /\ OnlyPings
               /\ cState' = "connected" /\ cTimer' = Ticking
               /\ cQueue' = OnSequenceNumberAck(cQueue, down[1].seq)
               /\ UNCHANGED <<cSeq, up, ws, lib, ended>>
<1>1. PICK i \in DOMAIN down : /\ down' = RemoveAt(down, i) /\ ClientReceive(down[i])
                               /\ UNCHANGED serverVars
  BY DEF DeliverDown, Deliverable
<1>. DEFINE m == down[1]
<1>2. /\ Len(down) = 1 /\ m.dst = cPort
      /\ m.type = IF cState = "reqestedFileStatus" THEN "FileStatus" ELSE "Ack"
      /\ \E k \in DOMAIN cQueue : cQueue[k].seq = m.seq
  BY <1>1 DEF Talking, OneUnderWay
<1>3. i = 1 /\ down' = <<>> /\ 1 \in DOMAIN down
  BY <1>1, <1>2, TalkingFacts, OneIsTaken
<1>4. IsQueued(cQueue, m.seq) /\ ClientReceive(m)
  <2>1. ClientReceive(m)
    BY <1>1, <1>3
  <2>2. IsQueued(cQueue, m.seq)
    <3>. HIDE DEF m
    <3>. QED
      BY <1>2 DEF IsQueued
  <2>. QED
    BY <2>1, <2>2
<1>5. down # <<>> /\ Requests = {}
  <2>1. down # <<>>
    <3>1. Len(down) = 1
      BY <1>2
    <3>. QED
      BY <3>1
  <2>. HIDE DEF m
  <2>. QED
    BY <2>1 DEF Talking, OneUnderWay
<1>6. cPort >= 1 /\ cState \notin {"disconnected", "terminated"}
  BY TalkingFacts
<1>. HIDE DEF m
<1>7. CASE OneStatus
  <2>1. m.type = "FileStatus" /\ OnFileStatus(m)
    BY <1>2, <1>4, <1>6, <1>7 DEF OneStatus, ClientReceive
  <2>2. cState = "reqestedFileStatus" /\ cTimer = NewTimer /\ OnSequenceNumberAck(cQueue, m.seq) = <<>>
    BY <1>4, <1>7, AckedOne DEF OneStatus
  <2>3. /\ UNCHANGED <<cPort, cId, cIndexer, garbled>>
        /\ IF m.last = 0 THEN /\ SendCreation(NewTimer, <<>>, <<>>, cSeq, "ft_file", ws.cur)
                              /\ UNCHANGED <<ws, lib>>
           ELSE EnterSendingFS("consumer", NewTimer, <<>>, <<>>, cSeq)
    BY <1>4, <2>1, <2>2 DEF OnFileStatus
  <2>. QED
    BY <1>1, <1>3, <1>4, <1>5, <1>7, <2>1, <2>3 DEF m
<1>8. ASSUME OnlyPings \/ OneFileMessage
      PROVE  OnAck(m) /\ UNCHANGED <<cPort, cId, cIndexer, garbled>>
  <2>1. m.type = "Ack"
    BY <1>2, <1>8 DEF OnlyPings, OneFileMessage
  <2>2. OnAck(m)
    BY <1>2, <1>4, <1>6, <2>1 DEF ClientReceive
  <2>. QED
    BY <1>4, <2>2 DEF OnAck
<1>9. CASE OneFileMessage
  <2>1. cState = "awaitingAck" /\ cTimer = Ticking /\ OnSequenceNumberAck(cQueue, m.seq) = <<>>
    BY <1>4, <1>9, AckedOne DEF OneFileMessage
  <2>2. EnterSendingFS("consumer", Ticking, <<>>, <<>>, cSeq)
    BY <1>4, <1>8, <1>9, <2>1 DEF OnAck
  <2>. QED
    BY <1>1, <1>3, <1>4, <1>5, <1>8, <1>9, <2>2 DEF m
<1>10. CASE OnlyPings
  <2>. DEFINE q == OnSequenceNumberAck(cQueue, m.seq)
  <2>1. /\ cState' = "connected" /\ cTimer' = Ticking /\ cQueue' = q
        /\ UNCHANGED <<cSeq, up, ws, lib, ended>>
    <3>1. CASE cState = "connected"
      BY <1>4, <1>8, <1>10, <3>1 DEF OnAck, OnlyPings
    <3>2. CASE cState = "ping"
      <4>1. EnterConnected("consumer", Ticking, q, <<>>, cSeq)
        BY <1>4, <1>8, <1>10, <3>2 DEF OnAck, OnlyPings
      <4>2. WorkingSetIsEmpty(ws, lib)
        BY <1>10 DEF OnlyPings, WorkingSetIsEmpty, EmptyWorkingSet
      <4>3. up \o <<>> = up
        BY TalkingFacts
      <4>. QED
        BY <4>1, <4>2, <4>3, TickingTicks DEF EnterConnected
    <3>. QED
      BY <1>10, <3>1, <3>2 DEF OnlyPings
  <2>. QED
    BY <1>1, <1>3, <1>4, <1>5, <1>8, <1>10, <2>1 DEF m
<1>. QED
  BY <1>7, <1>9, <1>10 DEF Talking

\* The client that is answered talks on.
LEMMA AnswerTalks ==
  ASSUME FirstSync, TypeOK, Calm, Talking, UNCHANGED <<disk, dirs>>, DeliverDown
  PROVE  Calm' /\ Talking'
<1>. DEFINE n == down[1].seq
<1>1. /\ down' = <<>> /\ Requests = {} /\ IsQueued(cQueue, n)
      /\ UNCHANGED <<cPort, cId, cIndexer, sessions, serverUp, handled, garbled>>
  BY Answered DEF serverVars
<1>2. NoRequests(up) /\ ListensTo(up) /\ up \in Seq(UpMessage)
  <2>1. NoRequests(up)
    BY <1>1, TalkingFacts DEF NoRequests, Talking, OneUnderWay, Requests
  <2>. QED
    BY <2>1, TalkingFacts DEF Talking
<1>3. /\ cPort >= 1 /\ cId = 1 /\ Indexed /\ <<>> \in Seq(UpMessage)
      /\ \A msg \in UpMessage : up \o Append(<<>>, msg) = Append(up, msg)
  <2>1. \A msg \in UpMessage : up \o Append(<<>>, msg) = Append(up, msg)
    BY <1>2, AppendPlaces
  <2>. QED
    BY <2>1, TalkingFacts DEF Talking
<1>. HIDE DEF n
<1>4. CASE OneStatus /\ SendCreation(NewTimer, <<>>, <<>>, cSeq, "ft_file", ws.cur)
           /\ UNCHANGED <<ws, lib>>
  <2>. DEFINE msg == FileCreation(cSeq, "ft_file", ws.cur)
  <2>1. cSeq \in Nat /\ cId \in ClientId /\ cPw \in Passwords /\ cPort \in Nat /\ ws.cur \in FileKey
    BY ClientFacts DEF TypeOK, FilesTypeOK, WorkingSet
  <2>2. /\ msg \in UpMessage /\ msg.type = "FileCreation" /\ msg.kind = "ft_file" /\ msg.seq = cSeq
        /\ msg.to = 1 /\ msg.fid = ws.cur
    BY <1>3, <2>1, UpMessages DEF FileCreation
  <2>3. /\ cState' = "awaitingAck" /\ cTimer' = Ticking
        /\ cQueue' = PushSendMessage(<<>>, cSeq, msg) /\ cSeq' = cSeq + 1
        /\ up' = up \o Append(<<>>, msg)
    BY <1>4, NewTimerRests DEF SendCreation, SendAndWait
  <2>. HIDE DEF msg
  <2>4. up' = Append(up, msg)
    BY <1>3, <2>2, <2>3
  <2>5. Asks(up, cSeq)
    <3>1. ws.cur \in File /\ disk[ws.cur] # Absent
      BY <1>3, <1>4, <2>1 DEF OneStatus, FileKey, Indexed, WorkExists
    <3>2. IsHarmless(msg)
      BY <2>2, <3>1 DEF IsHarmless, FitsDirectory
    <3>. QED
      BY <2>2, <2>3, <2>4, <3>2 DEF Asks
  <2>6. Indexed' /\ cIndexer = "joined"
    BY <1>3, <1>4, IndexedStays DEF OneStatus
  <2>. QED
    BY <1>1, <1>2, <1>3, <2>1, <2>5, <2>6, AskingTalks
<1>5. CASE OneStatus /\ EnterSendingFS("consumer", NewTimer, <<>>, <<>>, cSeq)
  <2>1. cIndexer = "joined"
    BY <1>5 DEF OneStatus
  <2>. QED
    BY <1>1, <1>2, <1>3, <1>5, <2>1, ConsumerGoesOn
<1>6. CASE OneFileMessage /\ EnterSendingFS("consumer", Ticking, <<>>, <<>>, cSeq)
  <2>1. cIndexer = "joined"
    BY <1>6 DEF OneFileMessage
  <2>. QED
    BY <1>1, <1>2, <1>3, <1>6, <2>1, ConsumerGoesOn
<1>7. CASE /\ OnlyPings
           /\ cState' = "connected" /\ cTimer' = Ticking /\ cQueue' = OnSequenceNumberAck(cQueue, n)
           /\ UNCHANGED <<cSeq, up, ws, lib>>
  <2>1. WellFiled' /\ \A j \in DOMAIN cQueue' : \E k \in DOMAIN cQueue : cQueue'[j] = cQueue[k]
    BY <1>1, <1>7, AckedIsFiled DEF Talking
  <2>2. OnlyPings'
    BY <1>7, <2>1 DEF OnlyPings, PendingFolders
  <2>3. OneUnderWay'
    BY <1>1, <1>7 DEF Talking, OneUnderWay, Requests
  <2>4. ListensTo(up)' /\ Indexed'
    BY <1>1, <1>3, <1>7, IndexedStays DEF Talking, ListensTo, SessionAwaits, AuthResult
  <2>5. Calm'
    BY <1>1, <1>7, OthersKeepCalm
  <2>. QED
    BY <1>1, <1>3, <2>1, <2>2, <2>3, <2>4, <2>5 DEF Talking
<1>. QED
  BY <1>4, <1>5, <1>6, <1>7, Answered DEF n

\* The client and its session talk until the client gives up.
LEMMA TalkingStep ==
  ASSUME FirstSync, TypeOK, Calm, Talking, Next
  PROVE  Calm' /\ (Talking \/ Gone)'
<1>1. UNCHANGED <<disk, dirs>>
  BY FewActions
<1>2. ~Connects /\ ~SaysHello /\ ~TimerEnds
  <2>1. cState \notin {"disconnected", "sendClientHello"} /\ ~LeavesLoop(cTimer)
    BY TalkingFacts, NewTimerRests, TickingTicks
  <2>. QED
    BY <2>1 DEF Connects, UserConnect, SaysHello, SendClientHello, TimerEnds, TimerThreadEnds
<1>3. CASE Stops
  BY <1>3, StopStep, TalkingFacts
<1>4. CASE ClientTicks
  <2>1. TickConnected \/ TickAwaiting \/ TickPing
    BY <1>4 DEF ClientTicks, ClientTick
  <2>. QED
    BY <1>1, <1>4, <2>1, TickConnectedTalks, TickAwaitingTalks, TickPingTalks
<1>. QED
  BY <1>1, <1>2, <1>3, <1>4, FewActions, IndexTalks, SessionTickTalks, TalkingStays, LoseUpTalks,
     LoseDownTalks, DeliverUpTalks, AnswerTalks

\* A step in which nothing happens.
LEMMA NothingHappens ==
  ASSUME SyncInv, UNCHANGED vars
  PROVE  Calm' /\ Conversation'
<1>1. /\ UNCHANGED <<cState, cTimer, cQueue, cSeq, cPort, cId, cPw, cIndexer, garbled, ws, lib, disk, dirs>>
      /\ UNCHANGED <<sessions, serverUp, authed, handled, up, down>>
  BY DEF vars, clientVars, fsClientVars, serverVars, netVars
<1>2. Calm'
  BY <1>1 DEF SyncInv, Calm, Quiet, IsCalm, ClientHello, IsHarmless
<1>3. Indexed' <=> Indexed
  BY <1>1 DEF Indexed, FilesAreKnown, FoldersAreListed, WorkExists
<1>4. \A s, m : SessionAwaits(s, m)' <=> SessionAwaits(s, m)
  BY <1>1 DEF SessionAwaits
<1>5. Quiet' <=> Quiet
  BY <1>1 DEF Quiet
<1>6. CASE Before
  BY <1>1, <1>2, <1>5, <1>6 DEF Before, Conversation
<1>7. CASE Greeting
  BY <1>1, <1>2, <1>3, <1>4, <1>5, <1>7 DEF Greeting, Conversation, ClientHello, Accepted, ServerHello
<1>8. CASE Authenticating
  BY <1>1, <1>2, <1>3, <1>4, <1>8
     DEF Authenticating, Conversation, AuthRequest, AuthResult, Accepted, ServerHello, Active
<1>9. CASE Talking
  <2>1. ListensTo(up)'
    BY <1>1, <1>4, <1>9 DEF Talking, ListensTo, AuthResult
  <2>2. OneUnderWay' /\ WellFiled'
    BY <1>1, <1>9 DEF Talking, OneUnderWay, Requests, WellFiled, IsHarmless, StandsFor, TakenUp,
                    SameMessage
  <2>3. (OnlyPings \/ OneStatus \/ OneFileMessage)'
    BY <1>1, <1>9 DEF Talking, OnlyPings, OneStatus, OneFileMessage, Requests, PendingFolders
  <2>. QED
    BY <1>1, <1>2, <1>3, <1>9, <2>1, <2>2, <2>3 DEF Talking, Conversation
<1>10. CASE Gone
  BY <1>1, <1>2, <1>10 DEF Gone, Conversation
<1>. QED
  BY <1>6, <1>7, <1>8, <1>9, <1>10 DEF SyncInv, Conversation

\* The first synchronisation keeps to its phases.
LEMMA SyncStep ==
  ASSUME FirstSync, SyncInv, [Next]_vars
  PROVE  SyncInv'
<1>1. TypeOK /\ Calm /\ Conversation /\ TypeOK'
  BY NextType DEF SyncInv
<1>2. CASE Next
  BY <1>1, <1>2, BeforeStep, GreetingStep, AuthenticatingStep, TalkingStep, GoneStep
     DEF SyncInv, Conversation
<1>3. CASE UNCHANGED vars
  BY <1>1, <1>3, NothingHappens DEF SyncInv
<1>. QED
  BY <1>2, <1>3

-----------------------------------------------------------------------------
(* What the phases are for. *)

\* The phases start before the first connection.
LEMMA SyncInit == Init => SyncInv
<1>. SUFFICES ASSUME Init PROVE SyncInv
  OBVIOUS
<1>1. TypeOK
  BY InitType
<1>2. /\ cPort = 0 /\ cId = 1 /\ cState = "disconnected" /\ cTimer = NewTimer /\ cQueue = <<>>
      /\ cIndexer = "joined" /\ ws = EmptyWorkingSet
      /\ lib = [file |-> [f \in File |-> NoObject], folders |-> <<>>]
      /\ up = <<>> /\ down = <<>> /\ serverUp
  BY DEF Init, ClientInit, ServerInit, NetworkInit, FilesystemClientInit
<1>3. Quiet
  BY DEF Init, ServerInit, Quiet
<1>4. DOMAIN up = {}
  BY <1>2
<1>5. Calm
  BY <1>2, <1>3, <1>4 DEF Calm, Quiet
<1>6. Before
  BY <1>2, <1>3 DEF Before
<1>. QED
  BY <1>1, <1>5, <1>6 DEF SyncInv, Conversation

\* A first synchronisation never leaves its phases.
LEMMA SyncAlways == FirstSync => (Spec => []SyncInv)
<1>. SUFFICES ASSUME FirstSync PROVE Spec => []SyncInv
  OBVIOUS
<1>1. Init => SyncInv
  BY SyncInit
<1>2. SyncInv /\ [Next]_vars => SyncInv'
  BY SyncStep
<1>. QED
  BY <1>1, <1>2, PTL DEF Spec

\* In each phase the client that waits is woken up, and the session is kept.
LEMMA PhasesAreSafe ==
  ASSUME SyncInv
  PROVE  Supervised /\ Pings /\ SessionKept /\ ServerSurvives
<1>1. TypeOK /\ Calm /\ Conversation
  BY DEF SyncInv
<1>2. ServerSurvives
  BY <1>1 DEF Calm, ServerSurvives, TypeOK, ClientTypeOK
<1>3. CASE Before \/ Gone \/ Greeting
  BY <1>2, <1>3 DEF Before, Gone, Greeting, Supervised, Pings, SessionKept, LoggedIn
<1>4. CASE Authenticating
  <2>1. cState = "clientAuth" /\ Ticks(cTimer) /\ cQueue # <<>>
    BY <1>4, TickingTicks, OneEntry DEF Authenticating
  <2>. QED
    BY <1>2, <2>1 DEF Supervised, Pings, SessionKept, LoggedIn
<1>5. CASE Talking
  <2>1. SessionKept
    BY <1>1, <1>5, TalkingFacts DEF SessionKept, Calm
  <2>2. CASE OnlyPings
    BY <1>2, <2>1, <2>2, TickingTicks DEF OnlyPings, Supervised, Pings
  <2>3. CASE OneFileMessage
    <3>1. cQueue # <<>>
      BY <2>3 DEF OneFileMessage
    <3>. QED
      BY <1>2, <2>1, <2>3, <3>1, TickingTicks DEF OneFileMessage, Supervised, Pings
  <2>4. CASE OneStatus
    <3>1. serverUp => \E k \in DOMAIN cQueue : EntryInTransit(cQueue[k])
      <4>. SUFFICES ASSUME serverUp PROVE \E k \in DOMAIN cQueue : EntryInTransit(cQueue[k])
        OBVIOUS
      <4>1. CASE Requests # {}
        BY <1>5, <4>1 DEF Talking, OneUnderWay, Requests, EntryInTransit, StandsFor
      <4>2. CASE down # <<>>
        <5>1. /\ 1 \in DOMAIN down /\ down[1].dst = cPort /\ down[1].type = "FileStatus"
              /\ \E k \in DOMAIN cQueue : cQueue[k].seq = down[1].seq
          <6>1. Len(down) = 1 /\ down \in Seq(DownMessage)
            BY <1>1, <1>5, <4>2, TalkingFacts DEF Talking, OneUnderWay
          <6>2. 1 \in DOMAIN down
            BY <6>1, LenProperties
          <6>. QED
            BY <1>5, <2>4, <4>2, <6>2 DEF Talking, OneUnderWay, OneStatus
        <5>. QED
          BY <5>1 DEF EntryInTransit
      <4>. QED
        BY <2>4, <4>1, <4>2 DEF OneStatus
    <3>. QED
      BY <1>2, <2>1, <2>4, <3>1 DEF OneStatus, Supervised, Pings
  <2>. QED
    BY <1>5, <2>2, <2>3, <2>4 DEF Talking
<1>. QED
  BY <1>1, <1>3, <1>4, <1>5 DEF Conversation

(***************************************************************************)
(* A client that waits in the first synchronisation is woken up, however   *)
(* many of its datagrams and of the acknowledgements are lost and whatever *)
(* is in a message that is sent again, unless that has crashed the server. *)
(***************************************************************************)
THEOREM FirstSyncIsSupervised == FirstSync => (Spec => []Supervised)
<1>1. SyncInv => Supervised
  BY PhasesAreSafe
<1>. QED
  BY <1>1, SyncAlways, PTL

\* A client that is connected pings the server.
THEOREM FirstSyncPings == FirstSync => (Spec => []Pings)
<1>1. SyncInv => Pings
  BY PhasesAreSafe
<1>. QED
  BY <1>1, SyncAlways, PTL

\* The server gives up no session its client is logged in to.
THEOREM FirstSyncIsKept == FirstSync => (Spec => []SessionKept)
<1>1. SyncInv => SessionKept
  BY PhasesAreSafe
<1>. QED
  BY <1>1, SyncAlways, PTL

\* No datagram of the first synchronisation brings the server down, unless it
\* was sent again with another name in it.
THEOREM FirstSyncServerSurvives == FirstSync => (Spec => []ServerSurvives)
<1>1. SyncInv => ServerSurvives
  BY PhasesAreSafe
<1>. QED
  BY <1>1, SyncAlways, PTL

-----------------------------------------------------------------------------
(* What the steps of a first synchronisation do. *)

\* The server sends at most one datagram in a step, and takes none back.
SendsDown == down' = down \/ \E m : down' = Append(down, m)

\* No step of the server takes a datagram back.
LEMMA ServerSends == DeliverUp \/ SessionTicks \/ CleansUp => SendsDown
<1>1. ASSUME NEW m, ServerReceive(m) PROVE SendsDown
  <2>1. CASE m.type = "ClientHello"
    BY <1>1, <2>1 DEF ServerReceive, OnClientHello, SendsDown
  <2>2. CASE m.type # "ClientHello"
    <3>1. SessionReceive(m)
      BY <1>1, <2>2 DEF ServerReceive
    <3>2. OnAuthRequest(m.to, m) => SendsDown
      BY DEF OnAuthRequest, SendsDown
    <3>3. OnClientAck(m.to, m) => SendsDown
      BY DEF OnClientAck, SendsDown
    <3>4. OnPing(m.to, m) \/ OnFileStatusRequest(m.to, m) \/ OnFileCreation(m.to, m)
            \/ OnFileTransfer(m.to, m) => SendsDown
      BY DEF OnPing, OnFileStatusRequest, OnFileCreation, OnFileTransfer, SendsDown
    <3>5. OnTransferEnded => SendsDown
      BY DEF OnTransferEnded, SendsDown
    <3>6. UNCHANGED down => SendsDown
      BY DEF SendsDown
    <3>. QED
      BY <3>1, <3>2, <3>3, <3>4, <3>5, <3>6 DEF SessionReceive
  <2>. QED
    BY <2>1, <2>2
<1>2. DeliverUp => SendsDown
  BY <1>1 DEF DeliverUp
<1>3. SessionTicks => SendsDown
  <2>1. ASSUME NEW id \in ClientId, SessionTick(id) PROVE SendsDown
    <3>1. TickIdle(id) => SendsDown
      BY DEF TickIdle, SendsDown
    <3>2. TickSendingChanges(id) => SendsDown
      BY DEF TickSendingChanges, SendsDown
    <3>3. TickAwaitingClient(id) => SendsDown
      BY DEF TickAwaitingClient, SendsDown
    <3>. QED
      BY <2>1, <3>1, <3>2, <3>3 DEF SessionTick
  <2>. QED
    BY <2>1 DEF SessionTicks
<1>4. CleansUp => SendsDown
  BY DEF CleansUp, Cleanup, SendsDown
<1>. QED
  BY <1>2, <1>3, <1>4

\* Of the datagrams to the client one is gone only when it was delivered or lost.
LEMMA DeliveredOrLost ==
  ASSUME FirstSync, TypeOK, Next, Len(down') < Len(down)
  PROVE  DeliverDown \/ cQueue' = cQueue
<1>1. down \in Seq(DownMessage) /\ Len(down) \in Nat
  BY LenProperties DEF TypeOK, NetTypeOK
<1>2. ~SendsDown
  <2>1. \A m : Len(Append(down, m)) = Len(down) + 1
    BY <1>1
  <2>. QED
    BY <1>1, <2>1 DEF SendsDown
<1>3. ~Connects /\ ~Stops /\ ~SaysHello /\ ~Indexes /\ ~ClientTicks /\ ~TimerEnds
  BY <1>2 DEF Connects, Stops, SaysHello, Indexes, ClientTicks, TimerEnds, ClientThreads, SendsDown
<1>. QED
  BY <1>2, <1>3, FewActions, ServerSends DEF clientVars

\* What an answer does not name stays in a queue of pings.
LEMMA OthersStayFiled ==
  ASSUME FirstSync, TypeOK, Calm, Talking, OnlyPings, DeliverDown, NEW j \in DOMAIN cQueue
  PROVE  \/ cQueue[j].seq = down[1].seq
         \/ \E k \in DOMAIN cQueue' : cQueue'[k].msg = cQueue[j].msg
<1>. DEFINE s == down[1].seq
            n == FirstQueued(cQueue, s)
<1>1. IsQueued(cQueue, s) /\ cQueue' = OnSequenceNumberAck(cQueue, s)
  BY Answered DEF OnlyPings, OneStatus, OneFileMessage
<1>2. cQueue \in Seq(Entry(UpMessage))
  BY ClientFacts
<1>. HIDE DEF s
<1>3. n \in DOMAIN cQueue /\ cQueue[n].seq = s
  BY <1>1, <1>2, RangeOver, FirstQueuedIsThere
<1>4. cQueue' = RemoveAt(cQueue, n)
  BY <1>1 DEF OnSequenceNumberAck
<1>. HIDE DEF n
<1>5. CASE j = n
  BY <1>3, <1>5 DEF s
<1>6. CASE j # n
  <2>1. \E k \in DOMAIN cQueue' : cQueue'[k] = cQueue[j]
    BY <1>2, <1>3, <1>4, <1>6, RemoveAtPlaces
  <2>. QED
    BY <2>1
<1>. QED
  BY <1>5, <1>6

\* An answer takes from the queue what the server has taken up.
LEMMA AnswersAreHonest ==
  ASSUME FirstSync, SyncInv, Next, NEW i \in DOMAIN cQueue, RemovedByAnswer(cQueue[i])
  PROVE  TakenUp(cQueue[i].msg)
<1>1. TypeOK /\ Calm /\ Conversation /\ TypeOK'
  BY NextType DEF SyncInv
<1>2. Len(down') < Len(down) /\ down # <<>>
  <2>1. Len(down') \in Nat /\ Len(down') < Len(down)
    BY <1>1, LenProperties DEF TypeOK, NetTypeOK, RemovedByAnswer
  <2>. QED
    BY <2>1
<1>3. DeliverDown
  BY <1>1, <1>2, DeliveredOrLost DEF RemovedByAnswer
<1>4. DOMAIN <<>> = {}
  OBVIOUS
<1>5. CASE Before \/ Greeting \/ Gone
  BY <1>4, <1>5 DEF Before, Greeting, Gone
<1>6. CASE Authenticating
  <2>1. DOMAIN cQueue = {1} /\ cQueue[1].msg = AuthRequest(0)
    BY <1>6, OneEntry DEF Authenticating
  <2>. QED
    BY <2>1 DEF RemovedByAnswer, AuthRequest
<1>7. CASE Talking
  <2>1. PICK k \in DOMAIN cQueue : cQueue[k].seq = down[1].seq /\ TakenUp(cQueue[k].msg)
    BY <1>2, <1>7 DEF Talking, OneUnderWay
  <2>2. CASE OneStatus \/ OneFileMessage
    <3>1. DOMAIN cQueue = {1}
      BY <1>1, <2>2, OneEntryAgain, ClientFacts DEF OneStatus, OneFileMessage
    <3>. QED
      BY <2>1, <3>1
  <2>3. CASE OnlyPings
    <3>1. cQueue[i].seq = down[1].seq
      BY <1>1, <1>3, <1>7, <2>3, OthersStayFiled DEF RemovedByAnswer
    <3>2. i = k
      BY <1>7, <2>1, <3>1 DEF Talking, WellFiled
    <3>. QED
      BY <2>1, <3>2
  <2>. QED
    BY <1>7, <2>2, <2>3 DEF Talking
<1>. QED
  BY <1>1, <1>5, <1>6, <1>7 DEF Conversation

(***************************************************************************)
(* In the first synchronisation an answer takes a message off the queue of *)
(* the client only after the server has taken up that very message, or one *)
(* sent again under its number with something else in it.                  *)
(***************************************************************************)
THEOREM FirstSyncAcksAreHonest == FirstSync => (Spec => AcksAreHonest)
<1>. DEFINE Step == \A i \in DOMAIN cQueue : RemovedByAnswer(cQueue[i]) => TakenUp(cQueue[i].msg)
<1>. SUFFICES ASSUME FirstSync PROVE Spec => AcksAreHonest
  OBVIOUS
<1>1. Spec => []SyncInv
  BY SyncAlways
<1>2. SyncInv /\ [Next]_vars => [Step]_vars
  BY AnswersAreHonest
<1>. QED
  BY <1>1, <1>2, PTL DEF Spec, AcksAreHonest

\* A client that waits for the answer to a file message numbers no other one.
LEMMA WaitingSendsNothing ==
  ASSUME FirstSync, TypeOK, Calm, Talking, OneStatus \/ OneFileMessage, Next, down = <<>>
  PROVE  cSeq' = cSeq
<1>1. ~Connects /\ ~DeliverDown
  <2>1. DOMAIN down = {}
    OBVIOUS
  <2>. QED
    BY <2>1, TalkingFacts DEF Connects, UserConnect, DeliverDown, Deliverable
<1>2. Stops \/ SaysHello \/ Indexes \/ TimerEnds => cSeq' = cSeq
  BY DEF Stops, UserStop, SaysHello, SendClientHello, Indexes, IndexerEnds, TimerEnds, TimerThreadEnds
<1>3. ClientTicks => cSeq' = cSeq
  BY DEF ClientTicks, ClientTick, TickConnected, TickAwaiting, TickPing, Reconnect, Connect,
         OneStatus, OneFileMessage
<1>4. SessionTicks \/ CleansUp \/ DeliverUp => cSeq' = cSeq
  BY DEF SessionTicks, CleansUp, DeliverUp, ServerThreads, clientVars
<1>. QED
  BY <1>1, <1>2, <1>3, <1>4, FewActions DEF clientVars

\* A new message is numbered when the server has taken up the file messages filed.
LEMMA NothingIsSentPast ==
  ASSUME FirstSync, SyncInv, Next, cSeq' > cSeq, NEW i \in DOMAIN cQueue,
         FileMessage(cQueue[i].msg)
  PROVE  TakenUp(cQueue[i].msg)
<1>1. TypeOK /\ Calm /\ Conversation
  BY DEF SyncInv
<1>2. cSeq' # cSeq
  BY <1>1 DEF TypeOK, ClientTypeOK
<1>3. DOMAIN <<>> = {}
  OBVIOUS
<1>4. CASE Before \/ Greeting \/ Gone
  BY <1>3, <1>4 DEF Before, Greeting, Gone
<1>5. CASE Authenticating
  <2>1. DOMAIN cQueue = {1} /\ cQueue[1].msg = AuthRequest(0)
    BY <1>5, OneEntry DEF Authenticating
  <2>. QED
    BY <2>1 DEF FileMessage, AuthRequest
<1>6. CASE Talking
  <2>1. CASE OnlyPings
    BY <2>1 DEF OnlyPings, FileMessage
  <2>2. CASE OneStatus \/ OneFileMessage
    <3>1. down # <<>>
      BY <1>1, <1>2, <1>6, <2>2, WaitingSendsNothing
    <3>2. DOMAIN cQueue = {1}
      BY <1>1, <2>2, OneEntryAgain, ClientFacts DEF OneStatus, OneFileMessage
    <3>. QED
      BY <1>6, <3>1, <3>2 DEF Talking, OneUnderWay
  <2>. QED
    BY <1>6, <2>1, <2>2 DEF Talking
<1>. QED
  BY <1>1, <1>4, <1>5, <1>6 DEF Conversation

(***************************************************************************)
(* In the first synchronisation sendNextFilePart goes on only when the     *)
(* server has taken up every file message sent before, or what was sent    *)
(* again under its number.                                                 *)
(***************************************************************************)
THEOREM FirstSyncStopsAndWaits == FirstSync => (Spec => StopAndWait)
<1>. DEFINE Step == (cSeq' > cSeq /\ FileMessage(up'[Len(up')])) =>
               \A i \in DOMAIN cQueue : FileMessage(cQueue[i].msg) => TakenUp(cQueue[i].msg)
<1>. SUFFICES ASSUME FirstSync PROVE Spec => StopAndWait
  OBVIOUS
<1>1. Spec => []SyncInv
  BY SyncAlways
<1>2. SyncInv /\ [Next]_vars => [Step]_vars
  BY NothingIsSentPast
<1>. QED
  BY <1>1, <1>2, PTL DEF Spec, StopAndWait

-----------------------------------------------------------------------------
(* What the server has of the directory, and what is on its way there.     *)

Asked == cQueue[1].msg

\* The file the session writes to.
Writing == IF sessions[1] = NoSession THEN NoFile ELSE sessions[1].cur

FirstParts(c, k) == [i \in 1..k |-> c[i]]

Written(f, k) == Writing = f /\ sDisk[f] = FirstParts(disk[f], k)

\* The server has heard nothing of the file.
Fresh(f) ==
  /\ f \in ws.files
  /\ lib.file[f].np = 0..(Len(disk[f]) - 1)
  /\ sLast[f] = 0
  /\ Writing # f
  /\ ws.cur = f => cState = "reqestedFileStatus"

\* The first k parts have left, with the last of them to be acknowledged.
AsksFor(f, k) ==
  IF k = 0 THEN Asked.type = "FileCreation" /\ Asked.kind = "ft_file" /\ Asked.fid = f
  ELSE Asked.type = "FileTransfer" /\ Asked.part = k - 1 /\ Asked.data = disk[f][k]

Left(f, k) ==
  /\ lib.file[f].np = k..(Len(disk[f]) - 1)
  /\ k < Len(disk[f]) => f \in ws.files

Sending(f) ==
  /\ ws.cur = f
  /\ cState = "awaitingAck"
  /\ \E k \in 0..Len(disk[f]) :
       /\ Left(f, k)
       /\ AsksFor(f, k)
       /\ Written(f, k) \/ (down = <<>> /\ (k > 0 => Written(f, k - 1)))

Done(f) ==
  /\ f \notin ws.files
  /\ ws.cur # f
  /\ lib.file[f].np = {}
  /\ sDisk[f] = disk[f]

\* The object of a file has the size of the file, and its stream reads it.
ReadsFile(f) ==
  /\ lib.file[f].size = Len(disk[f])
  /\ lib.file[f].fd.open => lib.file[f].fd.data = disk[f]

FileIsSent(f) ==
  IF disk[f] = Absent THEN sDisk[f] = Absent
  ELSE ReadsFile(f) /\ (Fresh(f) \/ Sending(f) \/ Done(f))

IsPending(d) == \E i \in DOMAIN lib.folders : lib.folders[i].pending /\ lib.folders[i].path = d

AsksForFolder ==
  cState = "awaitingAck" /\ Asked.type = "FileCreation" /\ Asked.kind = "ft_folder"

AsksForDeletion ==
  cState = "awaitingAck" /\ Asked.type = "FileCreation" /\ Asked.kind = "ft_del_file"

\* A folder is on the server, or its creation is under way or yet to be sent.
FolderIsSent(d) ==
  \/ d \in sDirs
  \/ IsPending(d)
  \/ AsksForFolder /\ Asked.fid = d /\ down = <<>>

\* What is in a folder that exists lies in folders that exist.
InFolders ==
  /\ \A f \in File : disk[f] # Absent => Above[f] \subseteq dirs
  /\ \A d \in dirs : Above[d] \subseteq dirs

\* All folders are on the server before the first file is.
Mirrors ==
  /\ \A f \in File : FileIsSent(f)
  /\ sDirs \subseteq dirs
  /\ \A d \in dirs : FolderIsSent(d)
  /\ (ws.cur # NoFile \/ Writing # NoFile) => dirs \subseteq sDirs
  /\ cState = "awaitingAck" => \/ ws.cur # NoFile
                               \/ AsksForFolder
                               \/ AsksForDeletion
  /\ \A i \in DOMAIN down : down[i].type = "FileStatus" => down[i].last = 0

\* Files lie in folders that exist; a server that was never asked has nothing.
\* As long as nothing was sent again with something else in it, the server has
\* of the directory what was sent.
Mirroring ==
  /\ InFolders
  /\ cPort = 0 => sDisk = [f \in File |-> Absent] /\ sDirs = {} /\ sLast = [f \in File |-> 0]
  /\ garbled = 0 /\ cPort >= 1 /\ cState # "disconnected" => Mirrors

\* The first parts of a file, and what writing one more of them makes of them.
LEMMA FirstPartsFacts ==
  ASSUME NEW c \in Content, NEW k \in 0..Len(c)
  PROVE  /\ FirstParts(c, k) \in Seq(Data) /\ Len(FirstParts(c, k)) = k
         /\ FirstParts(c, k) # Absent
         /\ FirstParts(c, 0) = <<>>
         /\ FirstParts(c, Len(c)) = c
         /\ k > 0 => /\ c[k] \in Version /\ c[k] # Hole
                     /\ WithPart(FirstParts(c, k), k - 1, c[k]) = FirstParts(c, k)
                     /\ WithPart(FirstParts(c, k - 1), k - 1, c[k]) = FirstParts(c, k)
<1>1. PICK n \in 0..MaxParts : c \in [1..n -> Version]
  BY DEF Content
<1>2. n \in Nat /\ MaxParts \in Nat /\ c \in Seq(Version) /\ Len(c) = n /\ k \in 0..n
  <2>1. n \in Nat /\ MaxParts \in Nat
    BY FilesystemAssumption
  <2>. QED
    BY <1>1, <2>1
<1>3. \A j \in 0..n : /\ FirstParts(c, j) \in [1..j -> Version] /\ FirstParts(c, j) \in Seq(Data)
                      /\ Len(FirstParts(c, j)) = j /\ FirstParts(c, j) \in Content
  <2>1. ASSUME NEW j \in 0..n
        PROVE  FirstParts(c, j) \in [1..j -> Version]
    BY <1>1, <1>2 DEF FirstParts
  <2>2. ASSUME NEW j \in 0..n
        PROVE  FirstParts(c, j) \in Seq(Data) /\ Len(FirstParts(c, j)) = j
    BY <1>2, <2>1 DEF Data
  <2>3. ASSUME NEW j \in 0..n
        PROVE  FirstParts(c, j) \in Content
    BY <1>1, <1>2, <2>1 DEF Content
  <2>. QED
    BY <2>1, <2>2, <2>3
<1>4. FirstParts(c, k) # Absent
  BY <1>2, <1>3, FilesystemAssumption
<1>5. FirstParts(c, 0) = <<>>
  BY DEF FirstParts
<1>6. FirstParts(c, Len(c)) = c
  BY <1>1, <1>2 DEF FirstParts
<1>7. ASSUME k > 0
      PROVE  /\ c[k] \in Version /\ c[k] # Hole
             /\ WithPart(FirstParts(c, k), k - 1, c[k]) = FirstParts(c, k)
             /\ WithPart(FirstParts(c, k - 1), k - 1, c[k]) = FirstParts(c, k)
  <2>1. k \in 1..n /\ k - 1 \in 0..n
    BY <1>2, <1>7
  <2>2. c[k] \in Version /\ c[k] # Hole
    BY <1>1, <2>1, FilesystemAssumption
  <2>3. Len(FirstParts(c, k)) = k /\ Len(FirstParts(c, k - 1)) = k - 1
    BY <1>2, <1>3, <2>1
  <2>4. WithPart(FirstParts(c, k), k - 1, c[k]) = FirstParts(c, k)
    <3>1. WithPart(FirstParts(c, k), k - 1, c[k]) =
            [i \in 1..k |-> IF i = k THEN c[k] ELSE FirstParts(c, k)[i]]
      BY <1>2, <2>1, <2>2, <2>3 DEF WithPart
    <3>2. ASSUME NEW i \in 1..k
          PROVE  (IF i = k THEN c[k] ELSE FirstParts(c, k)[i]) = c[i]
      BY <1>2, <2>1 DEF FirstParts
    <3>. QED
      BY <3>1, <3>2 DEF FirstParts
  <2>5. WithPart(FirstParts(c, k - 1), k - 1, c[k]) = FirstParts(c, k)
    <3>1. WithPart(FirstParts(c, k - 1), k - 1, c[k]) =
            [i \in 1..k |-> IF i = k THEN c[k] ELSE FirstParts(c, k - 1)[i]]
      BY <1>2, <2>1, <2>2, <2>3 DEF WithPart
    <3>2. ASSUME NEW i \in 1..k
          PROVE  (IF i = k THEN c[k] ELSE FirstParts(c, k - 1)[i]) = c[i]
      BY <1>2, <2>1 DEF FirstParts
    <3>. QED
      BY <3>1, <3>2 DEF FirstParts
  <2>. QED
    BY <2>2, <2>4, <2>5
<1>. QED
  BY <1>2, <1>3, <1>4, <1>5, <1>6, <1>7

\* The client asks for the same, or for nothing in both states.
SameQuestion ==
  \/ /\ cState' = cState
     /\ cState = "awaitingAck" => Asked' = Asked /\ (down = <<>> => down' = <<>>)
  \/ ws.cur = NoFile /\ cState # "awaitingAck" /\ cState' # "awaitingAck"

\* A step that touches neither directory nor what the client asks for.
LEMMA MirrorStays ==
  ASSUME Mirrors, UNCHANGED <<disk, dirs, lib, ws, fsServerVars>>, SameQuestion,
         Writing' = Writing \/ (Writing' = NoFile /\ cState # "awaitingAck"),
         NoFile \notin File,
         \A i \in DOMAIN down' : down'[i].type = "FileStatus" => down'[i].last = 0
  PROVE  Mirrors'
<1>0. UNCHANGED <<sDisk, sDirs, sLast>>
  BY DEF fsServerVars
<1>1. ASSUME NEW f \in File PROVE FileIsSent(f)'
  <2>1. FileIsSent(f)
    BY DEF Mirrors
  <2>2. ReadsFile(f) => ReadsFile(f)'
    BY DEF ReadsFile
  <2>3. Fresh(f) => Fresh(f)'
    BY <1>0 DEF Fresh, SameQuestion
  <2>4. Done(f) => Done(f)'
    BY <1>0 DEF Done
  <2>5. Sending(f) => Sending(f)'
    <3>1. SUFFICES ASSUME Sending(f) PROVE Sending(f)'
      OBVIOUS
    <3>2. cState = "awaitingAck" /\ ws.cur = f
      BY <3>1 DEF Sending
    <3>3. cState' = cState /\ Asked' = Asked /\ (down = <<>> => down' = <<>>) /\ Writing' = Writing
      BY <3>2 DEF SameQuestion
    <3>. QED
      BY <1>0, <3>1, <3>2, <3>3 DEF Sending, Left, AsksFor, Written
  <2>. QED
    BY <1>0, <2>1, <2>2, <2>3, <2>4, <2>5 DEF FileIsSent
<1>2. ASSUME NEW d \in dirs PROVE FolderIsSent(d)'
  <2>1. FolderIsSent(d)
    BY DEF Mirrors
  <2>. QED
    BY <1>0, <2>1 DEF FolderIsSent, IsPending, AsksForFolder, SameQuestion
<1>3. sDirs' \subseteq dirs' /\ ((ws.cur # NoFile \/ Writing # NoFile) => dirs \subseteq sDirs)'
  BY <1>0 DEF Mirrors
<1>4. cState' = "awaitingAck" => ws'.cur # NoFile \/ AsksForFolder' \/ AsksForDeletion'
  <2>1. cState = "awaitingAck" => ws.cur # NoFile \/ AsksForFolder \/ AsksForDeletion
    BY DEF Mirrors
  <2>2. cState' = "awaitingAck" => ws.cur # NoFile \/ (cState = "awaitingAck" /\ Asked' = Asked)
    BY DEF SameQuestion
  <2>. QED
    BY <2>1, <2>2 DEF AsksForFolder, AsksForDeletion
<1>. QED
  BY <1>1, <1>2, <1>3, <1>4 DEF Mirrors

-----------------------------------------------------------------------------
(* The client goes on: the server has everything that was sent.            *)

\* The server has acted on the first parts of the current file.
Sent(f) == ws.cur = f /\ \E k \in 0..Len(disk[f]) : Left(f, k) /\ Written(f, k)

\* Nothing is asked for, and nothing that was sent is missing.
Settled ==
  /\ \A f \in File : IF disk[f] = Absent THEN sDisk[f] = Absent
       ELSE ReadsFile(f) /\ ((Fresh(f) /\ ws.cur # f) \/ Sent(f) \/ Done(f))
  /\ sDirs \subseteq dirs
  /\ \A d \in dirs : d \in sDirs \/ IsPending(d)
  /\ (ws.cur # NoFile \/ Writing # NoFile) => dirs \subseteq sDirs

\* A file on the disk.
LEMMA FileFacts ==
  ASSUME TypeOK, Indexed
  PROVE  /\ lib \in Library /\ ws \in WorkingSet /\ Rest \in WorkingSet
         /\ \A f \in File : /\ disk[f] # Absent => disk[f] \in Content /\ Len(disk[f]) \in Nat
                            /\ lib.file[f] \in FileObject /\ f # NoFile
         /\ ws.cur # NoFile => ws.cur \in File /\ disk[ws.cur] # Absent
         /\ ~CurFileHasParts(ws, lib) => Rest.cur = NoFile /\ Rest.files = ws.files \ {ws.cur}
         /\ \A f \in ws.files : f \in File /\ disk[f] # Absent
<1>1. FilesTypeOK /\ WorkExists(ws)
  BY DEF TypeOK, Indexed
<1>2. Rest \in WorkingSet /\ (~CurFileHasParts(ws, lib) => Rest.cur = NoFile /\ Rest.files = ws.files \ {ws.cur})
  BY <1>1, RestFacts
<1>3. lib \in Library /\ ws \in WorkingSet
  BY <1>1 DEF FilesTypeOK
<1>4. ASSUME NEW f \in File
      PROVE  /\ disk[f] # Absent => disk[f] \in Content /\ Len(disk[f]) \in Nat
             /\ lib.file[f] \in FileObject /\ f # NoFile
  <2>1. disk[f] # Absent => disk[f] \in Content
    BY <1>1 DEF FilesTypeOK
  <2>2. \A c \in Content : Len(c) \in Nat
    BY FilesystemAssumption DEF Content
  <2>3. lib.file[f] \in FileObject /\ f # NoFile
    BY <1>3, FilesystemAssumption DEF Library
  <2>. QED
    BY <2>1, <2>2, <2>3
<1>5. ws.cur # NoFile => ws.cur \in File /\ disk[ws.cur] # Absent
  BY <1>1, <1>3 DEF WorkingSet, FileKey, WorkExists
<1>6. \A f \in ws.files : f \in File /\ disk[f] # Absent
  <2>1. \A f \in ws.files : f \in File
    BY <1>3 DEF WorkingSet
  <2>. QED
    BY <1>1, <1>4, <2>1 DEF WorkExists
<1>. QED
  BY <1>2, <1>3, <1>4, <1>5, <1>6

\* With no part of the current file left, a file was not asked for or is sent.
LEMMA RestIsSent ==
  ASSUME TypeOK, Indexed, Settled, ~CurFileHasParts(ws, lib), NEW f \in File, disk[f] # Absent
  PROVE  /\ ReadsFile(f)
         /\ \/ Fresh(f) /\ ws.cur # f /\ f \in Rest.files
            \/ f \notin Rest.files /\ lib.file[f].np = {} /\ sDisk[f] = disk[f]
<1>1. /\ Rest.files = ws.files \ {ws.cur} /\ f # NoFile
      /\ disk[f] \in Content /\ Len(disk[f]) \in Nat
  BY FileFacts
<1>2. ReadsFile(f) /\ ((Fresh(f) /\ ws.cur # f) \/ Sent(f) \/ Done(f))
  BY DEF Settled
<1>3. CASE Fresh(f) /\ ws.cur # f
  BY <1>1, <1>2, <1>3 DEF Fresh
<1>4. CASE Done(f)
  BY <1>1, <1>2, <1>4 DEF Done
<1>5. CASE Sent(f)
  <2>1. ws.cur = f /\ lib.file[f].np = {}
    BY <1>1, <1>5 DEF Sent, CurFileHasParts
  <2>2. PICK k \in 0..Len(disk[f]) : lib.file[f].np = k..(Len(disk[f]) - 1) /\ Written(f, k)
    BY <1>5 DEF Sent, Left
  <2>3. k = Len(disk[f])
    <3>1. k < Len(disk[f]) => k \in k..(Len(disk[f]) - 1)
      BY <1>1
    <3>2. k..(Len(disk[f]) - 1) = {}
      BY <2>1, <2>2
    <3>3. ~(k < Len(disk[f]))
      BY <3>1, <3>2
    <3>. QED
      BY <1>1, <3>3
  <2>4. sDisk[f] = disk[f]
    BY <1>1, <2>2, <2>3, FirstPartsFacts DEF Written
  <2>. QED
    BY <1>1, <1>2, <2>1, <2>4
<1>. QED
  BY <1>2, <1>3, <1>4, <1>5

\* The next part of the current file leaves.
LEMMA PartMirrors ==
  ASSUME TypeOK, Indexed, Settled, UNCHANGED <<disk, dirs, sessions, fsServerVars>>, down' = <<>>,
         NEW out, NEW sq, SendsPart(out, sq)
  PROVE  Mirrors'
<1>. PICK f : f = ws.cur
  OBVIOUS
<1>. DEFINE o == lib.file[f]
            n == Len(disk[f])
<1>0. UNCHANGED <<sDisk, sDirs, sLast>> /\ Writing' = Writing /\ DOMAIN down' = {}
  BY DEF fsServerVars, Writing
<1>1. f \in File /\ f # NoFile /\ disk[f] # Absent /\ disk[f] \in Content /\ n \in Nat
      /\ o \in FileObject /\ lib \in Library /\ ws \in WorkingSet /\ o.np # {}
  BY FileFacts DEF SendsPart, CurFileHasParts
<1>2. Sent(f) /\ ReadsFile(f)
  BY <1>1 DEF Settled, Done
<1>3. PICK k \in 0..n : o.np = k..(n - 1) /\ (k < n => f \in ws.files) /\ Written(f, k)
  BY <1>2 DEF Sent, Left
<1>4. k \in o.np /\ k < n /\ k \in Nat /\ f \in ws.files
  BY <1>1, <1>3
<1>5. PICK p \in o.np, fd \in [open : BOOLEAN, data : Content, pos : 0..MaxParts] :
        /\ \A j \in o.np : p <= j
        /\ fd.open => fd.data = IF o.fd.open THEN o.fd.data ELSE disk[f]
        /\ SendAndWait("awaitingAck", Ticking, <<>>, out, sq,
             FileTransfer(sq, p, IF p < o.size
                                 THEN PartOf(IF o.fd.open THEN o.fd.data ELSE disk[f], p, Garbage)
                                 ELSE Hole))
        /\ lib' = [lib EXCEPT !.file[f] = [o EXCEPT !.fd = fd, !.np = @ \ {p}]]
        /\ ws' = IF o.np = {p} THEN [ws EXCEPT !.files = @ \ {f}] ELSE ws
  BY DEF SendsPart
<1>6. p = k /\ fd.open => fd.data = disk[f]
  BY <1>2, <1>3, <1>4, <1>5 DEF ReadsFile
<1>7. p = k
  BY <1>1, <1>3, <1>4, <1>5
<1>8. (IF p < o.size THEN PartOf(IF o.fd.open THEN o.fd.data ELSE disk[f], p, Garbage) ELSE Hole)
        = disk[f][k + 1]
  BY <1>2, <1>4, <1>7 DEF ReadsFile, PartOf
<1>. DEFINE msg == FileTransfer(sq, k, disk[f][k + 1])
<1>9. SendAndWait("awaitingAck", Ticking, <<>>, out, sq, msg)
  BY <1>5, <1>7, <1>8
<1>10. cState' = "awaitingAck" /\ cQueue' = PushSendMessage(<<>>, sq, msg)
  BY <1>9 DEF SendAndWait
<1>11. Asked' = msg
  BY <1>10, OneEntry DEF Asked
<1>12. Asked'.type = "FileTransfer" /\ Asked'.part = k /\ Asked'.data = disk[f][k + 1]
  BY <1>11 DEF FileTransfer
<1>13. /\ lib'.file[f].np = o.np \ {k} /\ lib'.file[f].fd = fd /\ lib'.file[f].size = o.size
       /\ lib'.folders = lib.folders
       /\ \A g \in File : g # f => lib'.file[g] = lib.file[g]
  <2>1. lib.file \in [File -> FileObject]
    BY <1>1 DEF Library
  <2>2. lib'.file = [lib.file EXCEPT ![f] = [o EXCEPT !.fd = fd, !.np = @ \ {p}]]
        /\ lib'.folders = lib.folders
    BY <1>1, <1>5 DEF Library
  <2>. QED
    BY <1>1, <1>7, <2>1, <2>2 DEF FileObject
<1>14. /\ ws'.cur = f
       /\ ws'.files = IF o.np = {k} THEN ws.files \ {f} ELSE ws.files
  BY <1>1, <1>5, <1>7 DEF WorkingSet
<1>. HIDE DEF msg, o
<1>15. Sending(f)'
  <2>1. k + 1 \in 0..n /\ (k + 1)..(n - 1) = o.np \ {k} /\ (k + 1) - 1 = k /\ k + 1 # 0
    BY <1>1, <1>3, <1>4
  <2>2. k + 1 < n => f \in ws'.files
    <3>1. k + 1 < n => k + 1 \in o.np
      BY <1>1, <1>3, <1>4
    <3>. QED
      BY <1>4, <1>14, <3>1
  <2>3. Left(f, k + 1)'
    BY <1>13, <2>1, <2>2 DEF Left
  <2>4. AsksFor(f, k + 1)'
    BY <1>4, <1>12, <2>1 DEF AsksFor
  <2>5. Written(f, (k + 1) - 1)'
    BY <1>0, <1>3, <2>1 DEF Written
  <2>. QED
    BY <1>10, <1>14, <2>1, <2>3, <2>4, <2>5 DEF Sending
<1>16. ReadsFile(f)'
  BY <1>2, <1>6, <1>7, <1>13 DEF ReadsFile, o
<1>17. ASSUME NEW g \in File PROVE FileIsSent(g)'
  <2>1. CASE g = f
    BY <1>1, <1>15, <1>16, <2>1 DEF FileIsSent
  <2>2. CASE g # f /\ disk[g] # Absent
    <3>1. ReadsFile(g) /\ (Fresh(g) \/ Done(g))
      BY <2>2 DEF Settled, Sent
    <3>2. ReadsFile(g)' /\ (Fresh(g) => Fresh(g)') /\ (Done(g) => Done(g)')
      BY <1>0, <1>13, <1>14, <2>2, <3>1 DEF ReadsFile, Fresh, Done
    <3>. QED
      BY <2>2, <3>1, <3>2 DEF FileIsSent
  <2>3. CASE g # f /\ disk[g] = Absent
    BY <1>0, <2>3 DEF Settled, FileIsSent
  <2>. QED
    BY <2>1, <2>2, <2>3
<1>18. dirs \subseteq sDirs /\ sDirs \subseteq dirs
  BY <1>1 DEF Settled
<1>. QED
  BY <1>0, <1>1, <1>14, <1>17, <1>18 DEF Mirrors, FolderIsSent

\* No file is asked for: what is not sent was not touched.
LEMMA NoFileMirrors ==
  ASSUME TypeOK, Indexed, Settled, UNCHANGED <<disk, dirs, sessions, fsServerVars>>,
         ~CurFileHasParts(ws, lib), lib'.file = lib.file, ws'.files = Rest.files,
         ws'.cur = NoFile \/ (ws'.cur \in Rest.files /\ cState' = "reqestedFileStatus"),
         NEW f \in File
  PROVE  FileIsSent(f)'
<1>1. UNCHANGED <<sDisk, sDirs, sLast>> /\ Writing' = Writing
  BY DEF fsServerVars, Writing
<1>2. CASE disk[f] = Absent
  BY <1>1, <1>2 DEF Settled, FileIsSent
<1>3. CASE disk[f] # Absent
  <2>1. ReadsFile(f) /\ f # NoFile
    BY <1>3, RestIsSent, FileFacts
  <2>2. ReadsFile(f)'
    BY <2>1 DEF ReadsFile
  <2>3. CASE Fresh(f) /\ ws.cur # f /\ f \in Rest.files
    <3>1. Fresh(f)'
      BY <1>1, <2>1, <2>3 DEF Fresh
    <3>. QED
      BY <1>3, <2>2, <3>1 DEF FileIsSent
  <2>4. CASE f \notin Rest.files /\ lib.file[f].np = {} /\ sDisk[f] = disk[f]
    <3>1. Done(f)'
      BY <1>1, <2>1, <2>4 DEF Done
    <3>. QED
      BY <1>3, <2>2, <3>1 DEF FileIsSent
  <2>. QED
    BY <1>3, <2>3, <2>4, RestIsSent
<1>. QED
  BY <1>2, <1>3

\* The creation of a folder leaves.
LEMMA FolderMirrors ==
  ASSUME TypeOK, Indexed, Settled, UNCHANGED <<disk, dirs, sessions, fsServerVars>>, down' = <<>>,
         NEW out, NEW sq, SendsFolder(out, sq)
  PROVE  Mirrors'
<1>0. UNCHANGED <<sDisk, sDirs, sLast>> /\ Writing' = Writing /\ DOMAIN down' = {}
  BY DEF fsServerVars, Writing
<1>1. PICK i \in PendingFolders(lib) :
        /\ SendAndWait("awaitingAck", Ticking, <<>>, out, sq,
                       FileCreation(sq, "ft_folder", lib.folders[i].path))
        /\ lib' = [lib EXCEPT !.folders[i] = [@ EXCEPT !.created = TRUE, !.pending = FALSE]]
        /\ ws' = Rest
  BY DEF SendsFolder
<1>. DEFINE path == lib.folders[i].path
            msg == FileCreation(sq, "ft_folder", path)
<1>2. /\ lib \in Library /\ i \in DOMAIN lib.folders
      /\ Rest.cur = NoFile /\ ~CurFileHasParts(ws, lib)
      /\ path \in dirs \cup {Root}
  BY FileFacts DEF PendingFolders, SendsFolder, Indexed, FoldersAreListed
<1>3. cState' = "awaitingAck" /\ cQueue' = PushSendMessage(<<>>, sq, msg)
  BY <1>1 DEF SendAndWait
<1>4. Asked' = msg
  BY <1>3, OneEntry DEF Asked
<1>5. Asked'.type = "FileCreation" /\ Asked'.kind = "ft_folder" /\ Asked'.fid = path
  BY <1>4 DEF FileCreation
<1>6. /\ lib'.file = lib.file /\ DOMAIN lib'.folders = DOMAIN lib.folders
      /\ \A j \in DOMAIN lib.folders : j # i => lib'.folders[j] = lib.folders[j]
  <2>1. lib'.file = lib.file
        /\ lib'.folders = [lib.folders EXCEPT ![i] = [@ EXCEPT !.created = TRUE, !.pending = FALSE]]
    BY <1>1, <1>2 DEF Library
  <2>. QED
    BY <1>2, <2>1
<1>. HIDE DEF msg, path
<1>7. \A f \in File : FileIsSent(f)'
  BY <1>1, <1>2, <1>6, NoFileMirrors
<1>8. AsksForFolder'
  BY <1>3, <1>5 DEF AsksForFolder
<1>9. ASSUME NEW d \in dirs PROVE FolderIsSent(d)'
  <2>1. d \in sDirs \/ IsPending(d)
    BY DEF Settled
  <2>2. IsPending(d) => IsPending(d)' \/ d = path
    BY <1>6 DEF IsPending, path
  <2>. QED
    BY <1>0, <1>5, <1>8, <2>1, <2>2 DEF FolderIsSent
<1>10. ws'.cur = NoFile
  BY <1>1, <1>2
<1>11. /\ sDirs' \subseteq dirs'
       /\ (ws'.cur # NoFile \/ Writing' # NoFile) => dirs' \subseteq sDirs'
  BY <1>0, <1>10 DEF Settled
<1>. QED
  BY <1>0, <1>7, <1>8, <1>9, <1>11 DEF Mirrors

\* The deletion of a file leaves that does not exist.
LEMMA DeletionMirrors ==
  ASSUME TypeOK, Indexed, Settled, UNCHANGED <<disk, dirs, sessions, fsServerVars>>, down' = <<>>,
         NEW out, NEW sq, SendsDeletion(out, sq)
  PROVE  Mirrors'
<1>0. UNCHANGED <<sDisk, sDirs, sLast>> /\ Writing' = Writing /\ DOMAIN down' = {}
  BY DEF fsServerVars, Writing
<1>1. PICK f \in Rest.delFiles :
        /\ SendAndWait("awaitingAck", Ticking, <<>>, out, sq, FileCreation(sq, "ft_del_file", f))
        /\ ws' = [Rest EXCEPT !.delFiles = @ \ {f}]
        /\ lib' = lib
  BY DEF SendsDeletion
<1>2. Rest \in WorkingSet /\ Rest.cur = NoFile /\ ~CurFileHasParts(ws, lib)
  BY FileFacts DEF SendsDeletion
<1>3. ws'.files = Rest.files /\ ws'.cur = NoFile
  BY <1>1, <1>2 DEF WorkingSet
<1>. DEFINE msg == FileCreation(sq, "ft_del_file", f)
<1>4. cState' = "awaitingAck" /\ cQueue' = PushSendMessage(<<>>, sq, msg)
  BY <1>1 DEF SendAndWait
<1>5. Asked' = msg
  BY <1>4, OneEntry DEF Asked
<1>6. AsksForDeletion'
  BY <1>4, <1>5 DEF AsksForDeletion, FileCreation
<1>. HIDE DEF msg
<1>7. \A g \in File : FileIsSent(g)'
  BY <1>1, <1>2, <1>3, NoFileMirrors
<1>8. ASSUME NEW d \in dirs PROVE FolderIsSent(d)'
  <2>1. d \in sDirs \/ IsPending(d)
    BY DEF Settled
  <2>2. IsPending(d) => IsPending(d)'
    BY <1>1 DEF IsPending
  <2>. QED
    BY <1>0, <2>1, <2>2 DEF FolderIsSent
<1>9. /\ sDirs' \subseteq dirs'
      /\ (ws'.cur # NoFile \/ Writing' # NoFile) => dirs' \subseteq sDirs'
  BY <1>0, <1>3 DEF Settled
<1>. QED
  BY <1>0, <1>6, <1>7, <1>8, <1>9 DEF Mirrors

\* The last part the server has is asked for, or nothing more.
LEMMA StatusMirrors ==
  ASSUME TypeOK, Indexed, Settled, UNCHANGED <<disk, dirs, sessions, fsServerVars>>, down' = <<>>,
         NEW out, NEW sq, SendsStatus(out, sq) \/ SendsEnd(out, sq)
  PROVE  Mirrors'
<1>0. UNCHANGED <<sDisk, sDirs, sLast>> /\ Writing' = Writing /\ DOMAIN down' = {}
  BY DEF fsServerVars, Writing
<1>1. /\ Rest \in WorkingSet /\ Rest.cur = NoFile /\ ~CurFileHasParts(ws, lib)
      /\ PendingFolders(lib) = {} /\ lib' = lib
  BY FileFacts DEF SendsStatus, SendsEnd
<1>2. /\ cState' # "awaitingAck" /\ ws'.files = Rest.files
      /\ ws'.cur = NoFile \/ (ws'.cur \in Rest.files /\ cState' = "reqestedFileStatus")
  <2>1. CASE SendsStatus(out, sq)
    <3>1. PICK f \in Rest.files : cState' = "reqestedFileStatus" /\ ws' = [Rest EXCEPT !.cur = f]
      BY <2>1 DEF SendsStatus, SendAndWait
    <3>. QED
      BY <1>1, <3>1 DEF WorkingSet
  <2>2. CASE SendsEnd(out, sq)
    BY <2>2 DEF SendsEnd, EmptyWorkingSet
  <2>. QED
    BY <2>1, <2>2
<1>3. \A f \in File : FileIsSent(f)'
  BY <1>1, <1>2, NoFileMirrors
<1>4. dirs \subseteq sDirs /\ sDirs \subseteq dirs
  BY <1>1 DEF Settled, IsPending, PendingFolders
<1>. QED
  BY <1>0, <1>2, <1>3, <1>4 DEF Mirrors, FolderIsSent

\* The client goes on, whatever it sends next.
LEMMA GoesOnMirrors ==
  ASSUME TypeOK, Indexed, Settled, UNCHANGED <<disk, dirs, sessions, fsServerVars>>, down' = <<>>,
         NEW tm \in {NewTimer, Ticking}, NEW out, EnterSendingFS("consumer", tm, <<>>, out, cSeq)
  PROVE  Mirrors'
BY NextMessage, PartMirrors, DeletionMirrors, FolderMirrors, StatusMirrors DEF SendsSomething

\* A client that declares the transfer over has left nothing out.
LEMMA EndIsMirrored ==
  ASSUME TypeOK, Indexed, Settled, NEW out, NEW sq, SendsEnd(out, sq)
  PROVE  Mirrored
<1>1. ASSUME NEW f \in File PROVE sDisk[f] = disk[f]
  <2>1. CASE disk[f] = Absent
    BY <2>1 DEF Settled
  <2>2. CASE disk[f] # Absent
    BY <2>2, RestIsSent DEF SendsEnd
  <2>. QED
    BY <2>1, <2>2
<1>2. sDirs = dirs
  BY DEF Settled, SendsEnd, IsPending, PendingFolders
<1>. QED
  BY <1>1, <1>2 DEF Mirrored

\* A client that waits for the answer under way has been heard.
LEMMA AnsweredIsSettled ==
  ASSUME Mirrors, down # <<>> \/ cState # "awaitingAck", ws.cur = NoFile \/ cState = "awaitingAck"
  PROVE  Settled
<1>1. ASSUME NEW f \in File, disk[f] # Absent
      PROVE  ReadsFile(f) /\ ((Fresh(f) /\ ws.cur # f) \/ Sent(f) \/ Done(f))
  <2>1. ReadsFile(f) /\ (Fresh(f) \/ Sending(f) \/ Done(f))
    BY <1>1 DEF Mirrors, FileIsSent
  <2>2. Fresh(f) => ws.cur # f
    BY <1>1, FilesystemAssumption DEF Fresh
  <2>3. Sending(f) => Sent(f)
    BY DEF Sending, Sent
  <2>. QED
    BY <2>1, <2>2, <2>3
<1>2. \A f \in File : disk[f] = Absent => sDisk[f] = Absent
  BY DEF Mirrors, FileIsSent
<1>3. \A d \in dirs : d \in sDirs \/ IsPending(d)
  BY DEF Mirrors, FolderIsSent, AsksForFolder
<1>. QED
  BY <1>1, <1>2, <1>3 DEF Settled, Mirrors

-----------------------------------------------------------------------------
(* The server acts on what is asked for.                                   *)

\* The client waits for an acknowledgement that is about its current file.
LEMMA AskedFile ==
  ASSUME TypeOK, Indexed, Mirrors, cState = "awaitingAck", ~AsksForFolder, ~AsksForDeletion
  PROVE  /\ ws.cur \in File /\ ws.cur # NoFile /\ disk[ws.cur] # Absent /\ disk[ws.cur] \in Content
         /\ ReadsFile(ws.cur) /\ Sending(ws.cur)
         /\ dirs \subseteq sDirs
<1>1. ws.cur # NoFile /\ dirs \subseteq sDirs
  BY DEF Mirrors
<1>2. ws.cur \in File /\ disk[ws.cur] # Absent /\ disk[ws.cur] \in Content
  BY <1>1, FileFacts
<1>3. ReadsFile(ws.cur) /\ Sending(ws.cur)
  <2>1. FileIsSent(ws.cur)
    BY <1>2 DEF Mirrors
  <2>. QED
    BY <1>2, <2>1 DEF FileIsSent, Fresh, Done
<1>. QED
  BY <1>1, <1>2, <1>3

\* The server has what it was asked to write, and answers.
LEMMA FileIsWritten ==
  ASSUME TypeOK, Indexed, Mirrors, UNCHANGED <<clientVars, fsClientVars, sDirs>>,
         cState = "awaitingAck", NEW f \in File, f = ws.cur, f # NoFile, disk[f] # Absent,
         NEW k \in 0..Len(disk[f]), Left(f, k), AsksFor(f, k), Written(f, k)',
         \A g \in File : g # f => sDisk'[g] = sDisk[g] /\ sLast'[g] = sLast[g],
         \A i \in DOMAIN down' : down'[i].type # "FileStatus"
  PROVE  Mirrors'
<1>1. UNCHANGED <<disk, dirs, lib, ws, cState, cQueue>>
  BY DEF clientVars, fsClientVars
<1>2. ReadsFile(f) /\ dirs \subseteq sDirs /\ sDirs \subseteq dirs
  BY DEF Mirrors, FileIsSent
<1>3. ReadsFile(f)' /\ Sending(f)'
  BY <1>1, <1>2 DEF ReadsFile, Sending, Left, AsksFor, Asked
<1>4. ASSUME NEW g \in File PROVE FileIsSent(g)'
  <2>1. CASE g = f
    BY <1>1, <1>3, <2>1 DEF FileIsSent
  <2>2. CASE g # f
    <3>1. FileIsSent(g) /\ ~Sending(g)
      BY <2>2 DEF Mirrors, Sending
    <3>2. Writing' # g
      BY <2>2 DEF Written
    <3>3. /\ ReadsFile(g) => ReadsFile(g)'
          /\ Fresh(g) => Fresh(g)'
          /\ Done(g) => Done(g)'
      BY <1>1, <2>2, <3>2 DEF ReadsFile, Fresh, Done
    <3>. QED
      BY <1>1, <2>2, <3>1, <3>3 DEF FileIsSent
  <2>. QED
    BY <2>1, <2>2
<1>. QED
  BY <1>1, <1>2, <1>4 DEF Mirrors, FolderIsSent

\* The server acts on a file message of a client that waits.
LEMMA FileMessageMirrors ==
  ASSUME TypeOK, Calm, Talking, Mirrors, UNCHANGED <<clientVars, fsClientVars>>,
         InFolders, garbled = 0,
         OneFileMessage, NEW m \in UpMessage, m = Asked, IsCalm(m), SessionReceive(m),
         \A i \in DOMAIN down' : down'[i].type # "FileStatus"
  PROVE  Mirrors'
<1>. DEFINE s == sessions[1]
<1>1. /\ cState = "awaitingAck" /\ m.type \in {"FileCreation", "FileTransfer"} /\ Indexed
      /\ m.to = 1 /\ FitsDirectory(m, disk, dirs)
  BY DEF OneFileMessage, Asked, Talking, IsCalm, IsHarmless
<1>2. /\ s \in SessionRecord /\ 1 \in ClientId /\ Active(1) /\ Writing = s.cur
      /\ sessions \in [ClientId -> SessionRecord \cup {NoSession}] /\ FsServerTypeOK
  BY TalkingFacts, ServerFacts DEF Writing, Calm
<1>3. UNCHANGED <<disk, dirs, lib, ws, cState, cQueue>> /\ Asked' = Asked
  BY DEF clientVars, fsClientVars, Asked
<1>4. CASE AsksForFolder
  <2>1. OnFileCreation(1, m) /\ m.kind = "ft_folder"
    BY <1>1, <1>2, <1>4 DEF SessionReceive, AsksForFolder
  <2>2. m.fid \in dirs \cup {Root} /\ m.fid # BadPath
    <3>1. m.fid \in dirs \cup {Root}
      BY <1>1, <1>4 DEF AsksForFolder, FitsDirectory
    <3>2. dirs \subseteq Folder
      BY DEF TypeOK, FilesTypeOK
    <3>. QED
      BY <3>1, <3>2, FilesystemAssumption DEF Path
  <2>3. /\ GenFolder(m.fid) /\ sessions' = sessions
        /\ UNCHANGED <<sDisk, sLast>> /\ Writing' = Writing
    <3>1. GenFolder(m.fid) /\ sessions' = sessions
      BY <2>1, <2>2 DEF OnFileCreation, CarryOut
    <3>. QED
      BY <3>1 DEF GenFolder, Writing
  <2>4. /\ sDirs \subseteq sDirs' /\ sDirs' \subseteq dirs
        /\ m.fid \in Folder => m.fid \in sDirs'
    <3>1. sDirs \subseteq dirs
      BY DEF Mirrors
    <3>2. m.fid \in Folder => m.fid \in dirs /\ Above[m.fid] \subseteq dirs
      BY <2>2, FilesystemAssumption DEF InFolders
    <3>. QED
      BY <2>3, <3>1, <3>2 DEF GenFolder
  <2>5. ASSUME NEW f \in File PROVE FileIsSent(f)'
    <3>1. FileIsSent(f)
      BY DEF Mirrors
    <3>2. ~Sending(f)
      BY <1>4 DEF Sending, AsksFor, AsksForFolder
    <3>3. /\ ReadsFile(f) => ReadsFile(f)'
          /\ Fresh(f) => Fresh(f)'
          /\ Done(f) => Done(f)'
      BY <1>3, <2>3 DEF ReadsFile, Fresh, Done
    <3>. QED
      BY <1>3, <2>3, <3>1, <3>2, <3>3 DEF FileIsSent
  <2>6. ASSUME NEW d \in dirs PROVE FolderIsSent(d)'
    <3>1. d \in Folder
      BY DEF TypeOK, FilesTypeOK
    <3>2. FolderIsSent(d)
      BY DEF Mirrors
    <3>3. IsPending(d) => IsPending(d)'
      BY <1>3 DEF IsPending
    <3>. QED
      BY <2>4, <3>1, <3>2, <3>3 DEF FolderIsSent
  <2>7. sDirs' \subseteq dirs /\ ((ws.cur # NoFile \/ Writing # NoFile) => dirs \subseteq sDirs')
    BY <2>4 DEF Mirrors
  <2>8. AsksForFolder'
    BY <1>3, <1>4 DEF AsksForFolder
  <2>. QED
    BY <1>3, <2>3, <2>5, <2>6, <2>7, <2>8 DEF Mirrors
<1>6. CASE AsksForDeletion
  <2>1. OnFileCreation(1, m) /\ m.kind = "ft_del_file" /\ m.fid \in File /\ disk[m.fid] = Absent
    BY <1>1, <1>2, <1>6 DEF SessionReceive, AsksForDeletion, FitsDirectory
  <2>2. DelFile(m.fid) /\ sessions' = sessions
    <3>1. m.fid # BadPath /\ m.fid \notin Folder
      BY <2>1, FilesystemAssumption DEF Path
    <3>. QED
      BY <2>1, <3>1 DEF OnFileCreation, CarryOut
  <2>3. sDisk[m.fid] = Absent
    BY <2>1 DEF Mirrors, FileIsSent
  <2>4. UNCHANGED <<sDisk, sDirs, sLast>> /\ Writing' = Writing
    BY <1>2, <2>1, <2>2, <2>3 DEF DelFile, Writing, FsServerTypeOK
  <2>5. ASSUME NEW f \in File PROVE FileIsSent(f)'
    <3>1. FileIsSent(f)
      BY DEF Mirrors
    <3>2. ~Sending(f)
      BY <1>6 DEF Sending, AsksFor, AsksForDeletion
    <3>3. /\ ReadsFile(f) => ReadsFile(f)'
          /\ Fresh(f) => Fresh(f)'
          /\ Done(f) => Done(f)'
      BY <1>3, <2>4 DEF ReadsFile, Fresh, Done
    <3>. QED
      BY <1>3, <2>4, <3>1, <3>2, <3>3 DEF FileIsSent
  <2>6. ASSUME NEW d \in dirs PROVE FolderIsSent(d)'
    <3>1. FolderIsSent(d) /\ ~AsksForFolder
      BY <1>6 DEF Mirrors, AsksForFolder, AsksForDeletion
    <3>2. IsPending(d) => IsPending(d)'
      BY <1>3 DEF IsPending
    <3>. QED
      BY <2>4, <3>1, <3>2 DEF FolderIsSent
  <2>7. AsksForDeletion'
    BY <1>3, <1>6 DEF AsksForDeletion
  <2>. QED
    BY <1>3, <2>4, <2>5, <2>6, <2>7 DEF Mirrors
<1>5. CASE ~AsksForFolder /\ ~AsksForDeletion
  <2>1. PICK f : f = ws.cur
    OBVIOUS
  <2>2. /\ f \in File /\ f # NoFile /\ disk[f] # Absent /\ disk[f] \in Content
        /\ Sending(f) /\ dirs \subseteq sDirs
    BY <1>1, <1>5, <2>1, AskedFile
  <2>3. PICK k \in 0..Len(disk[f]) :
          /\ Left(f, k)
          /\ AsksFor(f, k)
          /\ Written(f, k) \/ (down = <<>> /\ (k > 0 => Written(f, k - 1)))
    BY <2>2 DEF Sending
  <2>4. /\ FirstParts(disk[f], k) # Absent /\ FirstParts(disk[f], 0) = <<>>
        /\ k > 0 => /\ disk[f][k] # Hole
                    /\ WithPart(FirstParts(disk[f], k), k - 1, disk[f][k]) = FirstParts(disk[f], k)
                    /\ WithPart(FirstParts(disk[f], k - 1), k - 1, disk[f][k])
                         = FirstParts(disk[f], k)
    BY <2>2, FirstPartsFacts
  <2>5. CASE k = 0
    <3>1. m.type = "FileCreation" /\ m.kind = "ft_file" /\ m.fid = f
      BY <2>3, <2>5 DEF AsksFor
    <3>2. OnFileCreation(1, m)
      BY <1>1, <1>2, <3>1 DEF SessionReceive
    <3>3. GenFile(f) /\ sessions' = [sessions EXCEPT ![1].cur = f]
      <4>1. f # BadPath
        BY <2>2, FilesystemAssumption
      <4>. QED
        BY <3>1, <3>2, <4>1 DEF OnFileCreation, CarryOut
    <3>4. Above[f] \subseteq sDirs
      BY <2>2 DEF InFolders
    <3>5. sDisk' = [sDisk EXCEPT ![f] = <<>>] /\ UNCHANGED <<sDirs, sLast>>
      BY <2>2, <3>3, <3>4 DEF GenFile
    <3>6. sDisk'[f] = <<>> /\ \A g \in File : g # f => sDisk'[g] = sDisk[g]
      BY <1>2, <2>2, <3>5 DEF FsServerTypeOK
    <3>7. Writing' = f
      <4>. DEFINE t == [s EXCEPT !.cur = f]
      <4>1. t \in SessionRecord /\ t.cur = f
        BY <1>2, <2>2 DEF SessionRecord, FileKey
      <4>2. sessions'[1] = t
        BY <1>2, <3>3
      <4>. HIDE DEF t
      <4>. QED
        BY <4>1, <4>2, NoSessionAssumption DEF Writing
    <3>8. Written(f, k)'
      BY <1>3, <2>4, <2>5, <3>6, <3>7 DEF Written
    <3>. QED
      BY <1>1, <2>1, <2>2, <2>3, <3>5, <3>6, <3>8, FileIsWritten
  <2>6. CASE k # 0
    <3>1. m.type = "FileTransfer" /\ m.part = k - 1 /\ m.data = disk[f][k] /\ k > 0
      BY <2>3, <2>6 DEF AsksFor
    <3>2. OnFileTransfer(1, m)
      BY <1>1, <1>2, <3>1 DEF SessionReceive
    <3>3. s.cur = f /\ sDisk[f] \in {FirstParts(disk[f], k), FirstParts(disk[f], k - 1)}
      BY <1>2, <2>3, <3>1 DEF Written
    <3>4. sDisk[f] # Absent
      <4>1. k - 1 \in 0..Len(disk[f])
        BY <3>1
      <4>2. FirstParts(disk[f], k - 1) # Absent
        BY <2>2, <4>1, FirstPartsFacts
      <4>. QED
        BY <2>4, <3>3, <4>2
    <3>5. /\ sDisk' = [sDisk EXCEPT ![f] = WithPart(@, k - 1, disk[f][k])]
          /\ sLast' = [sLast EXCEPT ![f] = IF @ + 1 = k - 1 THEN k - 1 ELSE @]
          /\ UNCHANGED <<sDirs, sessions>>
      BY <2>2, <3>1, <3>2, <3>3, <3>4 DEF OnFileTransfer, WriteFilePart
    <3>6. /\ sDisk'[f] = FirstParts(disk[f], k)
          /\ \A g \in File : g # f => sDisk'[g] = sDisk[g] /\ sLast'[g] = sLast[g]
      BY <1>2, <2>2, <2>4, <3>1, <3>3, <3>5 DEF FsServerTypeOK
    <3>7. Written(f, k)'
      BY <1>2, <1>3, <3>3, <3>5, <3>6 DEF Written, Writing
    <3>. QED
      BY <1>1, <2>1, <2>2, <2>3, <3>5, <3>6, <3>7, FileIsWritten
  <2>. QED
    BY <2>5, <2>6
<1>. QED
  BY <1>4, <1>5, <1>6

-----------------------------------------------------------------------------
(* The session keeps the file it writes to.                                *)

\* A session that is replaced by one with the same file, or is gone.
KeepsFile ==
  /\ UNCHANGED fsServerVars
  /\ Writing' = Writing \/ (sessions'[1] = NoSession /\ Writing' = NoFile)

\* One session is replaced.
LEMMA ReplacedKeepsFile ==
  ASSUME TypeOK, UNCHANGED fsServerVars, sessions[1] # NoSession, NEW s, s.cur = sessions[1].cur,
         sessions' = [sessions EXCEPT ![1] = s]
  PROVE  KeepsFile
<1>1. sessions'[1] = s
  BY ServerFacts, ClientIds
<1>. QED
  BY <1>1 DEF KeepsFile, Writing

\* A tick of a session and the cleanup touch no file.
LEMMA TicksKeepFile ==
  ASSUME FirstSync, TypeOK, Calm, SessionTicks \/ CleansUp
  PROVE  KeepsFile
<1>1. CASE SessionTicks
  <2>1. PICK id \in ClientId : SessionTick(id)
    BY <1>1 DEF SessionTicks
  <2>. DEFINE s == sessions[1]
  <2>2. id = 1 /\ s # NoSession /\ s \in SessionRecord /\ ~s.todo
    BY <2>1, ServerFacts DEF SessionTick, Active, Calm
  <2>3. CASE TickIdle(1)
    <3>. DEFINE t == [s EXCEPT !.state = "fsc_ping"]
    <3>1. sessions' = [sessions EXCEPT ![1] = t] /\ UNCHANGED fsServerVars
      BY <2>2, <2>3, ServerFacts DEF TickIdle
    <3>2. t.cur = s.cur
      BY <2>2 DEF SessionRecord
    <3>. HIDE DEF t
    <3>. QED
      BY <2>2, <3>1, <3>2, ReplacedKeepsFile
  <2>4. CASE TickAwaitingClient(1)
    <3>1. PICK t \in {[s EXCEPT !.state = "fsc_error", !.queue = <<>>],
                      [s EXCEPT !.queue = RequeueOldest(@)]} :
            sessions' = [sessions EXCEPT ![1] = t] /\ UNCHANGED fsServerVars
      BY <2>4 DEF TickAwaitingClient
    <3>2. t.cur = s.cur
      BY <2>2, <3>1 DEF SessionRecord
    <3>. QED
      BY <2>2, <3>1, <3>2, ReplacedKeepsFile
  <2>. QED
    BY <2>1, <2>2, <2>3, <2>4 DEF SessionTick, TickSendingChanges
<1>2. CASE CleansUp
  <2>1. PICK id \in ClientId : Cleanup(id)
    BY <1>2 DEF CleansUp
  <2>2. sessions' = [sessions EXCEPT ![1] = NoSession] /\ UNCHANGED fsServerVars
    BY <2>1 DEF Cleanup, Calm
  <2>3. sessions'[1] = NoSession
    BY <2>2, ServerFacts, ClientIds
  <2>. QED
    BY <2>2, <2>3 DEF KeepsFile, Writing
<1>. QED
  BY <1>1, <1>2

\* Nor does a datagram that asks for nothing.
LEMMA NoticeKeepsFile ==
  ASSUME TypeOK, Calm, NEW m \in UpMessage, m.type \notin RequestTypes, IsCalm(m), ServerReceive(m),
         m.type = "ClientHello" => Quiet
  PROVE  KeepsFile
<1>. DEFINE s == sessions[1]
<1>1. CASE UNCHANGED <<serverVars, down>>
  BY <1>1 DEF serverVars, fsServerVars, KeepsFile, Writing
<1>2. CASE m.type = "ClientHello" /\ serverUp
  <2>1. m.id = 1 /\ 1 \in ClientId /\ sessions[1] = NoSession
    <3>1. m.id = 1 /\ 1 \in ClientId
      BY <1>2, ClientIds DEF IsCalm, ClientHello, Calm
    <3>. QED
      BY <1>2, <3>1 DEF Quiet
  <2>2. OnClientHello(m)
    BY <1>2 DEF ServerReceive
  <2>3. sessions' = [sessions EXCEPT ![1] = NewSession(m)] /\ UNCHANGED fsServerVars
    BY <2>1, <2>2 DEF OnClientHello
  <2>4. sessions'[1] = NewSession(m)
    BY <2>1, <2>3, ServerFacts
  <2>. QED
    BY <2>1, <2>3, <2>4 DEF KeepsFile, Writing, NewSession
<1>3. CASE m.type # "ClientHello" /\ Active(1)
  <2>1. m.to = 1 /\ SessionReceive(m) /\ s # NoSession /\ s \in SessionRecord
    BY <1>3, ServerFacts, ClientIds DEF IsCalm, IsHarmless, ServerReceive, Active
  <2>2. CASE m.type = "AuthRequest" /\ IsQueued(s.queue, m.seq)
    <3>. DEFINE ok == m.pw = Password
                q == OnSequenceNumberAck(s.queue, m.seq)
                t == IF ok THEN [s EXCEPT !.state = "fsc_awaitServerAuthAck",
                                   !.queue = PushSendMessage(q, m.seq, AuthResult(m.seq, s.dst, ok))]
                     ELSE [s EXCEPT !.state = "fsc_error", !.queue = <<>>]
    <3>1. OnAuthRequest(1, m)
      BY <1>3, <2>1, <2>2 DEF SessionReceive
    <3>2. sessions' = [sessions EXCEPT ![1] = t] /\ UNCHANGED fsServerVars
      BY <2>2, <3>1 DEF OnAuthRequest
    <3>3. t.cur = s.cur
      BY <2>1 DEF SessionRecord
    <3>. HIDE DEF t
    <3>. QED
      BY <2>1, <3>2, <3>3, ReplacedKeepsFile
  <2>3. CASE m.type = "Ack" /\ IsQueued(s.queue, m.seq)
    <3>. DEFINE q == OnSequenceNumberAck(s.queue, m.seq)
                t == [s EXCEPT !.queue = q,
                        !.state = IF @ = "fsc_awaitServerAuthAck" THEN "fsc_connected" ELSE @]
    <3>1. OnClientAck(1, m)
      BY <1>3, <2>1, <2>3 DEF SessionReceive
    <3>2. sessions' = [sessions EXCEPT ![1] = t] /\ UNCHANGED fsServerVars
      BY <2>3, <3>1 DEF OnClientAck
    <3>3. t.cur = s.cur
      BY <2>1 DEF SessionRecord
    <3>. HIDE DEF t
    <3>. QED
      BY <2>1, <3>2, <3>3, ReplacedKeepsFile
  <2>. QED
    BY <1>1, <1>3, <2>1, <2>2, <2>3
       DEF SessionReceive, OnAuthRequest, OnClientAck, OnTransferEnded, RequestTypes
<1>4. CASE m.type # "ClientHello" /\ ~Active(1)
  <2>1. m.to = 1
    BY <1>4 DEF IsCalm, IsHarmless
  <2>. QED
    BY <1>1, <1>4, <2>1 DEF ServerReceive, SessionReceive
<1>5. CASE m.type = "ClientHello" /\ ~serverUp
  BY <1>1, <1>5 DEF ServerReceive
<1>. QED
  BY <1>2, <1>3, <1>4, <1>5

-----------------------------------------------------------------------------
(* The phases before the client is logged in.                              *)

\* The first indexing finds everything, and nothing of it was sent.
LEMMA BeforeMirrors ==
  ASSUME FirstSync, TypeOK, Calm, Before, Mirroring, Next
  PROVE  Mirrors'
<1>. DEFINE found == Index(EmptyLibrary, disk, dirs)
<1>1. /\ cState' = "sendClientHello" /\ down' = <<>>
      /\ ws' = found.ws /\ lib' = found.lib
      /\ UNCHANGED <<disk, dirs>> /\ UNCHANGED serverVars
  BY FirstConnect
<1>2. sDisk = [f \in File |-> Absent] /\ sDirs = {} /\ sLast = [f \in File |-> 0]
  BY DEF Mirroring, Before
<1>3. UNCHANGED <<sDisk, sDirs, sLast, sessions>>
  BY <1>1 DEF serverVars, fsServerVars
<1>4. Writing' = NoFile
  <2>1. sessions[1] = NoSession
    BY ClientIds DEF Before, Quiet
  <2>. QED
    BY <1>3, <2>1 DEF Writing
<1>5. /\ found.ws.cur = NoFile
      /\ found.ws.files = {f \in File : disk[f] # Absent}
      /\ \A f \in File : disk[f] # Absent => found.lib.file[f] = NewObject(disk[f])
      /\ \A d \in dirs : \E i \in DOMAIN found.lib.folders :
           found.lib.folders[i].pending /\ found.lib.folders[i].path = d
  BY FirstIndex DEF TypeOK
<1>. HIDE DEF found
<1>6. ASSUME NEW f \in File PROVE FileIsSent(f)'
  <2>1. CASE disk[f] = Absent
    BY <1>1, <1>2, <1>3, <2>1 DEF FileIsSent
  <2>2. CASE disk[f] # Absent
    <3>1. lib'.file[f] = NewObject(disk[f]) /\ f \in ws'.files /\ ws'.cur = NoFile /\ f # NoFile
      BY <1>1, <1>5, <2>2, FilesystemAssumption
    <3>2. ReadsFile(f)'
      BY <1>1, <3>1 DEF ReadsFile, NewObject, ClosedFd
    <3>3. Fresh(f)'
      BY <1>1, <1>2, <1>3, <1>4, <3>1 DEF Fresh, NewObject
    <3>. QED
      BY <1>1, <2>2, <3>2, <3>3 DEF FileIsSent
  <2>. QED
    BY <2>1, <2>2
<1>7. \A d \in dirs' : FolderIsSent(d)'
  BY <1>1, <1>5 DEF FolderIsSent, IsPending
<1>8. sDirs' \subseteq dirs' /\ ws'.cur = NoFile /\ DOMAIN down' = {}
  BY <1>1, <1>2, <1>3, <1>5
<1>. QED
  BY <1>1, <1>4, <1>6, <1>7, <1>8 DEF Mirrors

\* The answer to the password logs the client in, or it changes no file.
LEMMA LoginAnswered ==
  ASSUME FirstSync, TypeOK, Calm, Authenticating, DeliverDown
  PROVE  /\ UNCHANGED serverVars /\ down' = <<>>
         /\ \/ /\ UNCHANGED <<lib, ws, ended>> /\ cState' = "disconnected"
               /\ up' = Append(up, UpAck(0))
            \/ EnterConnected("consumer", Ticking, <<>>, <<UpAck(0)>>, cSeq)
<1>1. PICK i \in DOMAIN down : /\ down' = RemoveAt(down, i) /\ ClientReceive(down[i])
                               /\ UNCHANGED serverVars
  BY DEF DeliverDown, Deliverable
<1>2. PICK ok \in BOOLEAN : down = <<AuthResult(0, cPort, ok)>>
  <2>1. DOMAIN <<>> = {}
    OBVIOUS
  <2>. QED
    BY <1>1, <2>1 DEF Authenticating
<1>3. /\ AuthResult(0, cPort, ok) \in DownMessage /\ AuthResult(0, cPort, ok).type = "AuthResult"
      /\ AuthResult(0, cPort, ok).dst = cPort /\ AuthResult(0, cPort, ok).seq = 0
  <2>1. 0 \in Nat /\ cPort \in Nat
    BY ClientFacts
  <2>. QED
    BY <2>1, DownMessages DEF AuthResult
<1>4. down' = <<>> /\ down[i] = AuthResult(0, cPort, ok)
  BY <1>1, <1>2, <1>3, SingleFacts
<1>5. cPort >= 1 /\ cState = "clientAuth" /\ cTimer = Ticking
  BY DEF Authenticating
<1>6. IsQueued(cQueue, 0) /\ OnSequenceNumberAck(cQueue, 0) = <<>>
  BY OneEntry DEF Authenticating
<1>7. OnAuthResult(AuthResult(0, cPort, ok))
  BY <1>1, <1>3, <1>4, <1>5 DEF ClientReceive
<1>8. \/ /\ UNCHANGED <<lib, ws, ended>> /\ cState' = "disconnected"
         /\ up' = Append(up, UpAck(0))
      \/ EnterConnected("consumer", Ticking, <<>>, <<UpAck(0)>>, cSeq)
  BY <1>3, <1>5, <1>6, <1>7 DEF OnAuthResult, EnterDisconnected
<1>. QED
  BY <1>1, <1>4, <1>8

\* What a client does before it is logged in changes no file.
LEMMA LoginKeepsFiles ==
  ASSUME FirstSync, TypeOK, Calm, Greeting \/ Authenticating, Next
  PROVE  /\ UNCHANGED <<disk, dirs>>
         /\ \/ UNCHANGED ended /\ cState' = "disconnected"
            \/ UNCHANGED <<lib, ws, ended>> /\ KeepsFile /\ cState' \in {"sendClientHello", "clientAuth"}
            \/ /\ Authenticating /\ DeliverDown /\ UNCHANGED serverVars /\ down' = <<>>
               /\ EnterConnected("consumer", Ticking, <<>>, <<UpAck(0)>>, cSeq)
<1>1. /\ cPort >= 1 /\ cState \in {"sendClientHello", "clientAuth"} /\ cIndexer = "joined"
      /\ up \in Seq(UpMessage) /\ down \in Seq(DownMessage)
  BY DEF Greeting, Authenticating, TypeOK, NetTypeOK
<1>2. ~Connects /\ ~Indexes /\ (Stops => UNCHANGED ended /\ cState' = "disconnected")
  BY <1>1 DEF Connects, UserConnect, Stops, UserStop, EnterDisconnected, Indexes, IndexerEnds
<1>3. KeepsFile \/ ~UNCHANGED serverVars
  BY DEF KeepsFile, serverVars, fsServerVars, Writing
<1>4. CASE SaysHello \/ TimerEnds
  BY <1>1, <1>3, <1>4 DEF SaysHello, SendClientHello, TimerEnds, TimerThreadEnds, ClientThreads,
         fsClientVars
<1>5. CASE ClientTicks
  <2>1. TickAwaiting /\ UNCHANGED serverVars
    BY <1>1, <1>5 DEF ClientTicks, ClientTick, TickConnected, TickPing, ClientThreads
  <2>2. ~Reconnect
    <3>1. ~(cPort < MaxConnects)
      BY <1>1, ClientFacts, ClientAssumption DEF FirstSync
    <3>. QED
      BY <3>1 DEF Reconnect, Connect
  <2>. QED
    BY <1>1, <1>3, <2>1, <2>2 DEF TickAwaiting, fsClientVars
<1>6. CASE SessionTicks \/ CleansUp
  BY <1>1, <1>6, TicksKeepFile DEF SessionTicks, CleansUp, ServerThreads, clientVars, fsClientVars
<1>7. CASE (LoseUp \/ LoseDown) /\ UNCHANGED <<clientVars, fsClientVars, serverVars>>
  BY <1>1, <1>3, <1>7 DEF clientVars, fsClientVars
<1>8. CASE DeliverUp
  <2>1. PICK i \in DOMAIN up : ServerReceive(up[i]) /\ UNCHANGED <<clientVars, fsClientVars>>
    BY <1>8 DEF DeliverUp, Deliverable
  <2>2. up[i] \in UpMessage /\ IsCalm(up[i]) /\ (up[i].type = "ClientHello" => Quiet)
    BY <1>1, ElementOfSeq, LenProperties DEF Calm
  <2>3. up[i].type \notin RequestTypes
    <3>1. DOMAIN <<>> = {}
      OBVIOUS
    <3>2. up = <<ClientHello>> \/ up = <<AuthRequest(0)>>
      BY <3>1 DEF Greeting, Authenticating
    <3>3. up[i] = ClientHello \/ up[i] = AuthRequest(0)
      <4>1. \A m : DOMAIN <<m>> = {1} /\ <<m>>[1] = m
        OBVIOUS
      <4>. QED
        BY <3>2, <4>1
    <3>. QED
      BY <3>3 DEF ClientHello, AuthRequest, RequestTypes
  <2>4. KeepsFile
    BY <2>1, <2>2, <2>3, NoticeKeepsFile
  <2>. QED
    BY <1>1, <2>1, <2>4 DEF clientVars, fsClientVars
<1>9. CASE DeliverDown /\ Greeting
  <2>1. PICK i \in DOMAIN down : ClientReceive(down[i]) /\ UNCHANGED serverVars
    BY <1>9 DEF DeliverDown, Deliverable
  <2>2. down[i].type = "ServerHello"
    BY <1>9 DEF Greeting, Accepted, ServerHello
  <2>3. OnServerHello(down[i]) \/ Ignored
    BY <2>1, <2>2 DEF ClientReceive
  <2>4. UNCHANGED <<lib, ws, ended, disk, dirs>> /\ cState' \in {cState, "clientAuth"}
    <3>1. CASE Ignored
      BY <3>1 DEF Ignored, clientVars, fsClientVars
    <3>2. CASE OnServerHello(down[i]) /\ ~Ignored
      BY <3>2 DEF OnServerHello, fsClientVars
    <3>. QED
      BY <2>3, <3>1, <3>2
  <2>. QED
    BY <1>1, <1>3, <2>1, <2>4
<1>10. CASE DeliverDown /\ Authenticating
  BY <1>10, LoginAnswered, FewActions
<1>. QED
  BY <1>2, <1>4, <1>5, <1>6, <1>7, <1>8, <1>9, <1>10, FewActions

\* A client that is being logged in has sent no file.
LEMMA LoginMirrors ==
  ASSUME FirstSync, TypeOK, Calm, Greeting \/ Authenticating, Mirrors, Next,
         (Greeting \/ Authenticating \/ Talking)'
  PROVE  Mirrors'
<1>1. cState \in {"sendClientHello", "clientAuth"} /\ ws.cur = NoFile /\ Indexed
  BY DEF Greeting, Authenticating
<1>2. cState' # "disconnected"
  BY DEF Greeting, Authenticating, Talking, OnlyPings, OneStatus, OneFileMessage
<1>3. UNCHANGED <<disk, dirs>>
  BY <1>2, LoginKeepsFiles
<1>4. CASE UNCHANGED <<lib, ws, ended>> /\ KeepsFile /\ cState' \in {"sendClientHello", "clientAuth"}
  <2>1. SameQuestion /\ UNCHANGED <<disk, dirs, lib, ws, fsServerVars>>
    BY <1>1, <1>3, <1>4 DEF SameQuestion, KeepsFile
  <2>2. Writing' = Writing \/ (Writing' = NoFile /\ cState # "awaitingAck")
    BY <1>1, <1>4 DEF KeepsFile
  <2>3. \/ down' = <<>> \/ down' = <<ServerHello(1, cPort', "accepted")>>
        \/ \E ok \in BOOLEAN : down' = <<AuthResult(0, cPort', ok)>>
    <3>1. (Greeting \/ Authenticating)'
      BY <1>4 DEF Talking, OnlyPings, OneStatus, OneFileMessage
    <3>. QED
      BY <3>1 DEF Greeting, Authenticating, Accepted, ServerHello, AuthResult
  <2>4. \A i \in DOMAIN down' : down'[i].type # "FileStatus"
    <3>1. DOMAIN <<>> = {} /\ \A m : DOMAIN <<m>> = {1} /\ <<m>>[1] = m
      OBVIOUS
    <3>2. /\ ServerHello(1, cPort', "accepted").type # "FileStatus"
          /\ \A ok \in BOOLEAN : AuthResult(0, cPort', ok).type # "FileStatus"
      BY DEF ServerHello, AuthResult
    <3>. QED
      BY <2>3, <3>1, <3>2
  <2>. QED
    BY <2>1, <2>2, <2>4, MirrorStays, FilesystemAssumption
<1>5. CASE /\ Authenticating /\ DeliverDown /\ UNCHANGED serverVars /\ down' = <<>>
           /\ EnterConnected("consumer", Ticking, <<>>, <<UpAck(0)>>, cSeq)
  <2>1. UNCHANGED <<disk, dirs, sessions, fsServerVars>> /\ Writing' = Writing
    BY <1>3, <1>5 DEF serverVars, Writing
  <2>2. CASE EnterSendingFS("consumer", Ticking, <<>>, <<UpAck(0)>>, cSeq)
    <3>1. Settled
      BY <1>1, AnsweredIsSettled
    <3>. QED
      BY <1>1, <1>5, <2>1, <2>2, <3>1, GoesOnMirrors
  <2>3. CASE UNCHANGED <<ws, lib>> /\ cState' = "connected"
    <3>1. SameQuestion
      BY <1>1, <2>3 DEF SameQuestion
    <3>2. DOMAIN down' = {}
      BY <1>5
    <3>. QED
      BY <2>1, <2>3, <3>1, <3>2, MirrorStays, FilesystemAssumption
  <2>. QED
    BY <1>5, <2>2, <2>3, TickingTicks DEF EnterConnected
<1>. QED
  BY <1>2, <1>4, <1>5, LoginKeepsFiles

-----------------------------------------------------------------------------
(* The client is logged in.                                                *)

\* A tick of the client touches no file and asks for nothing else.
LEMMA ClientTickKeeps ==
  ASSUME FirstSync, TypeOK, Calm, Talking, ClientTicks
  PROVE  /\ UNCHANGED <<disk, dirs, lib, ws, ended>> /\ UNCHANGED serverVars
         /\ down' = <<>> /\ SameQuestion
<1>1. ClientTick /\ UNCHANGED serverVars /\ down' = down
  BY DEF ClientTicks, ClientThreads
<1>2. down' = <<>> /\ cTimer = Ticking /\ (OnlyPings \/ OneFileMessage)
  BY <1>1, TickFindsQuiet
<1>3. ~Reconnect
  <2>1. cPort >= 1 /\ ~(cPort < MaxConnects)
    BY TalkingFacts, ClientFacts, ClientAssumption DEF FirstSync
  <2>. QED
    BY <2>1 DEF Reconnect, Connect
<1>4. CASE TickConnected
  <2>1. OnlyPings
    BY <1>2, <1>4 DEF TickConnected, OneFileMessage
  <2>. QED
    BY <1>1, <1>2, <1>4, <2>1
       DEF TickConnected, fsClientVars, SameQuestion, OnlyPings, EmptyWorkingSet
<1>5. CASE TickAwaiting
  <2>1. OneFileMessage
    BY <1>2, <1>5 DEF TickAwaiting, OnlyPings
  <2>2. cQueue' = RequeueOldest(cQueue) /\ UNCHANGED <<cState, ended, fsClientVars>>
    BY <1>3, <1>5 DEF TickAwaiting
  <2>3. Asked' = Asked
    BY <2>1, <2>2, TalkingFacts, OneEntryAgain DEF OneFileMessage, Asked
  <2>. QED
    BY <1>1, <1>2, <2>2, <2>3 DEF SameQuestion, fsClientVars
<1>6. CASE TickPing
  <2>1. OnlyPings /\ cState = "ping"
    BY <1>2, <1>6 DEF TickPing, OneFileMessage
  <2>2. /\ EnterConnected("timer", Ticking, PushSendMessage(<<>>, cSeq, PingMessage(cSeq)),
                          <<PingMessage(cSeq)>>, cSeq + 1)
        /\ UNCHANGED <<disk, dirs>>
    BY <1>2, <1>3, <1>6 DEF TickPing
  <2>3. WorkingSetIsEmpty(ws, lib)
    BY <2>1 DEF OnlyPings, WorkingSetIsEmpty, EmptyWorkingSet
  <2>4. cState' = "connected" /\ UNCHANGED <<ws, lib, ended>>
    BY <2>2, <2>3 DEF EnterConnected
  <2>. QED
    BY <1>1, <1>2, <2>1, <2>2, <2>4 DEF SameQuestion, OnlyPings, EmptyWorkingSet
<1>. QED
  BY <1>1, <1>4, <1>5, <1>6 DEF ClientTick

\* The indexing that a tick has started changes nothing.
LEMMA IndexKeeps ==
  ASSUME FirstSync, TypeOK, Calm, Talking, Indexes
  PROVE  /\ UNCHANGED <<disk, dirs, lib, ws, ended, cState, cQueue, down>> /\ UNCHANGED serverVars
<1>1. OnlyPings
  BY DEF Indexes, IndexerEnds, Talking, OneStatus, OneFileMessage
<1>2. Index(lib, disk, dirs) = [lib |-> lib, ws |-> EmptyWorkingSet]
  BY <1>1, IndexAgain DEF TypeOK, Talking, Indexed, OnlyPings
<1>. QED
  BY <1>1, <1>2 DEF Indexes, IndexerEnds, ClientThreads, OnlyPings

\* Steps that send nothing and touch no file keep what the server has.
LEMMA QuietStepMirrors ==
  ASSUME FirstSync, TypeOK, Calm, Talking, Talking', Mirrors, Next,
         \/ Indexes \/ ClientTicks \/ SessionTicks
         \/ (LoseUp \/ LoseDown) /\ UNCHANGED <<clientVars, fsClientVars, serverVars>>
  PROVE  Mirrors'
<1>1. UNCHANGED <<disk, dirs>> /\ sessions'[1] # NoSession /\ NoFile \notin File
  BY FewActions, FilesystemAssumption DEF Talking, ListensTo
<1>2. \A i \in DOMAIN down : down[i].type = "FileStatus" => down[i].last = 0
  BY DEF Mirrors
<1>3. CASE Indexes \/ ClientTicks
  <2>1. /\ UNCHANGED <<lib, ws>> /\ UNCHANGED serverVars /\ SameQuestion
        /\ \A i \in DOMAIN down' : down'[i].type = "FileStatus" => down'[i].last = 0
    <3>1. CASE Indexes
      BY <1>2, <3>1, IndexKeeps DEF SameQuestion, Asked
    <3>2. CASE ClientTicks
      <4>1. down' = <<>> /\ DOMAIN <<>> = {}
        BY <3>2, ClientTickKeeps
      <4>. QED
        BY <3>2, <4>1, ClientTickKeeps
    <3>. QED
      BY <1>3, <3>1, <3>2
  <2>2. UNCHANGED fsServerVars /\ Writing' = Writing
    BY <2>1 DEF serverVars, Writing
  <2>. QED
    BY <1>1, <2>1, <2>2, MirrorStays
<1>4. CASE SessionTicks
  <2>1. UNCHANGED <<clientVars, fsClientVars>> /\ KeepsFile
    BY <1>4, TicksKeepFile DEF SessionTicks, ServerThreads
  <2>2. UNCHANGED <<lib, ws, cState, cQueue>>
    BY <2>1 DEF clientVars, fsClientVars
  <2>3. down' = down
    BY <1>4, SessionIsIdle
  <2>4. SameQuestion
    BY <2>2, <2>3 DEF SameQuestion, Asked
  <2>. QED
    BY <1>1, <1>2, <2>1, <2>2, <2>3, <2>4, MirrorStays DEF KeepsFile
<1>5. CASE (LoseUp \/ LoseDown) /\ UNCHANGED <<clientVars, fsClientVars, serverVars>>
  <2>1. UNCHANGED <<lib, ws, cState, cQueue, fsServerVars>> /\ Writing' = Writing
    BY <1>5 DEF clientVars, fsClientVars, serverVars, Writing
  <2>2. down' = down \/ down' = <<>>
    <3>1. CASE LoseUp
      BY <3>1 DEF LoseUp
    <3>2. CASE LoseDown
      <4>1. PICK i \in DOMAIN down : down' = RemoveAt(down, i)
        BY <3>2 DEF LoseDown
      <4>2. Len(down) = 1
        BY <4>1 DEF Talking, OneUnderWay
      <4>. QED
        BY <4>1, <4>2, TalkingFacts, OneIsTaken
    <3>. QED
      BY <1>5, <3>1, <3>2
  <2>3. SameQuestion
    BY <2>1, <2>2 DEF SameQuestion, Asked
  <2>4. \A i \in DOMAIN down' : down'[i].type = "FileStatus" => down'[i].last = 0
    <3>1. DOMAIN <<>> = {}
      OBVIOUS
    <3>. QED
      BY <1>2, <2>2, <3>1
  <2>. QED
    BY <1>1, <2>1, <2>3, <2>4, MirrorStays
<1>. QED
  BY <1>3, <1>4, <1>5

\* The server acts on a request of a client that talks.
LEMMA RequestMirrors ==
  ASSUME FirstSync, TypeOK, Calm, Talking, Mirrors, UNCHANGED <<clientVars, fsClientVars>>,
         InFolders, garbled = 0,
         NEW i \in Requests, ServerReceive(up[i])
  PROVE  Mirrors'
<1>. DEFINE m == up[i]
<1>1. i \in DOMAIN up /\ m.type \in RequestTypes /\ m \in UpMessage /\ IsCalm(m)
      /\ m.type # "ClientHello" /\ m.to = 1 /\ Active(1)
  BY TalkingFacts, TypesDiffer DEF Calm
<1>2. SessionReceive(m) /\ UNCHANGED <<disk, dirs, lib, ws, cState, cQueue>>
  BY <1>1 DEF ServerReceive, clientVars, fsClientVars
<1>3. down = <<>> /\ \E k \in DOMAIN cQueue : cQueue[k].msg = m
  BY DEF Talking, OneUnderWay, StandsFor
<1>4. PICK k \in DOMAIN cQueue : cQueue[k].msg = m
  BY <1>3
<1>5. PICK a \in DownMessage : down' = Append(down, a) /\ a.type = AnswerType(m)
  BY <1>1, <1>2, RequestIsAnswered
<1>6. down' = <<a>> /\ DOMAIN down' = {1} /\ down'[1] = a
  <2>1. down' = <<a>>
    BY <1>3, <1>5, SingleFacts
  <2>. QED
    BY <2>1
<1>7. NoFile \notin File
  BY FilesystemAssumption
<1>. HIDE DEF m
<1>8. ASSUME Len(cQueue) = 1 PROVE m = Asked
  <2>1. k = 1
    BY <1>4, <1>8, TalkingFacts, LenProperties
  <2>. QED
    BY <1>4, <2>1 DEF Asked
<1>9. CASE OnlyPings
  <2>1. m.type = "Ping" /\ cState # "awaitingAck" /\ ws.cur = NoFile
    BY <1>4, <1>9 DEF OnlyPings, EmptyWorkingSet
  <2>2. OnPing(1, m)
    BY <1>1, <1>2, <2>1 DEF SessionReceive
  <2>3. UNCHANGED fsServerVars /\ Writing' = Writing /\ SameQuestion /\ a.type # "FileStatus"
    BY <1>2, <1>5, <2>1, <2>2 DEF OnPing, Writing, SameQuestion, AnswerType
  <2>. QED
    BY <1>2, <1>6, <1>7, <2>3, MirrorStays
<1>10. CASE OneStatus
  <2>1. m.type = "FileStatus" /\ m.fid = ws.cur /\ cState = "reqestedFileStatus" /\ ws.cur # NoFile
    BY <1>8, <1>10 DEF OneStatus, Asked
  <2>2. OnFileStatusRequest(1, m)
    BY <1>1, <1>2, <2>1 DEF SessionReceive
  <2>3. ws.cur \in File /\ disk[ws.cur] # Absent
    BY <2>1, FileFacts DEF Talking
  <2>4. sLast[ws.cur] = 0
    BY <2>1, <2>3 DEF Mirrors, FileIsSent, Fresh, Sending, Done
  <2>5. down' = Append(down, FileStatusAnswer(m.seq, sessions[1].dst, 0))
    BY <2>1, <2>2, <2>4 DEF OnFileStatusRequest
  <2>6. down'[1].last = 0
    <3>1. down' = <<FileStatusAnswer(m.seq, sessions[1].dst, 0)>>
      BY <1>3, <2>5
    <3>. QED
      BY <3>1 DEF FileStatusAnswer
  <2>7. UNCHANGED fsServerVars /\ Writing' = Writing /\ SameQuestion
    BY <1>2, <2>1, <2>2 DEF OnFileStatusRequest, Writing, SameQuestion
  <2>. QED
    BY <1>2, <1>6, <1>7, <2>6, <2>7, MirrorStays
<1>11. CASE OneFileMessage
  <2>1. m = Asked /\ m.type \in {"FileCreation", "FileTransfer"}
    BY <1>8, <1>11 DEF OneFileMessage, Asked
  <2>2. a.type # "FileStatus"
    BY <1>5, <2>1 DEF AnswerType
  <2>. QED
    BY <1>1, <1>2, <1>6, <1>11, <2>1, <2>2, FileMessageMirrors
<1>. QED
  BY <1>9, <1>10, <1>11 DEF Talking

\* The server gets a datagram of a client that talks.
LEMMA DeliverUpMirrors ==
  ASSUME FirstSync, TypeOK, Calm, Talking, Talking', Mirrors, DeliverUp,
         InFolders, garbled = 0
  PROVE  Mirrors'
<1>1. PICK i \in DOMAIN up : ServerReceive(up[i]) /\ UNCHANGED <<clientVars, fsClientVars>>
  BY DEF DeliverUp, Deliverable
<1>2. CASE i \in Requests
  BY <1>1, <1>2, RequestMirrors
<1>3. CASE up[i].type \in {"Ack", "TransferEnded"}
  <2>1. up[i] \in UpMessage /\ IsCalm(up[i]) /\ up[i].to = 1 /\ Active(1)
    BY TalkingFacts DEF Calm
  <2>2. up[i].type \notin RequestTypes
    BY <1>3 DEF RequestTypes
  <2>3. KeepsFile /\ sessions'[1] # NoSession
    BY <1>1, <1>3, <2>1, <2>2, NoticeKeepsFile DEF Talking, ListensTo
  <2>4. down' = down
    <3>1. SessionReceive(up[i])
      BY <1>1, <1>3 DEF ServerReceive
    <3>2. CASE up[i].type = "Ack"
      BY <2>1, <3>1, <3>2 DEF SessionReceive, OnClientAck
    <3>3. CASE up[i].type = "TransferEnded"
      BY <2>1, <3>1, <3>3 DEF SessionReceive, OnTransferEnded
    <3>. QED
      BY <1>3, <3>2, <3>3
  <2>5. UNCHANGED <<disk, dirs, lib, ws, cState, cQueue>>
    BY <1>1 DEF clientVars, fsClientVars
  <2>6. \A j \in DOMAIN down' : down'[j].type = "FileStatus" => down'[j].last = 0
    BY <2>4 DEF Mirrors
  <2>7. SameQuestion
    BY <2>4, <2>5 DEF SameQuestion, Asked
  <2>. QED
    BY <2>3, <2>5, <2>6, <2>7, MirrorStays, FilesystemAssumption DEF KeepsFile
<1>. QED
  BY <1>2, <1>3 DEF Talking, OneUnderWay, Requests

\* The server has nothing of the file: the client creates it.
LEMMA CreationMirrors ==
  ASSUME FirstSync, TypeOK, Calm, Talking, Mirrors, OneStatus, down' = <<>>,
         UNCHANGED <<disk, dirs, ws, lib, sessions, fsServerVars>>,
         SendCreation(NewTimer, <<>>, <<>>, cSeq, "ft_file", ws.cur)
  PROVE  Mirrors'
<1>1. PICK f : f = ws.cur
  OBVIOUS
<1>2. f \in File /\ disk[f] # Absent /\ f # NoFile /\ Len(disk[f]) \in Nat
      /\ cState = "reqestedFileStatus"
  BY <1>1, FileFacts DEF Talking, OneStatus
<1>3. ReadsFile(f) /\ Fresh(f)
  BY <1>1, <1>2 DEF Mirrors, FileIsSent, Sending, Done
<1>4. UNCHANGED <<sDisk, sDirs, sLast>> /\ Writing' = Writing /\ DOMAIN down' = {}
  BY DEF fsServerVars, Writing
<1>5. cState' = "awaitingAck" /\ Asked' = FileCreation(cSeq, "ft_file", f)
  <2>1. cState' = "awaitingAck" /\ cQueue' = PushSendMessage(<<>>, cSeq, FileCreation(cSeq, "ft_file", f))
    BY <1>1 DEF SendCreation, SendAndWait
  <2>. QED
    BY <2>1, OneEntry DEF Asked
<1>6. Sending(f)'
  <2>1. Left(f, 0)'
    BY <1>3 DEF Left, Fresh
  <2>2. AsksFor(f, 0)'
    BY <1>5 DEF AsksFor, FileCreation
  <2>3. 0 \in 0..Len(disk'[f]) /\ ~(0 > 0)
    BY <1>2
  <2>. QED
    BY <1>1, <1>5, <2>1, <2>2, <2>3 DEF Sending
<1>7. ASSUME NEW g \in File PROVE FileIsSent(g)'
  <2>1. CASE g = f
    BY <1>2, <1>3, <1>6, <2>1 DEF FileIsSent, ReadsFile
  <2>2. CASE g # f
    <3>1. FileIsSent(g) /\ ~Sending(g)
      BY <1>1, <2>2 DEF Mirrors, Sending
    <3>2. /\ ReadsFile(g) => ReadsFile(g)'
          /\ Fresh(g) => Fresh(g)'
          /\ Done(g) => Done(g)'
      BY <1>1, <1>4, <2>2 DEF ReadsFile, Fresh, Done
    <3>. QED
      BY <1>4, <3>1, <3>2 DEF FileIsSent
  <2>. QED
    BY <2>1, <2>2
<1>8. dirs \subseteq sDirs /\ sDirs \subseteq dirs
  BY <1>1, <1>2 DEF Mirrors
<1>. QED
  BY <1>1, <1>2, <1>4, <1>7, <1>8 DEF Mirrors, FolderIsSent

\* The client is answered.
LEMMA DeliverDownMirrors ==
  ASSUME FirstSync, TypeOK, Calm, Talking, Mirrors, UNCHANGED <<disk, dirs>>, DeliverDown
  PROVE  Mirrors'
<1>1. /\ down # <<>> /\ down' = <<>> /\ Indexed /\ DOMAIN down' = {}
      /\ UNCHANGED <<disk, dirs, sessions, fsServerVars>> /\ Writing' = Writing
  <2>1. DOMAIN <<>> = {}
    OBVIOUS
  <2>. QED
    BY <2>1, Answered DEF Talking, serverVars, Writing
<1>2. CASE OneStatus
  <2>1. 1 \in DOMAIN down /\ down[1].type = "FileStatus" => down[1].last = 0
    BY DEF Mirrors
  <2>2. SendCreation(NewTimer, <<>>, <<>>, cSeq, "ft_file", ws.cur) /\ UNCHANGED <<ws, lib>>
    BY <1>2, <2>1, Answered DEF OneStatus, OneFileMessage, OnlyPings
  <2>. QED
    BY <1>1, <1>2, <2>2, CreationMirrors
<1>3. CASE OneFileMessage
  <2>1. Settled
    BY <1>1, <1>3, AnsweredIsSettled DEF OneFileMessage
  <2>2. EnterSendingFS("consumer", Ticking, <<>>, <<>>, cSeq)
    BY <1>3, Answered DEF OneStatus, OneFileMessage, OnlyPings
  <2>. QED
    BY <1>1, <2>1, <2>2, GoesOnMirrors
<1>4. CASE OnlyPings
  <2>1. cState' = "connected" /\ UNCHANGED <<ws, lib>>
    BY <1>4, Answered DEF OneStatus, OneFileMessage, OnlyPings
  <2>2. SameQuestion
    BY <1>4, <2>1 DEF SameQuestion, OnlyPings, EmptyWorkingSet
  <2>. QED
    BY <1>1, <2>1, <2>2, MirrorStays, FilesystemAssumption
<1>. QED
  BY <1>2, <1>3, <1>4 DEF Talking

-----------------------------------------------------------------------------
(* The whole first synchronisation.                                        *)

\* At the start the server has nothing.
LEMMA MirrorInit == Init => Mirroring
<1>1. SUFFICES ASSUME Init PROVE Mirroring
  OBVIOUS
<1>2. cPort = 0 /\ sDisk = [f \in File |-> Absent] /\ sDirs = {} /\ sLast = [f \in File |-> 0]
  BY <1>1 DEF Init, ClientInit, ServerInit, FilesystemServerInit
<1>3. PICK tree \in InitialTrees : disk = tree[1] /\ dirs = tree[2]
  BY <1>1 DEF Init, FilesystemClientInit
<1>4. InFolders
  BY <1>3, TreesAssumption DEF InFolders
<1>. QED
  BY <1>2, <1>4 DEF Mirroring

\* A client that talks keeps what the server has.
LEMMA TalkingMirrors ==
  ASSUME FirstSync, TypeOK, Calm, Talking, Talking', Mirrors, Next,
         InFolders, garbled = 0
  PROVE  Mirrors'
<1>1. ~Connects /\ ~SaysHello /\ ~TimerEnds /\ ~Stops
  <2>1. cState \notin {"disconnected", "sendClientHello"} /\ ~LeavesLoop(cTimer)
    BY TalkingFacts, NewTimerRests, TickingTicks
  <2>2. cState' # "disconnected"
    BY DEF Talking, OnlyPings, OneStatus, OneFileMessage
  <2>. QED
    BY <2>1, <2>2 DEF Connects, UserConnect, SaysHello, SendClientHello, TimerEnds, TimerThreadEnds,
                      Stops, UserStop, EnterDisconnected
<1>. QED
  BY <1>1, FewActions, TalkingStays, QuietStepMirrors, DeliverUpMirrors, DeliverDownMirrors

\* What was sent again as something else stays counted.
LEMMA NoneGarbled ==
  ASSUME FirstSync, TypeOK, Next, garbled' = 0
  PROVE  garbled = 0
<1>1. garbled \in Nat
  BY ClientAssumption DEF TypeOK, ClientTypeOK
<1>2. CASE Connects \/ Stops \/ SaysHello \/ Indexes \/ TimerEnds
  BY <1>2 DEF Connects, UserConnect, Connect, Stops, UserStop, SaysHello, SendClientHello, Indexes,
              IndexerEnds, TimerEnds, TimerThreadEnds
<1>3. CASE ClientTicks
  <2>1. CASE TickConnected \/ TickPing
    BY <2>1 DEF TickConnected, TickPing, Reconnect, Connect
  <2>2. CASE TickAwaiting
    <3>1. CASE Reconnect
      BY <3>1 DEF Reconnect, Connect
    <3>2. CASE \E m \in Resent(Oldest(cQueue).msg) :
                 garbled' = garbled + (IF m = Oldest(cQueue).msg THEN 0 ELSE 1)
      BY <1>1, <3>2
    <3>. QED
      BY <2>2, <3>1, <3>2 DEF TickAwaiting
  <2>. QED
    BY <1>3, <2>1, <2>2 DEF ClientTicks, ClientTick
<1>4. CASE SessionTicks \/ CleansUp \/ UNCHANGED clientVars \/ DeliverUp
  BY <1>4 DEF SessionTicks, CleansUp, ServerThreads, DeliverUp, clientVars
<1>5. CASE DeliverDown
  <2>1. PICK i \in DOMAIN down : ClientReceive(down[i])
    BY <1>5 DEF DeliverDown, Deliverable
  <2>2. Ignored => garbled' = garbled
    BY DEF Ignored, clientVars
  <2>3. OnServerHello(down[i]) \/ OnAuthResult(down[i]) => garbled' = garbled
    BY <2>2 DEF OnServerHello, OnAuthResult
  <2>4. OnFileStatus(down[i]) \/ OnAck(down[i]) => garbled' = garbled
    BY <2>2 DEF OnFileStatus, OnAck
  <2>. QED
    BY <2>1, <2>2, <2>3, <2>4 DEF ClientReceive
<1>. QED
  BY <1>2, <1>3, <1>4, <1>5, FewActions

\* Every step keeps it.
LEMMA MirrorStep ==
  ASSUME FirstSync, SyncInv, Mirroring, [Next]_vars
  PROVE  Mirroring'
<1>1. TypeOK /\ Calm /\ Conversation /\ InFolders
  BY DEF SyncInv, Mirroring
<1>2. CASE Next
  <2>1. UNCHANGED <<disk, dirs>>
    BY <1>1, <1>2, FewActions
  <2>2. cPort' >= 1 /\ (garbled' = 0 /\ cState' # "disconnected" => Mirrors')
    <3>0. garbled' = 0 => garbled = 0
      BY <1>1, <1>2, NoneGarbled
    <3>1. CASE Before
      BY <1>1, <1>2, <3>1, FirstConnect, BeforeMirrors
    <3>2. CASE Greeting
      <4>1. (Greeting \/ Authenticating \/ Gone)'
        BY <1>1, <1>2, <3>2, GreetingStep
      <4>2. cPort >= 1 /\ cState # "disconnected" /\ cPort' >= 1
        BY <3>2, <4>1 DEF Greeting, Authenticating, Gone
      <4>. QED
        BY <1>1, <1>2, <3>0, <3>2, <4>1, <4>2, LoginMirrors DEF Mirroring, Gone
    <3>3. CASE Authenticating
      <4>1. (Authenticating \/ Talking \/ Gone)'
        BY <1>1, <1>2, <3>3, AuthenticatingStep
      <4>2. cPort >= 1 /\ cState # "disconnected" /\ cPort' >= 1
        BY <3>3, <4>1 DEF Talking, Authenticating, Gone
      <4>. QED
        BY <1>1, <1>2, <3>0, <3>3, <4>1, <4>2, LoginMirrors DEF Mirroring, Gone
    <3>4. CASE Talking
      <4>1. (Talking \/ Gone)'
        BY <1>1, <1>2, <3>4, TalkingStep
      <4>2. cPort >= 1 /\ cState # "disconnected" /\ cPort' >= 1
        BY <1>1, <3>4, <4>1, TalkingFacts DEF Talking, Gone
      <4>. QED
        BY <1>1, <1>2, <3>0, <3>4, <4>1, <4>2, TalkingMirrors DEF Mirroring, Gone
    <3>5. CASE Gone
      BY <1>1, <1>2, <3>5, GoneStep DEF Gone
    <3>. QED
      BY <1>1, <3>1, <3>2, <3>3, <3>4, <3>5 DEF Conversation
  <2>. QED
    <3>1. cPort' # 0
      BY <2>2
    <3>. QED
      BY <1>1, <2>1, <2>2, <3>1 DEF Mirroring, InFolders
<1>3. CASE UNCHANGED vars
  <2>1. /\ UNCHANGED <<disk, dirs, lib, ws, fsServerVars, cState, cPort, cQueue, garbled, down>>
        /\ UNCHANGED <<sDisk, sDirs, sLast>> /\ Writing' = Writing
    BY <1>3 DEF vars, clientVars, fsClientVars, serverVars, fsServerVars, netVars, Writing
  <2>2. SameQuestion
    BY <2>1 DEF SameQuestion, Asked
  <2>3. Mirrors => Mirrors'
    <3>1. Mirrors => \A i \in DOMAIN down' : down'[i].type = "FileStatus" => down'[i].last = 0
      BY <2>1 DEF Mirrors
    <3>. QED
      BY <2>1, <2>2, <3>1, MirrorStays, FilesystemAssumption
  <2>. QED
    BY <2>1, <2>3 DEF Mirroring, InFolders
<1>. QED
  BY <1>2, <1>3

\* What a client that goes on says last is true.
LEMMA GoesOnHonestly ==
  ASSUME TypeOK, Indexed, Settled, NEW tm \in {NewTimer, Ticking}, NEW out,
         EnterSendingFS("consumer", tm, <<>>, out, cSeq), ended' # ended
  PROVE  Mirrored
<1>1. SendsSomething(out, cSeq)
  BY NextMessage
<1>2. SendsEnd(out, cSeq)
  BY <1>1 DEF SendsSomething, SendsPart, SendsDeletion, SendsFolder, SendsStatus, SendAndWait
<1>. QED
  BY <1>2, EndIsMirrored

\* When the client declares the transfer over, the server has everything.
LEMMA EndsMirrored ==
  ASSUME FirstSync, SyncInv, Mirroring, Next, garbled = 0, ended' > ended
  PROVE  Mirrored
<1>1. TypeOK /\ Calm /\ Conversation
  BY DEF SyncInv
<1>2. ended' # ended
  BY <1>1 DEF TypeOK, ClientTypeOK
<1>3. CASE Before
  BY <1>1, <1>2, <1>3, FirstConnect
<1>4. CASE Greeting \/ Authenticating
  <2>1. /\ Authenticating /\ DeliverDown
        /\ EnterConnected("consumer", Ticking, <<>>, <<UpAck(0)>>, cSeq)
    BY <1>1, <1>2, <1>4, LoginKeepsFiles
  <2>2. Mirrors /\ Indexed /\ ws.cur = NoFile /\ cState = "clientAuth"
    BY <2>1 DEF Mirroring, Authenticating
  <2>3. EnterSendingFS("consumer", Ticking, <<>>, <<UpAck(0)>>, cSeq)
    BY <1>2, <2>1, TickingTicks DEF EnterConnected
  <2>4. Settled
    BY <2>2, AnsweredIsSettled
  <2>. QED
    BY <1>1, <1>2, <2>2, <2>3, <2>4, GoesOnHonestly
<1>5. CASE Talking
  <2>1. Mirrors /\ Indexed
    BY <1>1, <1>5, TalkingFacts DEF Mirroring, Talking
  <2>2. DeliverDown
    <3>1. ~Connects
      BY <1>1, <1>5, TalkingFacts DEF Connects, UserConnect
    <3>2. Stops \/ SaysHello \/ TimerEnds => ended' = ended
      BY DEF Stops, UserStop, SaysHello, SendClientHello, TimerEnds, TimerThreadEnds
    <3>3. Indexes \/ ClientTicks => ended' = ended
      BY <1>1, <1>5, IndexKeeps, ClientTickKeeps
    <3>4. SessionTicks \/ CleansUp \/ DeliverUp => ended' = ended
      BY DEF SessionTicks, CleansUp, ServerThreads, DeliverUp, clientVars
    <3>. QED
      BY <1>1, <1>2, <3>1, <3>2, <3>3, <3>4, FewActions DEF clientVars
  <2>3. CASE OneStatus
    <3>1. 1 \in DOMAIN down /\ down[1].type = "FileStatus" => down[1].last = 0
      BY <2>1 DEF Mirrors
    <3>2. SendCreation(NewTimer, <<>>, <<>>, cSeq, "ft_file", ws.cur)
      BY <1>1, <1>5, <2>2, <2>3, <3>1, Answered DEF OneStatus, OneFileMessage, OnlyPings
    <3>. QED
      BY <1>2, <3>2 DEF SendCreation, SendAndWait
  <2>4. CASE OneFileMessage
    <3>1. Settled
      BY <1>1, <1>5, <2>1, <2>2, <2>4, Answered, AnsweredIsSettled DEF OneFileMessage
    <3>2. EnterSendingFS("consumer", Ticking, <<>>, <<>>, cSeq)
      BY <1>1, <1>5, <2>2, <2>4, Answered DEF OneStatus, OneFileMessage, OnlyPings
    <3>. QED
      BY <1>1, <1>2, <2>1, <3>1, <3>2, GoesOnHonestly
  <2>5. CASE OnlyPings
    BY <1>1, <1>2, <1>5, <2>2, <2>5, Answered DEF OneStatus, OneFileMessage, OnlyPings
  <2>. QED
    BY <1>5, <2>3, <2>4, <2>5 DEF Talking
<1>6. CASE Gone
  <2>1. cPort >= 1 /\ cState = "disconnected"
    BY <1>6 DEF Gone
  <2>2. Connects \/ Stops \/ SaysHello \/ Indexes \/ TimerEnds => ended' = ended
    BY DEF Connects, UserConnect, Connect, Stops, UserStop, SaysHello, SendClientHello,
           Indexes, IndexerEnds, TimerEnds, TimerThreadEnds
  <2>3. ~ClientTicks
    BY <2>1 DEF ClientTicks, ClientTick, TickConnected, TickAwaiting, TickPing
  <2>4. DeliverDown => ended' = ended
    BY <2>1 DEF DeliverDown, ClientReceive, Ignored, clientVars
  <2>5. SessionTicks \/ CleansUp \/ DeliverUp => ended' = ended
    BY DEF SessionTicks, CleansUp, ServerThreads, DeliverUp, clientVars
  <2>. QED
    BY <1>1, <1>2, <2>2, <2>3, <2>4, <2>5, FewActions DEF clientVars
<1>. QED
  BY <1>1, <1>3, <1>4, <1>5, <1>6 DEF Conversation

(***************************************************************************)
(* When the client of a first synchronisation says that the transfer has   *)
(* ended, the files and folders on the server are those of its directory,  *)
(* whatever was lost, unless something was sent again with other content.  *)
(***************************************************************************)
THEOREM FirstSyncMirrors == FirstSync => (Spec => MirrorAtEnd)
<1>. DEFINE Step == ended' > ended => garbled > 0 \/ Mirrored
<1>. SUFFICES ASSUME FirstSync PROVE Spec => MirrorAtEnd
  OBVIOUS
<1>1. Spec => []SyncInv
  BY SyncAlways
<1>2. Init => Mirroring
  BY MirrorInit
<1>3. SyncInv /\ Mirroring /\ [Next]_vars => Mirroring'
  BY MirrorStep
<1>4. SyncInv /\ Mirroring /\ [Next]_vars => [Step]_vars
  <2>1. SyncInv => (garbled = 0 \/ garbled > 0)
    BY ClientAssumption DEF SyncInv, TypeOK, ClientTypeOK
  <2>. QED
    BY <2>1, EndsMirrored
<1>. QED
  BY <1>1, <1>2, <1>3, <1>4, PTL DEF Spec, MirrorAtEnd
=============================================================================
