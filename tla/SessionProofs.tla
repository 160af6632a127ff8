----------------------------- MODULE SessionProofs -----------------------------
(***************************************************************************)
(* Two invariants of Session, for every set of files and folders, every    *)
(* bound and every network of the model - losses, duplicates, reordering,  *)
(* any number of connections and cleanups of the server.                   *)
(*                                                                         *)
(* The type invariant comes after what the parts do each by itself: the    *)
(* queue of unacknowledged messages, the client's directory and the        *)
(* server's.  TypeOK is inductive: no field of a datagram needs more than  *)
(* its type to be handled.  AuthAgreement is the second half.              *)
(***************************************************************************)
EXTENDS Session, SequenceTheorems, FiniteSetTheorems, WellFoundedInduction, TLAPS

-----------------------------------------------------------------------------
(***************************************************************************)
(* What the operations on a queue of unacknowledged messages do to the     *)
(* messages it holds: none of them makes one up.  The lemmas speak of the  *)
(* range of a sequence, so they hold for messages of any kind.             *)
(***************************************************************************)
\* s is a sequence (of whatever it holds).
IsSeq(s) == s \in Seq(Range(s))

\* A sequence over a set has its range in that set.
LEMMA RangeOver ==
  ASSUME NEW T, NEW s \in Seq(T)
  PROVE  IsSeq(s) /\ Range(s) \subseteq T
BY SeqOfRange, RangeOfSeq DEF IsSeq

\* The elements of a sequence are those at its places.
LEMMA AtPlaces ==
  ASSUME NEW s, NEW i \in DOMAIN s
  PROVE  s[i] \in Range(s)
BY DEF Range

\* Append adds one element.
LEMMA RangeAppend ==
  ASSUME NEW s, NEW e, IsSeq(s)
  PROVE  IsSeq(Append(s, e)) /\ Range(Append(s, e)) \subseteq Range(s) \cup {e}
<1>1. s \in Seq(Range(s) \cup {e})
  BY SeqMonotonic DEF IsSeq
<1>2. Append(s, e) \in Seq(Range(s) \cup {e})
  BY <1>1
<1>. QED
  BY <1>2, RangeOver

\* A concatenation holds the elements of both.
LEMMA RangeConcat ==
  ASSUME NEW s, NEW t, IsSeq(s), IsSeq(t)
  PROVE  IsSeq(s \o t) /\ Range(s \o t) \subseteq Range(s) \cup Range(t)
<1>1. s \in Seq(Range(s) \cup Range(t)) /\ t \in Seq(Range(s) \cup Range(t))
  BY SeqMonotonic DEF IsSeq
<1>2. s \o t \in Seq(Range(s) \cup Range(t))
  BY <1>1
<1>. QED
  BY <1>2, RangeOver

\* A piece of a sequence holds nothing else.
LEMMA RangeSubSeq ==
  ASSUME NEW s, IsSeq(s), NEW m \in Int, NEW n \in Int, 1 <= m, n <= Len(s)
  PROVE  IsSeq(SubSeq(s, m, n)) /\ Range(SubSeq(s, m, n)) \subseteq Range(s)
<1>1. \A i \in m..n : s[i] \in Range(s)
  BY ElementOfSeq, LenProperties DEF IsSeq
<1>2. SubSeq(s, m, n) \in Seq(Range(s))
  BY <1>1, SubSeqProperties
<1>. QED
  BY <1>2, RangeOver

\* What is left of a sequence was in it.
LEMMA RangeRemoveAt ==
  ASSUME NEW s, IsSeq(s), NEW i \in DOMAIN s
  PROVE  IsSeq(RemoveAt(s, i)) /\ Range(RemoveAt(s, i)) \subseteq Range(s)
<1>1. i \in 1..Len(s) /\ Len(s) \in Nat
  BY LenProperties DEF IsSeq
<1>2. /\ IsSeq(SubSeq(s, 1, i - 1)) /\ Range(SubSeq(s, 1, i - 1)) \subseteq Range(s)
      /\ IsSeq(SubSeq(s, i + 1, Len(s))) /\ Range(SubSeq(s, i + 1, Len(s))) \subseteq Range(s)
  BY <1>1, RangeSubSeq
<1>. QED
  BY <1>2, RangeConcat DEF RemoveAt

\* An insertion adds one element.
LEMMA RangeInsertAt ==
  ASSUME NEW s, IsSeq(s), NEW i \in DOMAIN s, NEW e
  PROVE  IsSeq(InsertAt(s, i, e)) /\ Range(InsertAt(s, i, e)) \subseteq Range(s) \cup {e}
<1>1. i \in 1..Len(s) /\ Len(s) \in Nat
  BY LenProperties DEF IsSeq
<1>2. /\ IsSeq(SubSeq(s, 1, i - 1)) /\ Range(SubSeq(s, 1, i - 1)) \subseteq Range(s)
      /\ IsSeq(SubSeq(s, i, Len(s))) /\ Range(SubSeq(s, i, Len(s))) \subseteq Range(s)
  BY <1>1, RangeSubSeq
<1>3. IsSeq(<<e>>) /\ Range(<<e>>) \subseteq {e}
  <2>1. <<e>> \in Seq({e})
    OBVIOUS
  <2>. QED
    BY <2>1, RangeOver
<1>4. /\ IsSeq(SubSeq(s, 1, i - 1) \o <<e>>)
      /\ Range(SubSeq(s, 1, i - 1) \o <<e>>) \subseteq Range(s) \cup {e}
  BY <1>2, <1>3, RangeConcat
<1>. QED
  BY <1>2, <1>4, RangeConcat DEF InsertAt

-----------------------------------------------------------------------------
\* A set of numbers has a least one.
LEMMA LeastIsThere ==
  ASSUME NEW S, S \subseteq Nat, S # {}
  PROVE  \E i \in S : \A j \in S : i <= j
<1>. DEFINE less == {p \in Nat \X Nat : p[1] < p[2]}
<1>1. IsWellFoundedOn(less, Nat)
  <2>1. IsWellFoundedOn(OpToRel(<, Nat), Nat)
    BY NatLessThanWellFounded
  <2>. QED
    BY <2>1 DEF OpToRel
<1>2. PICK i \in S : \A j \in S : <<j, i>> \notin less
  BY <1>1, WFMin
<1>3. ASSUME NEW j \in S PROVE i <= j
  <2>1. i \in Nat /\ j \in Nat
    BY <1>2
  <2>2. ~(j < i)
    BY <1>2, <2>1
  <2>. QED
    BY <2>1, <2>2
<1>. QED
  BY <1>2, <1>3

\* The first entry with a number exists if any does: FirstQueued names it.
LEMMA FirstQueuedIsThere ==
  ASSUME NEW q, NEW seq, IsSeq(q), IsQueued(q, seq)
  PROVE  /\ FirstQueued(q, seq) \in DOMAIN q /\ q[FirstQueued(q, seq)].seq = seq
         /\ \A j \in DOMAIN q : q[j].seq = seq => FirstQueued(q, seq) <= j
<1>. DEFINE places == {i \in DOMAIN q : q[i].seq = seq}
<1>1. places \subseteq Nat /\ places # {}
  BY LenProperties DEF IsSeq, IsQueued
<1>2. PICK i \in places : \A j \in places : i <= j
  BY <1>1, LeastIsThere
<1>. QED
  BY <1>2 DEF FirstQueued

\* An entry of the queue, a queue, and the messages it holds.
IsEntry(e) == e = [seq |-> e.seq, msg |-> e.msg, sendCount |-> e.sendCount]
IsQueue(q) == IsSeq(q) /\ \A e \in Range(q) : IsEntry(e)
Messages(q) == {e.msg : e \in Range(q)}

\* The empty queue holds nothing.
LEMMA EmptyQueue == IsSeq(<<>>) /\ Range(<<>>) = {} /\ IsQueue(<<>>) /\ Messages(<<>>) = {}
<1>1. Range(<<>>) = {}
  BY DEF Range
<1>2. IsSeq(<<>>)
  BY DEF IsSeq
<1>. QED
  BY <1>1, <1>2 DEF IsQueue, Messages

\* pushSendMessage adds the message that is sent.
LEMMA PushMessages ==
  ASSUME NEW q, NEW seq, NEW msg, IsQueue(q)
  PROVE  /\ IsQueue(PushSendMessage(q, seq, msg))
         /\ Messages(PushSendMessage(q, seq, msg)) \subseteq Messages(q) \cup {msg}
<1>. DEFINE e == [seq |-> seq, msg |-> msg, sendCount |-> 1]
<1>1. IsSeq(Append(q, e)) /\ Range(Append(q, e)) \subseteq Range(q) \cup {e}
  BY RangeAppend DEF IsQueue
<1>2. IsEntry(e) /\ e.msg = msg
  BY DEF IsEntry
<1>. HIDE DEF e
<1>3. \A x \in Range(Append(q, e)) : IsEntry(x) /\ x.msg \in Messages(q) \cup {msg}
  BY <1>1, <1>2 DEF IsQueue, Messages
<1>4. PushSendMessage(q, seq, msg) = Append(q, e)
  BY DEF PushSendMessage, e
<1>. QED
  BY <1>1, <1>3, <1>4 DEF IsQueue, Messages

\* A sequence without its element at place i.
LEMMA RemovedAt ==
  ASSUME NEW s, IsSeq(s), NEW i \in DOMAIN s
  PROVE  /\ Len(RemoveAt(s, i)) = Len(s) - 1
         /\ \A j \in 1..(Len(s) - 1) : RemoveAt(s, i)[j] = IF j < i THEN s[j] ELSE s[j + 1]
<1>1. i \in 1..Len(s) /\ Len(s) \in Nat /\ i \in Nat
  BY LenProperties DEF IsSeq
<1>. DEFINE a == SubSeq(s, 1, i - 1)
            b == SubSeq(s, i + 1, Len(s))
<1>0. \A j \in 1..Len(s) : s[j] \in Range(s)
  BY ElementOfSeq DEF IsSeq
<1>3. a \in Seq(Range(s)) /\ Len(a) = i - 1 /\ \A j \in 1..(i - 1) : a[j] = s[j]
  <2>1. \A j \in 1..(i - 1) : s[j] \in Range(s)
    BY <1>0, <1>1
  <2>. QED
    BY <1>1, <2>1, SubSeqProperties
<1>4. b \in Seq(Range(s)) /\ Len(b) = Len(s) - i /\ \A j \in 1..(Len(s) - i) : b[j] = s[i + j]
  <2>1. \A j \in (i + 1)..Len(s) : s[j] \in Range(s)
    BY <1>0, <1>1
  <2>2. /\ b \in Seq(Range(s)) /\ Len(b) = Len(s) - i
        /\ \A j \in 1..(Len(s) - i) : b[j] = s[(i + 1) + j - 1]
    BY <1>1, <2>1, SubSeqProperties
  <2>3. \A j \in 1..(Len(s) - i) : (i + 1) + j - 1 = i + j
    BY <1>1
  <2>. QED
    BY <2>2, <2>3
<1>2. RemoveAt(s, i) = a \o b
  BY DEF RemoveAt
<1>. HIDE DEF a, b
<1>5. Len(a \o b) = Len(s) - 1
  BY <1>1, <1>3, <1>4, ConcatProperties
<1>6. ASSUME NEW j \in 1..(Len(s) - 1)
      PROVE  (a \o b)[j] = IF j < i THEN s[j] ELSE s[j + 1]
  <2>1. CASE j < i
    BY <1>1, <1>3, <1>4, <2>1, ConcatProperties
  <2>2. CASE ~(j < i)
    <3>1. (a \o b)[j] = b[j - (i - 1)]
      BY <1>1, <1>3, <1>4, <2>2, ConcatProperties
    <3>2. b[j - (i - 1)] = s[i + (j - (i - 1))]
      <4>1. j - (i - 1) \in 1..(Len(s) - i)
        BY <1>1, <2>2
      <4>. QED
        BY <1>4, <4>1
    <3>. QED
      BY <1>1, <2>2, <3>1, <3>2
  <2>. QED
    BY <2>1, <2>2
<1>. QED
  BY <1>2, <1>5, <1>6

(***************************************************************************)
(* onSequenceNumberAck takes one entry out of the queue: the first that is *)
(* filed under the number.  All others stay, in their order.               *)
(***************************************************************************)
LEMMA AckMessages ==
  ASSUME NEW q, NEW seq, IsQueue(q), IsQueued(q, seq)
  PROVE  /\ IsQueue(OnSequenceNumberAck(q, seq))
         /\ Messages(OnSequenceNumberAck(q, seq)) \subseteq Messages(q)
         /\ Len(OnSequenceNumberAck(q, seq)) = Len(q) - 1
         /\ \E i \in DOMAIN q :
              /\ q[i].seq = seq
              /\ \A j \in DOMAIN q : j < i => q[j].seq # seq
              /\ \A j \in 1..(Len(q) - 1) :
                   OnSequenceNumberAck(q, seq)[j] = IF j < i THEN q[j] ELSE q[j + 1]
<1>. DEFINE first == FirstQueued(q, seq)
<1>1. /\ first \in DOMAIN q /\ q[first].seq = seq
      /\ \A j \in DOMAIN q : q[j].seq = seq => first <= j
  BY FirstQueuedIsThere DEF IsQueue
<1>2. /\ IsSeq(OnSequenceNumberAck(q, seq))
      /\ Range(OnSequenceNumberAck(q, seq)) \subseteq Range(q)
  BY <1>1, RangeRemoveAt DEF OnSequenceNumberAck, IsQueue
<1>3. /\ Len(OnSequenceNumberAck(q, seq)) = Len(q) - 1
      /\ \A j \in 1..(Len(q) - 1) :
           OnSequenceNumberAck(q, seq)[j] = IF j < first THEN q[j] ELSE q[j + 1]
  BY <1>1, RemovedAt DEF OnSequenceNumberAck, IsQueue
<1>4. \A j \in DOMAIN q : j < first => q[j].seq # seq
  <2>1. DOMAIN q \subseteq Nat
    BY LenProperties DEF IsQueue, IsSeq
  <2>. QED
    BY <1>1, <2>1
<1>. HIDE DEF first
<1>. QED
  BY <1>1, <1>2, <1>3, <1>4 DEF IsQueue, Messages

(***************************************************************************)
(* What a tick sends again is the oldest entry, and it goes to the end of  *)
(* the queue with its number and message and one more on its count: the    *)
(* queue has the same messages as before and the same length.              *)
(***************************************************************************)
LEMMA RequeueMessages ==
  ASSUME NEW q, IsQueue(q), q # <<>>
  PROVE  /\ Oldest(q) = q[1]
         /\ Oldest(q).msg \in Messages(q)
         /\ IsQueue(RequeueOldest(q))
         /\ Messages(RequeueOldest(q)) = Messages(q)
         /\ Len(RequeueOldest(q)) = Len(q)
         /\ \A j \in 1..(Len(q) - 1) : RequeueOldest(q)[j] = q[j + 1]
         /\ RequeueOldest(q)[Len(q)] =
              [seq |-> q[1].seq, msg |-> q[1].msg, sendCount |-> q[1].sendCount + 1]
<1>. DEFINE e == [Head(q) EXCEPT !.sendCount = @ + 1]
<1>1. /\ Head(q) \in Range(q) /\ Tail(q) \in Seq(Range(q)) /\ Head(q) = q[1]
      /\ Len(q) \in Nat /\ Len(q) >= 1 /\ Len(Tail(q)) = Len(q) - 1
      /\ \A j \in 1..(Len(q) - 1) : Tail(q)[j] = q[j + 1]
  BY HeadTailProperties, LenProperties, EmptySeq DEF IsQueue, IsSeq
<1>2. IsSeq(Tail(q)) /\ Range(Tail(q)) \subseteq Range(q)
  BY <1>1, RangeOver
<1>3. e = [seq |-> Head(q).seq, msg |-> Head(q).msg, sendCount |-> Head(q).sendCount + 1]
  <2>1. Head(q) = [seq |-> Head(q).seq, msg |-> Head(q).msg, sendCount |-> Head(q).sendCount]
    BY <1>1 DEF IsQueue, IsEntry
  <2>. QED
    BY <2>1
<1>4. IsEntry(e) /\ e.msg = Head(q).msg
  BY <1>3 DEF IsEntry
<1>. HIDE DEF e
<1>5. IsSeq(Append(Tail(q), e)) /\ Range(Append(Tail(q), e)) \subseteq Range(q) \cup {e}
  BY <1>2, RangeAppend
<1>6. \A x \in Range(Append(Tail(q), e)) : IsEntry(x) /\ x.msg \in Messages(q)
  BY <1>1, <1>4, <1>5 DEF IsQueue, Messages
<1>7. RequeueOldest(q) = Append(Tail(q), e)
  BY DEF RequeueOldest, e
<1>8. /\ Len(Append(Tail(q), e)) = Len(q)
      /\ \A j \in 1..(Len(q) - 1) : Append(Tail(q), e)[j] = q[j + 1]
      /\ Append(Tail(q), e)[Len(q)] = e
  <2>1. Tail(q) \in Seq(Range(q) \cup {e})
    BY <1>1, SeqMonotonic
  <2>. QED
    BY <1>1, <2>1, AppendProperties
<1>9. Messages(q) \subseteq Messages(Append(Tail(q), e))
  <2>. DEFINE r == Append(Tail(q), e)
  <2>1. DOMAIN r = 1..Len(q) /\ DOMAIN q = 1..Len(q)
    BY <1>1, <1>5, <1>8, LenProperties DEF IsSeq, IsQueue
  <2>2. SUFFICES ASSUME NEW i \in 1..Len(q) PROVE \E j \in DOMAIN r : r[j].msg = q[i].msg
    BY <2>1 DEF Messages, Range
  <2>3. CASE i = 1
    BY <1>1, <1>4, <1>8, <2>1, <2>3
  <2>4. CASE i # 1
    <3>1. i - 1 \in 1..(Len(q) - 1) /\ (i - 1) + 1 = i
      BY <1>1, <2>4
    <3>2. r[i - 1] = q[i]
      BY <1>8, <3>1
    <3>3. i - 1 \in DOMAIN r
      BY <1>1, <2>1, <3>1
    <3>. QED
      BY <3>2, <3>3
  <2>. QED
    BY <2>3, <2>4
<1>. QED
  BY <1>1, <1>3, <1>5, <1>6, <1>7, <1>8, <1>9 DEF IsQueue, Messages, Oldest

-----------------------------------------------------------------------------
(***************************************************************************)
(* What the operators of FilesystemClient and FilesystemServer return, for *)
(* every set of files and folders and every number of parts: the lemmas on *)
(* which the type invariant of a session rests.                            *)
(***************************************************************************)

\* A file has at most MaxParts parts, each of them a version.
LEMMA ContentFacts ==
  ASSUME NEW c \in Content
  PROVE  /\ Len(c) \in 0..MaxParts
         /\ c \in Seq(Version)
         /\ \A p \in Nat : p < Len(c) => c[p + 1] \in Version
<1>1. PICK n \in 0..MaxParts : c \in [1..n -> Version]
  BY DEF Content
<1>2. n \in Nat /\ MaxParts \in Nat
  BY FilesystemAssumption
<1>3. c \in Seq(Version) /\ Len(c) = n
  BY <1>1, <1>2
<1>. QED
  BY <1>1, <1>2, <1>3

\* The empty file.
LEMMA EmptyContent == <<>> \in Content
<1>1. <<>> \in [1..0 -> Version]
  OBVIOUS
<1>2. 0 \in 0..MaxParts
  BY FilesystemAssumption
<1>. QED
  BY <1>1, <1>2 DEF Content

\* A part that is read is data, unless the buffer was not filled.
LEMMA PartOfIsData ==
  ASSUME NEW c \in Content, NEW p \in Part, NEW else \in Data
  PROVE  PartOf(c, p, else) \in Data
<1>1. p \in Nat
  BY FilesystemAssumption DEF Part
<1>. QED
  BY <1>1, ContentFacts DEF PartOf, Data

\* A set of numbers has a least one.
LEMMA MinIsThere ==
  ASSUME NEW S, S \subseteq Nat, S # {}
  PROVE  Min(S) \in S
<1>1. \E i \in S : \A j \in S : i <= j
  BY LeastIsThere
<1>. QED
  BY <1>1 DEF Min

-----------------------------------------------------------------------------
(* File objects *)

\* A stream that was closed, and what the map has for an unknown file.
LEMMA ClosedFdType == ClosedFd \in [open : BOOLEAN, data : Content, pos : 0..MaxParts]
BY EmptyContent, FilesystemAssumption DEF ClosedFd

LEMMA NoObjectType == NoObject \in FileObject
<1>1. [p \in Part |-> NoCRC] \in [Part -> Data \cup {NoCRC}]
  OBVIOUS
<1>2. 0 \in 0..MaxParts
  BY FilesystemAssumption
<1>. QED
  BY <1>1, <1>2, EmptyContent, ClosedFdType DEF NoObject, FileObject

\* The parts of a file are numbered from 0.
LEMMA PartsOfContent ==
  ASSUME NEW c \in Content
  PROVE  0..(Len(c) - 1) \subseteq Part
<1>1. Len(c) \in Nat /\ Len(c) <= MaxParts /\ MaxParts \in Nat
  BY ContentFacts, FilesystemAssumption
<1>. QED
  BY <1>1 DEF Part

\* genFileOBJ.
LEMMA NewObjectType ==
  ASSUME NEW c \in Content
  PROVE  NewObject(c) \in FileObject
<1>1. [p \in Part |-> IF p < Len(c) THEN c[p + 1] ELSE NoCRC] \in [Part -> Data \cup {NoCRC}]
  <2>1. \A p \in Part : p \in Nat
    BY FilesystemAssumption DEF Part
  <2>. QED
    BY <2>1, ContentFacts DEF Data
<1>. QED
  BY <1>1, ContentFacts, PartsOfContent, ClosedFdType DEF NewObject, FileObject

\* genMap on a file that has changed.
LEMMA ChangedObjectType ==
  ASSUME NEW o \in FileObject, NEW c \in Content
  PROVE  ChangedObject(o, c) \in FileObject
<1>. DEFINE crc == IF SeemsShrunk(o, c) THEN [p \in Part |-> NoCRC] ELSE o.crc
            file == IF o.fd.open THEN o.fd.data ELSE c
            read == [p \in Part |-> PartOf(file, p, Garbage)]
            delta == {p \in 0..(Len(c) - 1) : crc[p] # read[p]}
            fresh == [p \in Part |-> IF p < Len(c) THEN read[p] ELSE crc[p]]
<1>1. file \in Content
  BY DEF FileObject
<1>2. crc \in [Part -> Data \cup {NoCRC}]
  BY DEF FileObject
<1>3. read \in [Part -> Data]
  BY <1>1, PartOfIsData DEF Data
<1>4. delta \subseteq Part
  BY PartsOfContent
<1>5. fresh \in [Part -> Data \cup {NoCRC}]
  BY <1>2, <1>3
<1>6. o.np \subseteq Part
  BY DEF FileObject
<1>7. (IF SeemsShrunk(o, c) THEN "no" ELSE "yes") \in {"no", "null", "yes"}
  OBVIOUS
<1>. HIDE DEF crc, read, delta, fresh
<1>8. [known |-> IF SeemsShrunk(o, c) THEN "no" ELSE "yes", hash |-> c, size |-> Len(c),
       np |-> o.np \cup delta, crc |-> fresh, fd |-> ClosedFd] \in FileObject
  BY <1>4, <1>5, <1>6, <1>7, ContentFacts, ClosedFdType DEF FileObject
<1>. QED
  BY <1>8 DEF ChangedObject, crc, read, delta, fresh

\* genMap on one file.
LEMMA IndexedObjectType ==
  ASSUME NEW o \in FileObject, NEW c \in Content \cup {Absent}
  PROVE  IndexedObject(o, c) \in FileObject
BY NoObjectType, NewObjectType, ChangedObjectType DEF IndexedObject

\* readFile returns data and leaves an object in the map.
LEMMA ReadFileType ==
  ASSUME NEW o \in FileObject, NEW c \in Content \cup {Absent}, NEW p \in Part
  PROVE  LET r == ReadFile(o, c, p) IN
         r.missing \in BOOLEAN /\ r.data \in Data /\ r.object \in FileObject
<1>0. Hole \in Data /\ Garbage \in Data
  BY DEF Data
<1>1. CASE o.known # "yes"
  <2>1. c # Absent => PartOf(c, p, Hole) \in Data
    BY <1>0, PartOfIsData
  <2>2. [o EXCEPT !.known = "null"] \in FileObject
    BY DEF FileObject
  <2>. QED
    BY <1>0, <1>1, <2>1, <2>2 DEF ReadFile
<1>2. CASE o.known = "yes" /\ ~o.fd.open /\ c = Absent
  <2>1. [o EXCEPT !.known = "no"] \in FileObject
    BY DEF FileObject
  <2>. QED
    BY <1>0, <1>2, <2>1 DEF ReadFile
<1>3. CASE o.known = "yes" /\ ~(~o.fd.open /\ c = Absent)
  <2>. DEFINE file == IF o.fd.open THEN o.fd.data ELSE c
              pos == IF p < Len(file) THEN p + 1 ELSE MaxParts
              fd == IF p + 1 >= o.size THEN ClosedFd
                    ELSE [open |-> TRUE, data |-> file, pos |-> pos]
  <2>1. file \in Content
    BY <1>3 DEF FileObject
  <2>2. p \in Nat /\ MaxParts \in Nat /\ p < MaxParts
    BY FilesystemAssumption DEF Part
  <2>3. pos \in 0..MaxParts
    BY <2>2
  <2>4. fd \in [open : BOOLEAN, data : Content, pos : 0..MaxParts]
    BY <2>1, <2>3, ClosedFdType
  <2>5. (IF p < o.size THEN PartOf(file, p, Garbage) ELSE Hole) \in Data
    BY <1>0, <2>1, PartOfIsData
  <2>. HIDE DEF fd
  <2>6. [o EXCEPT !.fd = fd] \in FileObject
    BY <2>4 DEF FileObject
  <2>. QED
    BY <1>3, <2>5, <2>6 DEF ReadFile, fd
<1>. QED
  BY <1>1, <1>2, <1>3

-----------------------------------------------------------------------------
(* Folder objects *)

\* Two numbers of the set have two places, between 1 and its size.
LEMMA PlacesDiffer ==
  ASSUME NEW S, S \subseteq Nat, IsFiniteSet(S)
  PROVE  /\ \A i \in S : Cardinality({j \in S : j <= i}) \in 1..Cardinality(S)
         /\ \A i, j \in S :
              Cardinality({x \in S : x <= i}) = Cardinality({x \in S : x <= j}) => i = j
<1>. DEFINE UpTo(i) == {j \in S : j <= i}
            n == Cardinality(S)
<1>1. n \in Nat
  BY FS_CardinalityType
<1>2. ASSUME NEW i \in S
      PROVE  IsFiniteSet(UpTo(i)) /\ Cardinality(UpTo(i)) \in 1..n
  <2>1. IsFiniteSet(UpTo(i)) /\ Cardinality(UpTo(i)) <= n
    BY FS_Subset
  <2>2. Cardinality(UpTo(i)) \in Nat
    BY <2>1, FS_CardinalityType
  <2>3. i \in UpTo(i)
    BY <1>2
  <2>4. Cardinality(UpTo(i)) # 0
    BY <2>1, <2>3, FS_EmptySet
  <2>. QED
    BY <1>1, <2>1, <2>2, <2>4
<1>3. ASSUME NEW i \in S, NEW j \in S, i < j
      PROVE  Cardinality(UpTo(i)) # Cardinality(UpTo(j))
  <2>1. i \in Nat /\ j \in Nat
    BY <1>3
  <2>2. j \in UpTo(j) /\ j \notin UpTo(i)
    BY <1>3, <2>1
  <2>3. ASSUME NEW x \in S, x <= i PROVE x <= j
    <3>1. x \in Nat
      OBVIOUS
    <3>. QED
      BY <1>3, <2>1, <2>3, <3>1
  <2>4. UpTo(i) \in SUBSET UpTo(j)
    BY <2>3
  <2>. QED
    BY <1>2, <2>2, <2>4, FS_Subset
<1>4. ASSUME NEW i \in S, NEW j \in S, Cardinality(UpTo(i)) = Cardinality(UpTo(j)) PROVE i = j
  <2>1. i \in Nat /\ j \in Nat
    BY <1>4
  <2>. QED
    BY <1>3, <1>4, <2>1
<1>. QED
  BY <1>2, <1>4

\* The members of a finite set of numbers are numbered without a gap: the
\* place of a number counts the members up to it.
LEMMA PlacesAreTaken ==
  ASSUME NEW S, S \subseteq Nat, IsFiniteSet(S), NEW k \in 1..Cardinality(S)
  PROVE  \E i \in S : Cardinality({j \in S : j <= i}) = k
<1>. DEFINE place == [i \in S |-> Cardinality({j \in S : j <= i})]
            n == Cardinality(S)
<1>1. n \in Nat
  BY FS_CardinalityType
<1>2. \A i \in S : Cardinality({j \in S : j <= i}) \in 1..n
  BY PlacesDiffer
<1>3. \A i, j \in S :
        Cardinality({x \in S : x <= i}) = Cardinality({x \in S : x <= j}) => i = j
  BY PlacesDiffer
<1>4. place \in [S -> 1..n]
  BY <1>2
<1>5. place \in Injection(S, 1..n)
  BY <1>3, <1>4 DEF Injection, IsInjective
<1>6. IsFiniteSet(1..n) /\ Cardinality(1..n) = n
  BY <1>1, FS_Interval
<1>7. place \in Surjection(S, 1..n)
  BY <1>5, <1>6, FS_Injection
<1>. QED
  BY <1>7 DEF Surjection

\* What stands at some places of a sequence, and nothing is left out.
LEMMA PickedFacts ==
  ASSUME NEW T, NEW s \in Seq(T), NEW places, places \subseteq DOMAIN s
  PROVE  /\ Picked(s, places) \in Seq(T)
         /\ \A k \in DOMAIN Picked(s, places) :
              \E i \in places : Picked(s, places)[k] = s[i]
         /\ \A i \in places : \E k \in DOMAIN Picked(s, places) : Picked(s, places)[k] = s[i]
<1>. DEFINE Place(i) == Cardinality({j \in places : j <= i})
            n == Cardinality(places)
            Nth(k) == CHOOSE i \in places : Place(i) = k
            picked == [k \in 1..n |-> s[Nth(k)]]
<1>1. places \subseteq 1..Len(s) /\ Len(s) \in Nat
  BY LenProperties
<1>2. IsFiniteSet(places) /\ places \subseteq Nat /\ n \in Nat
  <2>1. IsFiniteSet(1..Len(s))
    BY <1>1, FS_Interval
  <2>2. places \in SUBSET (1..Len(s))
    BY <1>1
  <2>3. IsFiniteSet(places)
    BY <2>1, <2>2, FS_Subset
  <2>. QED
    BY <1>1, <2>3, FS_CardinalityType
<1>3. Picked(s, places) = picked
  BY DEF Picked
<1>4. ASSUME NEW k \in 1..n PROVE Nth(k) \in places /\ Place(Nth(k)) = k
  <2>1. \E i \in places : Place(i) = k
    BY <1>2, PlacesAreTaken
  <2>. QED
    BY <2>1
<1>5. ASSUME NEW i \in places PROVE Place(i) \in 1..n /\ Nth(Place(i)) = i
  <2>1. Place(i) \in 1..n
    BY <1>2, PlacesDiffer
  <2>2. Nth(Place(i)) \in places /\ Place(Nth(Place(i))) = Place(i)
    BY <1>4, <2>1
  <2>. QED
    BY <1>2, <2>1, <2>2, PlacesDiffer
<1>. HIDE DEF n, Nth, Place
<1>6. picked \in Seq(T) /\ DOMAIN picked = 1..n
  <2>1. ASSUME NEW k \in 1..n PROVE s[Nth(k)] \in T
    BY <1>1, <1>4, ElementOfSeq
  <2>2. picked \in [1..n -> T]
    BY <2>1
  <2>. QED
    BY <1>2, <2>2
<1>7. \A k \in DOMAIN picked : \E i \in places : picked[k] = s[i]
  BY <1>4, <1>6
<1>8. ASSUME NEW i \in places PROVE \E k \in DOMAIN picked : picked[k] = s[i]
  <2>1. Place(i) \in DOMAIN picked /\ picked[Place(i)] = s[i]
    BY <1>5, <1>6
  <2>. QED
    BY <2>1
<1>. HIDE DEF picked
<1>. QED
  BY <1>3, <1>6, <1>7, <1>8

\* The folders genMap finds: those of the directory that it does not treat as
\* known, none of which was created.
LEMMA FoundFoldersFacts ==
  ASSUME NEW folders, NEW ds, ds \subseteq Folder
  PROVE  /\ FoundFolders(folders, ds) \in Seq(FolderObject)
         /\ \A k \in DOMAIN FoundFolders(folders, ds) :
              /\ FoundFolders(folders, ds)[k].path \in ds
              /\ ~TreatedAsKnown(folders, FoundFolders(folders, ds)[k].path)
              /\ FoundFolders(folders, ds)[k].pending
         /\ \A d \in ds : ~TreatedAsKnown(folders, d) =>
              \E k \in DOMAIN FoundFolders(folders, ds) : FoundFolders(folders, ds)[k].path = d
<1>. DEFINE Object(d) == [path |-> d, created |-> FALSE, pending |-> TRUE]
            all == [i \in DOMAIN FolderOrder |-> Object(FolderOrder[i])]
            new == {i \in DOMAIN FolderOrder :
                      FolderOrder[i] \in ds /\ ~TreatedAsKnown(folders, FolderOrder[i])}
            found == FoundFolders(folders, ds)
<1>1. /\ DOMAIN FolderOrder = 1..Len(FolderOrder) /\ Len(FolderOrder) \in Nat
      /\ \A i \in DOMAIN FolderOrder : FolderOrder[i] \in Folder
  BY FilesystemAssumption, ElementOfSeq, LenProperties
<1>2. \A d \in Folder : Object(d) \in FolderObject
  BY DEF FolderObject, Path
<1>3. all \in Seq(FolderObject) /\ DOMAIN all = DOMAIN FolderOrder
  <2>1. all \in [1..Len(FolderOrder) -> FolderObject]
    BY <1>1, <1>2
  <2>. QED
    BY <1>1, <2>1
<1>4. found = Picked(all, new) /\ new \subseteq DOMAIN all
  <2>1. new \subseteq DOMAIN all
    BY <1>3
  <2>. QED
    BY <2>1 DEF FoundFolders
<1>5. \A i \in DOMAIN all : all[i] = Object(FolderOrder[i])
  BY <1>3
<1>6. \A d : Object(d).path = d /\ Object(d).pending
  OBVIOUS
<1>. HIDE DEF all, found, Object, new
<1>7. /\ found \in Seq(FolderObject)
      /\ \A k \in DOMAIN found : \E i \in new : found[k] = all[i]
      /\ \A i \in new : \E k \in DOMAIN found : found[k] = all[i]
  BY <1>3, <1>4, PickedFacts
<1>8. \A k \in DOMAIN found :
        found[k].path \in ds /\ ~TreatedAsKnown(folders, found[k].path) /\ found[k].pending
  BY <1>3, <1>5, <1>6, <1>7 DEF new
<1>9. ASSUME NEW d \in ds, ~TreatedAsKnown(folders, d)
      PROVE  \E k \in DOMAIN found : found[k].path = d
  <2>1. PICK i \in DOMAIN FolderOrder : FolderOrder[i] = d
    BY FilesystemAssumption
  <2>2. i \in new
    BY <1>9, <2>1 DEF new
  <2>3. PICK k \in DOMAIN found : found[k] = all[i]
    BY <1>7, <2>2
  <2>. QED
    BY <1>3, <1>5, <1>6, <2>1, <2>3
<1>. QED
  BY <1>7, <1>8, <1>9 DEF found

\* What getWorkingSet keeps of the folders.
LEMMA KeptFoldersType ==
  ASSUME NEW folders \in Seq(FolderObject), NEW ds
  PROVE  KeptFolders(folders, ds) \in Seq(FolderObject)
BY PickedFacts DEF KeptFolders

\* getWorkingSet.
LEMMA IndexType ==
  ASSUME NEW l \in Library, NEW d \in [File -> Content \cup {Absent}],
         NEW ds, ds \subseteq Folder
  PROVE  Index(l, d, ds).lib \in Library /\ Index(l, d, ds).ws \in WorkingSet
<1>. DEFINE fresh  == {f \in File : d[f] # Absent /\ (l.file[f].known # "yes" \/ IsChanged(l.file[f], d[f]))}
            resend == {f \in fresh : IsChanged(l.file[f], d[f]) /\ SeemsShrunk(l.file[f], d[f])}
            gone   == {f \in File : d[f] = Absent /\ l.file[f].known # "no"}
            old    == [i \in DOMAIN l.folders |-> [l.folders[i] EXCEPT !.pending = FALSE]]
            found  == FoundFolders(old, ds)
            root   == IF fresh # {} \/ found # <<>>
                      THEN <<[path |-> Root, created |-> FALSE, pending |-> TRUE]>> ELSE <<>>
            all    == old \o found \o root
            file   == [f \in File |-> IndexedObject(l.file[f], d[f])]
            kept   == KeptFolders(all, ds)
            drop   == {all[i].path : i \in Erased(all, ds)}
<1>1. l.folders \in Seq(FolderObject) /\ l.file \in [File -> FileObject]
  BY DEF Library
<1>2. old \in Seq(FolderObject)
  <2>1. ASSUME NEW i \in 1..Len(l.folders)
        PROVE  [l.folders[i] EXCEPT !.pending = FALSE] \in FolderObject
    <3>1. l.folders[i] \in FolderObject
      BY <1>1, ElementOfSeq
    <3>. QED
      BY <3>1 DEF FolderObject
  <2>2. DOMAIN l.folders = 1..Len(l.folders) /\ Len(l.folders) \in Nat
    BY <1>1, LenProperties
  <2>3. old \in [1..Len(l.folders) -> FolderObject]
    BY <2>1, <2>2
  <2>. QED
    BY <2>2, <2>3
<1>3. found \in Seq(FolderObject)
  BY FoundFoldersFacts
<1>4. root \in Seq(FolderObject)
  <2>1. [path |-> Root, created |-> FALSE, pending |-> TRUE] \in FolderObject
    BY DEF FolderObject, Path
  <2>. QED
    BY <2>1
<1>. HIDE DEF old, found, root
<1>5. all \in Seq(FolderObject)
  BY <1>2, <1>3, <1>4
<1>6. kept \in Seq(FolderObject)
  BY <1>5, KeptFoldersType
<1>7. drop \subseteq Folder
  <2>1. ASSUME NEW i \in Erased(all, ds) PROVE all[i].path \in Folder
    <3>1. i \in DOMAIN all /\ all[i].path # Root
      BY DEF Erased
    <3>2. all[i] \in FolderObject
      BY <1>5, <3>1, ElementOfSeq, LenProperties
    <3>. QED
      BY <3>1, <3>2 DEF FolderObject, Path
  <2>. QED
    BY <2>1
<1>8. file \in [File -> FileObject]
  BY <1>1, IndexedObjectType
<1>9. fresh \subseteq File /\ resend \cup gone \subseteq File
  OBVIOUS
<1>10. Index(l, d, ds) =
         [lib |-> [file |-> file, folders |-> kept],
          ws  |-> [files |-> fresh, delFiles |-> resend \cup gone, delFolders |-> drop,
                   cur |-> NoFile]]
  BY DEF Index, old, found, root
<1>. HIDE DEF file, kept, fresh, resend, gone, drop
<1>11. [file |-> file, folders |-> kept] \in Library
  BY <1>6, <1>8 DEF Library
<1>12. [files |-> fresh, delFiles |-> resend \cup gone, delFolders |-> drop, cur |-> NoFile]
         \in WorkingSet
  BY <1>7, <1>9 DEF WorkingSet, FileKey
<1>. QED
  BY <1>10, <1>11, <1>12

\* deleteCurFile.
LEMMA DropSentCurFileType ==
  ASSUME NEW w \in WorkingSet, NEW l
  PROVE  DropSentCurFile(w, l) \in WorkingSet
BY DEF DropSentCurFile, WorkingSet, FileKey

\* The places of the folders that are still to be announced.
LEMMA PendingFolderIsThere ==
  ASSUME NEW l \in Library, PendingFolders(l) # {}
  PROVE  /\ Min(PendingFolders(l)) \in 1..Len(l.folders)
         /\ l.folders[Min(PendingFolders(l))] \in FolderObject
<1>1. l.folders \in Seq(FolderObject)
  BY DEF Library
<1>2. PendingFolders(l) \subseteq 1..Len(l.folders) /\ Len(l.folders) \in Nat
  BY <1>1, LenProperties DEF PendingFolders
<1>3. PendingFolders(l) \subseteq Nat
  BY <1>2
<1>4. Min(PendingFolders(l)) \in 1..Len(l.folders)
  BY <1>2, <1>3, MinIsThere
<1>. QED
  BY <1>1, <1>4, ElementOfSeq

\* The user changes files and folders.
LEMMA UserChangeType ==
  ASSUME FilesTypeOK, UserChange
  PROVE  FilesTypeOK'
<1>. USE DEF FilesTypeOK
<1>0. MaxChanges \in Nat /\ (Change => changes' \in 0..MaxChanges)
  BY FilesystemAssumption DEF Change
<1>1. ASSUME NEW f \in File, SaveFile(f) PROVE FilesTypeOK'
  BY <1>0, <1>1 DEF SaveFile
<1>2. ASSUME NEW f \in File, RemoveFile(f) PROVE FilesTypeOK'
  BY <1>0, <1>2 DEF RemoveFile
<1>3. ASSUME NEW d \in Folder, MakeFolder(d) PROVE FilesTypeOK'
  BY <1>0, <1>3 DEF MakeFolder
<1>4. ASSUME NEW d \in Folder, RemoveFolder(d) PROVE FilesTypeOK'
  BY <1>0, <1>4 DEF RemoveFolder
<1>. QED
  BY <1>1, <1>2, <1>3, <1>4 DEF UserChange

\* The directory of the program when it starts.
LEMMA FilesystemClientInitType == FilesystemClientInit => FilesTypeOK
<1>. SUFFICES ASSUME FilesystemClientInit PROVE FilesTypeOK
  OBVIOUS
<1>1. disk \in [File -> Content \cup {Absent}] /\ dirs \subseteq Folder
  BY FilesystemAssumption DEF FilesystemClientInit
<1>2. lib \in Library
  <2>1. [f \in File |-> NoObject] \in [File -> FileObject] /\ <<>> \in Seq(FolderObject)
    BY NoObjectType
  <2>. QED
    BY <2>1 DEF FilesystemClientInit, Library
<1>3. ws \in WorkingSet
  BY DEF FilesystemClientInit, EmptyWorkingSet, WorkingSet, FileKey
<1>4. changes \in 0..MaxChanges
  BY FilesystemAssumption DEF FilesystemClientInit
<1>. QED
  BY <1>1, <1>2, <1>3, <1>4 DEF FilesTypeOK

-----------------------------------------------------------------------------
(* The directory on the server *)

\* A part is written at its place.
LEMMA WithPartType ==
  ASSUME NEW c \in Seq(Data), NEW p \in Part, NEW v \in Data
  PROVE  WithPart(c, p, v) \in Seq(Data)
<1>. DEFINE n == IF p < Len(c) THEN Len(c) ELSE p + 1
            new == [i \in 1..n |-> IF i = p + 1 THEN v ELSE IF i <= Len(c) THEN c[i] ELSE Hole]
<1>1. p \in Nat
  BY FilesystemAssumption DEF Part
<1>2. n \in Nat
  BY <1>1
<1>3. \A i \in 1..n : i <= Len(c) => c[i] \in Data
  BY <1>2
<1>4. Hole \in Data
  BY DEF Data
<1>. HIDE DEF n
<1>5. new \in [1..n -> Data]
  BY <1>3, <1>4
<1>6. new \in Seq(Data)
  BY <1>2, <1>5
<1>. QED
  BY <1>6 DEF WithPart, n

\* FilesystemServer: every operation on the directory.
LEMMA FsServerTypes ==
  ASSUME FsServerTypeOK
  PROVE  /\ \A path : GenFolder(path) => FsServerTypeOK'
         /\ \A f \in FileKey : GenFile(f) => FsServerTypeOK'
         /\ \A f : DelFile(f) => FsServerTypeOK'
         /\ \A d : RemoveEmptyFolder(d) => FsServerTypeOK'
         /\ \A f \in FileKey, p \in Part, v \in Data : WriteFilePart(f, p, v) => FsServerTypeOK'
<1>. USE DEF FsServerTypeOK
<1>1. ASSUME NEW path, GenFolder(path) PROVE FsServerTypeOK'
  <2>1. path \in Folder => Above[path] \subseteq Folder
    BY FilesystemAssumption
  <2>. QED
    BY <1>1, <2>1 DEF GenFolder
<1>2. ASSUME NEW f \in FileKey, GenFile(f) PROVE FsServerTypeOK'
  <2>1. <<>> \in Seq(Data) \cup {Absent}
    OBVIOUS
  <2>2. sDisk' = sDisk \/ sDisk' = [sDisk EXCEPT ![f] = <<>>]
    BY <1>2 DEF GenFile
  <2>. QED
    BY <1>2, <2>1, <2>2 DEF GenFile
<1>3. \A f : DelFile(f) => FsServerTypeOK'
  BY DEF DelFile
<1>4. \A d : RemoveEmptyFolder(d) => FsServerTypeOK'
  BY DEF RemoveEmptyFolder
<1>5. ASSUME NEW f \in FileKey, NEW p \in Part, NEW v \in Data, WriteFilePart(f, p, v)
      PROVE  FsServerTypeOK'
  <2>1. CASE f = NoFile
    BY <1>5, <2>1 DEF WriteFilePart, fsServerVars
  <2>2. CASE f # NoFile /\ sDisk[f] = Absent
    <3>1. 0 \in Part
      BY FilesystemAssumption DEF Part
    <3>. QED
      BY <1>5, <2>2, <3>1 DEF WriteFilePart
  <2>3. CASE f # NoFile /\ sDisk[f] # Absent
    <3>1. f \in File
      BY <2>3 DEF FileKey
    <3>2. WithPart(sDisk[f], p, v) \in Seq(Data)
      BY <2>3, <3>1, WithPartType
    <3>. QED
      BY <1>5, <2>3, <3>1, <3>2 DEF WriteFilePart
  <2>. QED
    BY <2>1, <2>2, <2>3
<1>. QED
  BY <1>1, <1>2, <1>3, <1>4, <1>5

-----------------------------------------------------------------------------
(* The client, the server and the network *)

\* The identity the client starts with is one of its own.
LEMMA ClientIds == ClientId \subseteq Nat /\ 1 \in ClientId
BY ClientAssumption, ServerAssumption DEF ClientId

-----------------------------------------------------------------------------
(* Queues and channels *)

\* A datagram that is delivered or lost leaves a channel of the same type.
LEMMA RemoveAtType ==
  ASSUME NEW T, NEW s \in Seq(T), NEW i \in DOMAIN s
  PROVE  s[i] \in T /\ RemoveAt(s, i) \in Seq(T)
<1>1. IsSeq(s) /\ Range(s) \subseteq T
  BY RangeOver
<1>2. RemoveAt(s, i) \in Seq(Range(RemoveAt(s, i))) /\ Range(RemoveAt(s, i)) \subseteq T
  BY <1>1, RangeRemoveAt DEF IsSeq
<1>. QED
  BY <1>2, SeqMonotonic, ElementOfSeq, LenProperties

\* So does one that is duplicated.
LEMMA InsertAtType ==
  ASSUME NEW T, NEW s \in Seq(T), NEW i \in DOMAIN s
  PROVE  InsertAt(s, i, s[i]) \in Seq(T)
<1>1. IsSeq(s) /\ Range(s) \subseteq T /\ s[i] \in T
  BY RangeOver, RemoveAtType
<1>2. /\ InsertAt(s, i, s[i]) \in Seq(Range(InsertAt(s, i, s[i])))
      /\ Range(InsertAt(s, i, s[i])) \subseteq T
  BY <1>1, RangeInsertAt DEF IsSeq
<1>. QED
  BY <1>2, SeqMonotonic

\* pushSendMessage.
LEMMA PushType ==
  ASSUME NEW M, NEW q \in Seq(Entry(M)), NEW seq \in Nat, NEW msg \in M
  PROVE  PushSendMessage(q, seq, msg) \in Seq(Entry(M))
<1>1. [seq |-> seq, msg |-> msg, sendCount |-> 1] \in Entry(M)
  BY DEF Entry
<1>. QED
  BY <1>1 DEF PushSendMessage

\* onSequenceNumberAck.
LEMMA AckType ==
  ASSUME NEW M, NEW q \in Seq(Entry(M)), NEW seq, IsQueued(q, seq)
  PROVE  OnSequenceNumberAck(q, seq) \in Seq(Entry(M))
<1>1. FirstQueued(q, seq) \in DOMAIN q
  BY RangeOver, FirstQueuedIsThere
<1>. QED
  BY <1>1, RemoveAtType DEF OnSequenceNumberAck

\* popNotAckedMessages and the tick that sends the message again.
LEMMA RequeueType ==
  ASSUME NEW M, NEW q \in Seq(Entry(M)), q # <<>>
  PROVE  Oldest(q).msg \in M /\ RequeueOldest(q) \in Seq(Entry(M))
<1>1. Head(q) \in Entry(M) /\ Tail(q) \in Seq(Entry(M))
  BY HeadTailProperties
<1>2. [Head(q) EXCEPT !.sendCount = @ + 1] \in Entry(M)
  BY <1>1 DEF Entry
<1>. QED
  BY <1>1, <1>2 DEF Entry, Oldest, RequeueOldest

\* The operations of the timer.
LEMMA TimerTypes ==
  ASSUME NEW t \in TimerType
  PROVE  /\ StartTimer(t) \in TimerType
         /\ ResetTimer(t) \in TimerType
         /\ LeftLoop(t) \in TimerType
         /\ \A self : StopTimer(self, t) \in TimerType
BY DEF TimerType, StartTimer, ResetTimer, LeftLoop, StopTimer

-----------------------------------------------------------------------------
(* Datagrams *)

\* What the client sends is a datagram to the server.
LEMMA UpMessages ==
  ASSUME cId \in ClientId, cPw \in Passwords, cPort \in Nat, NEW seq \in Nat
  PROVE  /\ ClientHello \in UpMessage
         /\ AuthRequest(seq) \in UpMessage
         /\ UpAck(seq) \in UpMessage
         /\ PingMessage(seq) \in UpMessage
         /\ \A f \in File : FileStatus(seq, f) \in UpMessage
         /\ \A f \in FileKey : FileCreation(seq, "ft_file", f) \in UpMessage
         /\ \A d \in Path : FileCreation(seq, "ft_folder", d) \in UpMessage
         /\ \A x \in File \cup Folder : FileCreation(seq, "ft_del_file", x) \in UpMessage
         /\ \A p \in Part, v \in Data : FileTransfer(seq, p, v) \in UpMessage
         /\ TransferEnded \in UpMessage
<1>. USE DEF UpMessage
<1>1. ClientHello \in UpMessage
  BY DEF ClientHello
<1>2. AuthRequest(seq) \in UpMessage
  BY DEF AuthRequest
<1>3. UpAck(seq) \in UpMessage /\ PingMessage(seq) \in UpMessage
  BY DEF UpAck, PingMessage
<1>4. ASSUME NEW f \in File PROVE FileStatus(seq, f) \in UpMessage
  BY DEF FileStatus, FileKey
<1>5. ASSUME NEW f \in FileKey PROVE FileCreation(seq, "ft_file", f) \in UpMessage
  BY DEF FileCreation
<1>6. ASSUME NEW d \in Path PROVE FileCreation(seq, "ft_folder", d) \in UpMessage
  BY DEF FileCreation, NamesFor
<1>7. ASSUME NEW x \in File \cup Folder PROVE FileCreation(seq, "ft_del_file", x) \in UpMessage
  BY DEF FileCreation, NamesFor
<1>8. ASSUME NEW p \in Part, NEW v \in Data PROVE FileTransfer(seq, p, v) \in UpMessage
  BY DEF FileTransfer
<1>9. TransferEnded \in UpMessage
  BY DEF TransferEnded
<1>. QED
  BY <1>1, <1>2, <1>3, <1>4, <1>5, <1>6, <1>7, <1>8, <1>9

\* What the server sends is a datagram to a client.
LEMMA DownMessages ==
  ASSUME NEW seq \in Nat, NEW dst \in Nat
  PROVE  /\ \A id \in ClientId, flags \in {"accepted", "idTaken"} :
              ServerHello(id, dst, flags) \in DownMessage
         /\ \A ok \in BOOLEAN : AuthResult(seq, dst, ok) \in DownMessage
         /\ DownAck(seq, dst) \in DownMessage
         /\ \A last \in Part : FileStatusAnswer(seq, dst, last) \in DownMessage
         /\ ToDoMessage(seq, dst) \in DownMessage
<1>. USE DEF DownMessage
<1>1. ASSUME NEW id \in ClientId, NEW flags \in {"accepted", "idTaken"}
      PROVE  ServerHello(id, dst, flags) \in DownMessage
  BY DEF ServerHello
<1>2. ASSUME NEW ok \in BOOLEAN PROVE AuthResult(seq, dst, ok) \in DownMessage
  BY DEF AuthResult
<1>3. DownAck(seq, dst) \in DownMessage /\ ToDoMessage(seq, dst) \in DownMessage
  BY DEF DownAck, ToDoMessage
<1>4. ASSUME NEW last \in Part PROVE FileStatusAnswer(seq, dst, last) \in DownMessage
  BY DEF FileStatusAnswer
<1>. QED
  BY <1>1, <1>2, <1>3, <1>4

\* What the server finds in a datagram of each type.
LEMMA UpByType ==
  ASSUME NEW m \in UpMessage
  PROVE  /\ m.type = "ClientHello" => m.dst \in Nat /\ m.id \in ClientId
         /\ m.type # "ClientHello" => m.to \in ClientId
         /\ m.type \in {"AuthRequest", "Ack", "Ping", "FileStatus", "FileCreation", "FileTransfer"}
              => m.seq \in Nat
         /\ m.type = "FileStatus" => m.fid \in FileKey
         /\ m.type = "FileCreation" /\ m.kind = "ft_file" => m.fid \in FileKey
         /\ m.type = "FileTransfer" => m.part \in Part /\ m.data \in Data
BY DEF UpMessage

\* What is sent again goes under the same number, and no password but the one
\* of the client can be accepted.
LEMMA ResentFacts ==
  ASSUME NEW m \in UpMessage, NEW n \in Resent(m)
  PROVE  /\ n \in UpMessage
         /\ n.type = m.type /\ SameMessage(n, m)
         /\ n.type = "AuthRequest" => n = m \/ n.pw # Password
         /\ n.type \in {"Ack", "Ping"} => n = m
<1>1. CASE n = m
  BY <1>1 DEF SameMessage
<1>2. CASE m.type = "FileTransfer" /\ n = [m EXCEPT !.data = Garbage]
  <2>1. m \in [type : {"FileTransfer"}, seq : Nat, to : ClientId, part : Part, data : Data]
    BY <1>2 DEF UpMessage
  <2>2. n \in [type : {"FileTransfer"}, seq : Nat, to : ClientId, part : Part, data : Data]
    BY <1>2, <2>1 DEF Data
  <2>. QED
    BY <1>2, <2>1, <2>2 DEF UpMessage, SameMessage
<1>3. CASE m.type = "FileCreation" /\ \E name \in NamesFor(m.kind) : n = [m EXCEPT !.fid = name]
  <2>1. PICK name \in NamesFor(m.kind) : n = [m EXCEPT !.fid = name]
    BY <1>3
  <2>. DEFINE Creation(kind, names) ==
                [type : {"FileCreation"}, seq : Nat, to : ClientId, kind : {kind}, fid : names]
  <2>2. \/ m \in Creation("ft_file", FileKey)
        \/ m \in Creation("ft_folder", NamesFor("ft_folder"))
        \/ m \in Creation("ft_del_file", NamesFor("ft_del_file"))
    BY <1>3 DEF UpMessage
  <2>3. NamesFor("ft_file") = FileKey
    BY DEF NamesFor
  <2>4. ASSUME NEW kind, m \in Creation(kind, NamesFor(kind))
        PROVE  n \in Creation(kind, NamesFor(kind)) /\ SameMessage(n, m)
    BY <2>1, <2>4 DEF SameMessage
  <2>5. \/ n \in Creation("ft_file", FileKey)
        \/ n \in Creation("ft_folder", NamesFor("ft_folder"))
        \/ n \in Creation("ft_del_file", NamesFor("ft_del_file"))
    BY <2>2, <2>3, <2>4
  <2>6. n \in UpMessage /\ n.type = "FileCreation" /\ SameMessage(n, m)
    BY <2>2, <2>3, <2>4, <2>5 DEF UpMessage
  <2>. QED
    BY <1>3, <2>6
<1>4. CASE m.type = "FileStatus" /\ \E name \in FileKey : n = [m EXCEPT !.fid = name]
  <2>1. PICK name \in FileKey : n = [m EXCEPT !.fid = name]
    BY <1>4
  <2>2. m \in [type : {"FileStatus"}, seq : Nat, to : ClientId, fid : FileKey]
    BY <1>4 DEF UpMessage
  <2>3. n \in [type : {"FileStatus"}, seq : Nat, to : ClientId, fid : FileKey]
    BY <2>1, <2>2
  <2>. QED
    BY <2>1, <2>2, <2>3 DEF UpMessage, SameMessage
<1>5. CASE /\ m.type = "AuthRequest"
           /\ \E pw \in Passwords \ {Password} : n = [m EXCEPT !.pw = pw]
  <2>1. PICK pw \in Passwords \ {Password} : n = [m EXCEPT !.pw = pw]
    BY <1>5
  <2>2. m \in [type : {"AuthRequest"}, seq : Nat, to : ClientId, pw : Passwords]
    BY <1>5 DEF UpMessage
  <2>3. n \in [type : {"AuthRequest"}, seq : Nat, to : ClientId, pw : Passwords]
        /\ n.pw # Password
    BY <2>1, <2>2
  <2>. QED
    BY <2>1, <2>2, <2>3 DEF UpMessage, SameMessage
<1>. QED
  BY <1>1, <1>2, <1>3, <1>4, <1>5 DEF Resent

\* What the client finds in one.
LEMMA DownByType ==
  ASSUME NEW m \in DownMessage
  PROVE  /\ m.seq \in Nat
         /\ m.dst \in Nat
         /\ m.type = "AuthResult" => m.ok \in BOOLEAN
BY DEF DownMessage

-----------------------------------------------------------------------------
(* setState of the client *)

\* What a handler may have in its hands when it enters a state.
HandlerArguments(tm, q, out, sq) ==
  /\ tm \in TimerType
  /\ q \in Seq(Entry(UpMessage))
  /\ out \in Seq(UpMessage)
  /\ sq \in 0..MaxSeq

\* What it leaves, in what setState and sendNextFilePart change.
HandlerResults ==
  /\ cState' \in ClientStates
  /\ cTimer' \in TimerType
  /\ cQueue' \in Seq(Entry(UpMessage))
  /\ cSeq' \in 0..MaxSeq
  /\ up' \in Seq(UpMessage)
  /\ ended' \in Nat
  /\ lib' \in Library
  /\ ws' \in WorkingSet

\* A message that is sent and filed.
LEMMA SendAndWaitType ==
  ASSUME TypeOK, NEW tm, NEW q, NEW out, NEW sq, HandlerArguments(tm, q, out, sq),
         NEW state \in ClientStates, NEW msg \in UpMessage,
         lib' \in Library, ws' \in WorkingSet,
         SendAndWait(state, tm, q, out, sq, msg)
  PROVE  HandlerResults
<1>1. sq \in Nat /\ MaxSeq \in Nat
  BY ClientAssumption DEF HandlerArguments
<1>2. cQueue' \in Seq(Entry(UpMessage))
  BY <1>1, PushType DEF HandlerArguments, SendAndWait
<1>3. cSeq' \in 0..MaxSeq
  BY <1>1 DEF SendAndWait
<1>4. up' \in Seq(UpMessage)
  <2>1. up \in Seq(UpMessage) /\ Append(out, msg) \in Seq(UpMessage)
    BY DEF HandlerArguments, TypeOK, NetTypeOK
  <2>. QED
    BY <2>1 DEF SendAndWait
<1>. QED
  BY <1>2, <1>3, <1>4 DEF HandlerArguments, HandlerResults, SendAndWait, TypeOK, ClientTypeOK

\* A file creation message starts the timer.
LEMMA SendCreationType ==
  ASSUME TypeOK, NEW tm, NEW q, NEW out, NEW sq, HandlerArguments(tm, q, out, sq),
         NEW kind, NEW path, FileCreation(sq, kind, path) \in UpMessage,
         lib' \in Library, ws' \in WorkingSet,
         SendCreation(tm, q, out, sq, kind, path)
  PROVE  HandlerResults
<1>1. HandlerArguments(StartTimer(tm), q, out, sq)
  BY TimerTypes DEF HandlerArguments
<1>2. "awaitingAck" \in ClientStates
  BY DEF ClientStates
<1>. QED
  BY <1>1, <1>2, SendAndWaitType DEF SendCreation

\* A part of the current file.
LEMMA SendFilePartType ==
  ASSUME TypeOK, NEW tm, NEW q, NEW out, NEW sq, HandlerArguments(tm, q, out, sq),
         NEW w \in WorkingSet, NEW l \in Library, CurFileHasParts(w, l),
         SendFilePart(tm, q, out, sq, w, l)
  PROVE  HandlerResults
<1>. DEFINE f == w.cur
            p == NextPartOf(l.file[f])
            r == ReadFile(l.file[f], disk[f], p)
            o == IF r.missing THEN r.object ELSE [r.object EXCEPT !.np = @ \ {p}]
<1>1. f \in File
  BY DEF CurFileHasParts, WorkingSet, FileKey
<1>2. l.file \in [File -> FileObject] /\ l.file[f] \in FileObject
  BY <1>1 DEF Library
<1>3. p \in Part
  <2>1. l.file[f].np # {} /\ l.file[f].np \subseteq Part
    BY <1>2 DEF CurFileHasParts, FileObject
  <2>2. Part \subseteq Nat
    BY FilesystemAssumption DEF Part
  <2>. QED
    BY <2>1, <2>2, MinIsThere DEF NextPartOf
<1>4. disk[f] \in Content \cup {Absent}
  BY <1>1 DEF TypeOK, FilesTypeOK
<1>5. r.data \in Data /\ r.object \in FileObject
  BY <1>2, <1>3, <1>4, ReadFileType
<1>. HIDE DEF f, p, r
<1>6. o \in FileObject
  BY <1>5 DEF FileObject
<1>7. lib' \in Library
  <2>1. lib' = [l EXCEPT !.file[f] = o]
    BY DEF SendFilePart, f, p, r
  <2>. HIDE DEF o
  <2>. QED
    BY <1>2, <1>6, <2>1 DEF Library
<1>8. ws' \in WorkingSet
  <2>1. ws' = [w EXCEPT !.files = @ \ {f}] \/ ws' = w
    BY DEF SendFilePart, f, p, r
  <2>. QED
    BY <2>1 DEF WorkingSet
<1>9. HandlerArguments(StartTimer(tm), q, out, sq) /\ sq \in Nat
  BY ClientAssumption, TimerTypes DEF HandlerArguments
<1>10. "awaitingAck" \in ClientStates
  BY DEF ClientStates
<1>11. CASE r.missing
  <2>1. /\ cState' = "awaitingAck" /\ cTimer' = StartTimer(tm) /\ cQueue' = q
        /\ cSeq' = sq /\ up' = up \o out /\ ended' = ended
    BY <1>11 DEF SendFilePart, f, p, r
  <2>2. up \in Seq(UpMessage) /\ out \in Seq(UpMessage)
    BY DEF HandlerArguments, TypeOK, NetTypeOK
  <2>3. up' \in Seq(UpMessage)
    BY <2>1, <2>2
  <2>. QED
    BY <1>7, <1>8, <1>9, <1>10, <2>1, <2>3
       DEF HandlerArguments, HandlerResults, TypeOK, ClientTypeOK
<1>12. CASE ~r.missing
  <2>1. SendAndWait("awaitingAck", StartTimer(tm), q, out, sq, FileTransfer(sq, p, r.data))
    BY <1>12 DEF SendFilePart, f, p, r
  <2>2. FileTransfer(sq, p, r.data) \in UpMessage
    <3>1. cId \in ClientId /\ cPw \in Passwords /\ cPort \in Nat
      BY ClientAssumption DEF TypeOK, ClientTypeOK
    <3>. QED
      BY <1>3, <1>5, <1>9, <3>1, UpMessages
  <2>. QED
    BY <1>7, <1>8, <1>9, <1>10, <2>1, <2>2, SendAndWaitType
<1>. QED
  BY <1>11, <1>12

\* sendNextFilePart.
LEMMA SendFromType ==
  ASSUME TypeOK, NEW tm, NEW q, NEW out, NEW sq, HandlerArguments(tm, q, out, sq),
         NEW w \in WorkingSet, NEW l \in Library,
         SendFrom(tm, q, out, sq, w, l)
  PROVE  HandlerResults
<1>0. sq \in Nat /\ cId \in ClientId /\ cPw \in Passwords /\ cPort \in Nat
  BY ClientAssumption DEF HandlerArguments, TypeOK, ClientTypeOK
<1>1. CASE CurFileHasParts(w, l) /\ SendFilePart(tm, q, out, sq, w, l)
  BY <1>1, SendFilePartType
<1>2. CASE SendDeletion(tm, q, out, sq, w, l)
  <2>1. ASSUME NEW x \in File \cup Folder, SendCreation(tm, q, out, sq, "ft_del_file", x),
               lib' = l, ws' \in WorkingSet
        PROVE  HandlerResults
    BY <1>0, <2>1, UpMessages, SendCreationType
  <2>2. ASSUME NEW f \in w.delFiles, SendCreation(tm, q, out, sq, "ft_del_file", f),
               ws' = [w EXCEPT !.delFiles = @ \ {f}], lib' = l
        PROVE  HandlerResults
    <3>1. f \in File /\ ws' \in WorkingSet
      BY <2>2 DEF WorkingSet
    <3>. QED
      BY <2>1, <2>2, <3>1
  <2>3. ASSUME NEW d \in w.delFolders, SendCreation(tm, q, out, sq, "ft_del_file", d),
               ws' = [w EXCEPT !.delFolders = @ \ {d}], lib' = l
        PROVE  HandlerResults
    <3>1. d \in Folder /\ ws' \in WorkingSet
      BY <2>3 DEF WorkingSet
    <3>. QED
      BY <2>1, <2>3, <3>1
  <2>. QED
    BY <1>2, <2>2, <2>3 DEF SendDeletion
<1>3. CASE PendingFolders(l) # {} /\ SendFolder(tm, q, out, sq, w, l)
  <2>. DEFINE i == Min(PendingFolders(l))
              sent == [l.folders[i] EXCEPT !.created = TRUE, !.pending = FALSE]
  <2>1. i \in 1..Len(l.folders) /\ l.folders[i] \in FolderObject
    BY <1>3, PendingFolderIsThere
  <2>2. l.folders[i].path \in Path /\ sent \in FolderObject
    BY <2>1 DEF FolderObject
  <2>3. ws' = w /\ lib' = [l EXCEPT !.folders[i] = sent]
    BY <1>3 DEF SendFolder
  <2>4. SendCreation(tm, q, out, sq, "ft_folder", l.folders[i].path)
    BY <1>3 DEF SendFolder
  <2>. HIDE DEF i, sent
  <2>5. [l.folders EXCEPT ![i] = sent] \in Seq(FolderObject)
    BY <2>1, <2>2 DEF Library
  <2>6. lib' \in Library
    BY <2>3, <2>5 DEF Library
  <2>. QED
    BY <1>0, <2>2, <2>3, <2>4, <2>6, UpMessages, SendCreationType
<1>4. CASE SendFileStatus(tm, q, out, sq, w, l)
  <2>1. PICK f \in w.files :
          /\ SendAndWait("reqestedFileStatus", ResetTimer(tm), q, out, sq, FileStatus(sq, f))
          /\ ws' = [w EXCEPT !.cur = f]
          /\ lib' = l
    BY <1>4 DEF SendFileStatus
  <2>2. f \in File /\ ws' \in WorkingSet
    BY <2>1 DEF WorkingSet, FileKey
  <2>3. HandlerArguments(ResetTimer(tm), q, out, sq)
    BY TimerTypes DEF HandlerArguments
  <2>4. FileStatus(sq, f) \in UpMessage /\ "reqestedFileStatus" \in ClientStates
    BY <1>0, <2>2, UpMessages DEF ClientStates
  <2>. QED
    BY <2>1, <2>2, <2>3, <2>4, SendAndWaitType
<1>. QED
  BY <1>1, <1>2, <1>3, <1>4 DEF SendFrom

\* setState(sendingFS).
LEMMA EnterSendingFSType ==
  ASSUME TypeOK, NEW self, NEW tm, NEW q, NEW out, NEW sq, HandlerArguments(tm, q, out, sq),
         EnterSendingFS(self, tm, q, out, sq)
  PROVE  HandlerResults
<1>. DEFINE stopped == StopTimer(self, tm)
            rest == DropSentCurFile(ws, lib)
            found == Index(lib, disk, dirs)
<1>1. HandlerArguments(stopped, q, out, sq)
  BY TimerTypes DEF HandlerArguments
<1>2. lib \in Library /\ rest \in WorkingSet
  BY DropSentCurFileType DEF TypeOK, FilesTypeOK
<1>3. found.lib \in Library /\ found.ws \in WorkingSet
  BY <1>2, IndexType DEF TypeOK, FilesTypeOK
<1>. HIDE DEF stopped, rest, found
<1>4. \/ SendFrom(stopped, q, out, sq, rest, lib)
      \/ SendFrom(stopped, q, out, sq, found.ws, found.lib)
      \/ EndTransfer(stopped, q, out, sq, found)
  BY DEF EnterSendingFS, stopped, rest, found
<1>5. CASE EndTransfer(stopped, q, out, sq, found)
  <2>1. TransferEnded \in UpMessage
    <3>1. 0 \in Nat /\ cId \in ClientId /\ cPw \in Passwords /\ cPort \in Nat
      BY ClientAssumption DEF TypeOK, ClientTypeOK
    <3>. QED
      BY <3>1, UpMessages
  <2>2. up \in Seq(UpMessage) /\ Append(out, TransferEnded) \in Seq(UpMessage)
    BY <2>1 DEF HandlerArguments, TypeOK, NetTypeOK
  <2>3. up' \in Seq(UpMessage)
    BY <1>5, <2>2 DEF EndTransfer
  <2>4. cState' \in ClientStates /\ ended' \in Nat
    BY <1>5 DEF EndTransfer, ClientStates, TypeOK, ClientTypeOK
  <2>5. cTimer' \in TimerType
    BY <1>1, <1>5, TimerTypes DEF EndTransfer, HandlerArguments
  <2>. QED
    BY <1>3, <1>5, <2>3, <2>4, <2>5 DEF EndTransfer, HandlerArguments, HandlerResults
<1>. QED
  BY <1>1, <1>2, <1>3, <1>4, <1>5, SendFromType

\* setState(connected).
LEMMA EnterConnectedType ==
  ASSUME TypeOK, NEW self, NEW tm, NEW q, NEW out, NEW sq, HandlerArguments(tm, q, out, sq),
         EnterConnected(self, tm, q, out, sq)
  PROVE  HandlerResults
<1>1. HandlerArguments(StartTimer(tm), q, out, sq)
  BY TimerTypes DEF HandlerArguments
<1>2. CASE EnterSendingFS(self, StartTimer(tm), q, out, sq)
  BY <1>1, <1>2, EnterSendingFSType
<1>3. CASE /\ cState' = "connected" /\ cTimer' = StartTimer(tm) /\ cQueue' = q
           /\ cSeq' = sq /\ up' = up \o out /\ UNCHANGED <<ws, lib, ended>>
  <2>1. up \in Seq(UpMessage) /\ out \in Seq(UpMessage)
    BY DEF HandlerArguments, TypeOK, NetTypeOK
  <2>2. up' \in Seq(UpMessage)
    BY <1>3, <2>1
  <2>3. cState' \in ClientStates
    BY <1>3 DEF ClientStates
  <2>. QED
    BY <1>1, <1>3, <2>2, <2>3
       DEF HandlerArguments, HandlerResults, TypeOK, ClientTypeOK, FilesTypeOK
<1>. QED
  BY <1>2, <1>3 DEF EnterConnected

-----------------------------------------------------------------------------
(* The actions of the client *)

ClientKeepsTypes == ClientTypeOK' /\ FilesTypeOK' /\ up' \in Seq(UpMessage)

\* The rest of the client's state.
LEMMA HandlerKeepsTypes ==
  ASSUME TypeOK, HandlerResults, cMissed' \in Nat, cIndexer' = cIndexer,
         UNCHANGED <<cPort, cId, cPw, cHellos, garbled, disk, dirs, changes>>
  PROVE  ClientKeepsTypes
BY DEF TypeOK, ClientTypeOK, FilesTypeOK, HandlerResults, ClientKeepsTypes

\* A handler that changes the queue, the timer or the state only.
LEMMA UnchangedKeepsTypes ==
  ASSUME TypeOK, cState' \in ClientStates, cTimer' \in TimerType,
         cQueue' \in Seq(Entry(UpMessage)), up' \in Seq(UpMessage),
         cId' \in ClientId, cHellos' \in 0..MaxHellos, garbled' \in 0..MaxGarbled,
         UNCHANGED <<cSeq, cPort, cPw, cMissed, cIndexer, ended, fsClientVars>>
  PROVE  ClientKeepsTypes
BY DEF TypeOK, NetTypeOK, ClientTypeOK, FilesTypeOK, fsClientVars, ClientKeepsTypes

\* The identity of the client, and what it starts a handler with.
LEMMA ClientFacts ==
  ASSUME TypeOK
  PROVE  /\ cId \in ClientId /\ cPw \in Passwords /\ cPort \in Nat
         /\ cSeq \in Nat /\ cSeq \in 0..MaxSeq /\ MaxSeq \in Nat
         /\ up \in Seq(UpMessage)
         /\ cState \in ClientStates /\ cTimer \in TimerType
         /\ cQueue \in Seq(Entry(UpMessage))
         /\ cHellos \in 0..MaxHellos
         /\ cMissed \in Nat /\ garbled \in 0..MaxGarbled
BY ClientAssumption DEF TypeOK, ClientTypeOK, NetTypeOK

\* connect().
LEMMA ConnectType ==
  ASSUME TypeOK, NEW tm \in TimerType, Connect(tm), UNCHANGED <<disk, dirs, changes>>
  PROVE  ClientKeepsTypes
<1>1. /\ Index(lib, disk, dirs).lib \in Library
      /\ Index(lib, disk, dirs).ws \in WorkingSet
  BY IndexType DEF TypeOK, FilesTypeOK
<1>2. FilesTypeOK'
  BY <1>1 DEF Connect, TypeOK, FilesTypeOK
<1>3. cPort' \in Nat /\ cHellos' \in 0..MaxHellos
  BY ClientAssumption DEF Connect, TypeOK, ClientTypeOK
<1>4. cState' \in ClientStates /\ cQueue' \in Seq(Entry(UpMessage))
  BY DEF Connect, ClientStates
<1>5. ClientTypeOK'
  BY <1>3, <1>4 DEF Connect, TypeOK, ClientTypeOK
<1>6. up' \in Seq(UpMessage)
  BY DEF Connect, TypeOK, NetTypeOK
<1>. QED
  BY <1>2, <1>5, <1>6 DEF ClientKeepsTypes

\* setState(disconnected).
LEMMA EnterDisconnectedType ==
  ASSUME TypeOK, NEW self, EnterDisconnected(self), up' \in Seq(UpMessage),
         UNCHANGED <<cSeq, cPort, cId, cPw, cMissed, cHellos, cIndexer, ended, garbled, fsClientVars>>
  PROVE  ClientKeepsTypes
<1>1. /\ cState' \in ClientStates /\ cTimer' \in TimerType
      /\ cQueue' \in Seq(Entry(UpMessage))
  <2>1. cTimer' \in TimerType
    BY ClientFacts, TimerTypes DEF EnterDisconnected
  <2>2. cState' \in ClientStates
    BY DEF EnterDisconnected, ClientStates
  <2>3. cQueue' \in Seq(Entry(UpMessage))
    BY DEF EnterDisconnected
  <2>. QED
    BY <2>1, <2>2, <2>3
<1>2. cId' \in ClientId /\ cHellos' \in 0..MaxHellos /\ garbled' \in 0..MaxGarbled
  BY ClientFacts
<1>. QED
  BY <1>1, <1>2, UnchangedKeepsTypes

\* A datagram that is ignored.
LEMMA IgnoredType ==
  ASSUME TypeOK, Ignored
  PROVE  ClientKeepsTypes
BY DEF TypeOK, ClientTypeOK, FilesTypeOK, NetTypeOK, Ignored, clientVars, fsClientVars,
       ClientKeepsTypes

\* onServerHelloMessage.
LEMMA OnServerHelloType ==
  ASSUME TypeOK, NEW m \in DownMessage, OnServerHello(m)
  PROVE  ClientKeepsTypes
<1>1. CASE Ignored
  BY <1>1, IgnoredType
<1>2. CASE /\ cId' \in 1..MaxIds
           /\ UNCHANGED <<cState, cTimer, cQueue, cSeq, cPort, cPw, cMissed, cHellos, cIndexer,
                          ended, garbled, fsClientVars, up>>
  <2>1. cId' \in ClientId
    BY <1>2 DEF ClientId
  <2>. QED
    BY <1>2, <2>1, ClientFacts, UnchangedKeepsTypes
<1>3. CASE /\ cState' = "clientAuth"
           /\ cTimer' = StartTimer(cTimer)
           /\ cQueue' = PushSendMessage(cQueue, m.seq, AuthRequest(m.seq))
           /\ up' = Append(up, AuthRequest(m.seq))
           /\ UNCHANGED <<cSeq, cPort, cId, cPw, cMissed, cHellos, cIndexer, ended, garbled, fsClientVars>>
  <2>1. m.seq \in Nat /\ AuthRequest(m.seq) \in UpMessage
    BY DownByType, ClientFacts, UpMessages
  <2>2. cQueue' \in Seq(Entry(UpMessage)) /\ up' \in Seq(UpMessage)
    <3>1. cQueue \in Seq(Entry(UpMessage)) /\ up \in Seq(UpMessage)
      BY ClientFacts
    <3>2. PushSendMessage(cQueue, m.seq, AuthRequest(m.seq)) \in Seq(Entry(UpMessage))
      BY <2>1, <3>1, PushType
    <3>. QED
      BY <1>3, <2>1, <3>1, <3>2
  <2>3. cState' \in ClientStates /\ cTimer' \in TimerType
    BY <1>3, ClientFacts, TimerTypes DEF ClientStates
  <2>. QED
    BY <1>3, <2>2, <2>3, ClientFacts, UnchangedKeepsTypes
<1>. QED
  BY <1>1, <1>2, <1>3 DEF OnServerHello

\* onAuthResultMessage.
LEMMA OnAuthResultType ==
  ASSUME TypeOK, NEW m \in DownMessage, OnAuthResult(m)
  PROVE  ClientKeepsTypes
<1>1. CASE ~IsQueued(cQueue, m.seq)
  BY <1>1, IgnoredType DEF OnAuthResult
<1>2. CASE IsQueued(cQueue, m.seq)
  <2>. DEFINE q == OnSequenceNumberAck(cQueue, m.seq)
  <2>1. q \in Seq(Entry(UpMessage))
    BY <1>2, ClientFacts, AckType
  <2>2. UpAck(m.seq) \in UpMessage
    BY DownByType, ClientFacts, UpMessages
  <2>. HIDE DEF q
  <2>3. UNCHANGED <<cPort, cId, cPw, cMissed, cHellos, cIndexer, garbled, disk, dirs, changes>>
    BY <1>2 DEF OnAuthResult
  <2>4. CASE /\ cQueue' = q
             /\ up' = Append(up, UpAck(m.seq))
             /\ UNCHANGED <<cState, cTimer, cSeq, ended, ws, lib>>
    <3>1. up' \in Seq(UpMessage)
      BY <2>2, <2>4, ClientFacts
    <3>2. UNCHANGED fsClientVars
      BY <2>3, <2>4 DEF fsClientVars
    <3>. QED
      BY <2>1, <2>3, <2>4, <3>1, <3>2, ClientFacts, UnchangedKeepsTypes
  <2>5. CASE EnterConnected("consumer", cTimer, q, <<UpAck(m.seq)>>, cSeq)
    <3>1. HandlerArguments(cTimer, q, <<UpAck(m.seq)>>, cSeq)
      BY <2>1, <2>2, ClientFacts DEF HandlerArguments
    <3>2. HandlerResults
      BY <2>5, <3>1, EnterConnectedType
    <3>. QED
      BY <2>3, <3>2, ClientFacts, HandlerKeepsTypes
  <2>6. CASE /\ EnterDisconnected("consumer")
             /\ up' = Append(up, UpAck(m.seq))
             /\ UNCHANGED <<cSeq, ended, ws, lib>>
    <3>1. up' \in Seq(UpMessage)
      BY <2>2, <2>6, ClientFacts
    <3>2. UNCHANGED fsClientVars
      BY <2>3, <2>6 DEF fsClientVars
    <3>. QED
      BY <2>3, <2>6, <3>1, <3>2, EnterDisconnectedType
  <2>. QED
    BY <1>2, <2>4, <2>5, <2>6 DEF OnAuthResult, q
<1>. QED
  BY <1>1, <1>2

\* onFileStatusMessage.
LEMMA OnFileStatusType ==
  ASSUME TypeOK, NEW m \in DownMessage, OnFileStatus(m)
  PROVE  ClientKeepsTypes
<1>1. CASE cState # "reqestedFileStatus" \/ ~IsQueued(cQueue, m.seq)
  BY <1>1, IgnoredType DEF OnFileStatus
<1>2. CASE ~(cState # "reqestedFileStatus" \/ ~IsQueued(cQueue, m.seq))
  <2>. DEFINE q == OnSequenceNumberAck(cQueue, m.seq)
  <2>1. q \in Seq(Entry(UpMessage))
    BY <1>2, ClientFacts, AckType
  <2>. HIDE DEF q
  <2>2. UNCHANGED <<cPort, cId, cPw, cMissed, cHellos, cIndexer, garbled, disk, dirs, changes>>
    BY <1>2 DEF OnFileStatus
  <2>3. HandlerArguments(cTimer, q, <<>>, cSeq)
    BY <2>1, ClientFacts DEF HandlerArguments
  <2>4. CASE /\ SendCreation(cTimer, q, <<>>, cSeq, "ft_file", ws.cur)
             /\ UNCHANGED <<ws, lib>>
    <3>1. ws \in WorkingSet /\ lib \in Library /\ ws.cur \in FileKey
      BY DEF TypeOK, FilesTypeOK, WorkingSet
    <3>2. FileCreation(cSeq, "ft_file", ws.cur) \in UpMessage
      BY <3>1, ClientFacts, UpMessages
    <3>. QED
      BY <2>2, <2>3, <2>4, <3>1, <3>2, ClientFacts, SendCreationType, HandlerKeepsTypes
  <2>5. CASE EnterSendingFS("consumer", cTimer, q, <<>>, cSeq)
    BY <2>2, <2>3, <2>5, ClientFacts, EnterSendingFSType, HandlerKeepsTypes
  <2>. QED
    BY <1>2, <2>4, <2>5 DEF OnFileStatus, q
<1>. QED
  BY <1>1, <1>2

\* onAckMessage.
LEMMA OnAckType ==
  ASSUME TypeOK, NEW m \in DownMessage, OnAck(m)
  PROVE  ClientKeepsTypes
<1>1. CASE ~IsQueued(cQueue, m.seq)
  BY <1>1, IgnoredType DEF OnAck
<1>2. CASE IsQueued(cQueue, m.seq)
  <2>. DEFINE q == OnSequenceNumberAck(cQueue, m.seq)
  <2>1. q \in Seq(Entry(UpMessage))
    BY <1>2, ClientFacts, AckType
  <2>. HIDE DEF q
  <2>2. UNCHANGED <<cPort, cId, cPw, cMissed, cHellos, cIndexer, garbled, disk, dirs, changes>>
    BY <1>2 DEF OnAck
  <2>3. HandlerArguments(cTimer, q, <<>>, cSeq)
    BY <2>1, ClientFacts DEF HandlerArguments
  <2>4. CASE cState = "awaitingAck"
    <3>1. EnterSendingFS("consumer", cTimer, q, <<>>, cSeq)
      BY <1>2, <2>4 DEF OnAck, q
    <3>. QED
      BY <2>2, <2>3, <3>1, ClientFacts, EnterSendingFSType, HandlerKeepsTypes
  <2>5. CASE cState = "ping"
    <3>1. EnterConnected("consumer", cTimer, q, <<>>, cSeq)
      BY <1>2, <2>5 DEF OnAck, q
    <3>. QED
      BY <2>2, <2>3, <3>1, ClientFacts, EnterConnectedType, HandlerKeepsTypes
  <2>6. CASE cState \notin {"awaitingAck", "ping"}
    <3>1. cQueue' = q /\ UNCHANGED <<cState, cTimer, cSeq, ended, ws, lib, up>>
      BY <1>2, <2>6 DEF OnAck, q
    <3>2. UNCHANGED fsClientVars
      BY <2>2, <3>1 DEF fsClientVars
    <3>. QED
      BY <2>1, <2>2, <3>1, <3>2, ClientFacts, UnchangedKeepsTypes
  <2>. QED
    BY <2>4, <2>5, <2>6
<1>. QED
  BY <1>1, <1>2

\* onMessageReceived of the client.
LEMMA ClientReceiveType ==
  ASSUME TypeOK, NEW m \in DownMessage, ClientReceive(m)
  PROVE  ClientKeepsTypes
BY IgnoredType, OnServerHelloType, OnAuthResultType, OnFileStatusType, OnAckType
   DEF ClientReceive

\* onTimerTick of the client.
LEMMA ClientTickType ==
  ASSUME TypeOK, ClientTick
  PROVE  ClientKeepsTypes
<1>0. ASSUME Reconnect PROVE ClientKeepsTypes
  BY <1>0, ClientFacts, TimerTypes, ConnectType DEF Reconnect
<1>1. CASE TickConnected
  <2>1. PingMessage(cSeq) \in UpMessage
    BY ClientFacts, UpMessages
  <2>2. cQueue' \in Seq(Entry(UpMessage)) /\ up' \in Seq(UpMessage)
    BY <1>1, <2>1, ClientFacts, PushType DEF TickConnected
  <2>3. cSeq' \in 0..MaxSeq
    BY <1>1, ClientFacts DEF TickConnected
  <2>4. cTimer' \in TimerType /\ cState' \in ClientStates
    BY <1>1, ClientFacts, TimerTypes DEF TickConnected, ClientStates
  <2>5. cIndexer' \in {"joined", "running", "finished"}
    BY <1>1 DEF TickConnected
  <2>6. ClientTypeOK'
    BY <1>1, <2>2, <2>3, <2>4, <2>5 DEF TickConnected, TypeOK, ClientTypeOK
  <2>7. FilesTypeOK'
    BY <1>1 DEF TickConnected, TypeOK, FilesTypeOK, fsClientVars
  <2>. QED
    BY <2>2, <2>6, <2>7 DEF ClientKeepsTypes
<1>2. CASE TickAwaiting /\ ~Reconnect
  <2>1. /\ cQueue # <<>>
        /\ \E m \in Resent(Oldest(cQueue).msg) : up' = Append(up, m)
        /\ garbled' \in 0..MaxGarbled
        /\ cQueue' = RequeueOldest(cQueue)
        /\ UNCHANGED <<cState, cTimer, cSeq, cPort, cId, cPw, cMissed, cHellos, cIndexer,
                       ended, fsClientVars>>
    BY <1>2 DEF TickAwaiting
  <2>2. cQueue' \in Seq(Entry(UpMessage)) /\ up' \in Seq(UpMessage)
    BY <2>1, ClientFacts, RequeueType, ResentFacts
  <2>. QED
    BY <2>1, <2>2, ClientFacts, UnchangedKeepsTypes
<1>3. CASE TickPing /\ ~Reconnect
  <2>. DEFINE q == PushSendMessage(<<>>, cSeq, PingMessage(cSeq))
  <2>1. PingMessage(cSeq) \in UpMessage
    BY ClientFacts, UpMessages
  <2>2. q \in Seq(Entry(UpMessage))
    <3>1. <<>> \in Seq(Entry(UpMessage)) /\ cSeq \in Nat
      BY ClientFacts
    <3>. QED
      BY <2>1, <3>1, PushType
  <2>3. cSeq + 1 \in 0..MaxSeq
    BY <1>3, ClientFacts DEF TickPing
  <2>4. HandlerArguments(cTimer, q, <<PingMessage(cSeq)>>, cSeq + 1)
    BY <2>1, <2>2, <2>3, ClientFacts DEF HandlerArguments
  <2>5. /\ EnterConnected("timer", cTimer, q, <<PingMessage(cSeq)>>, cSeq + 1)
        /\ cMissed' = cMissed + 1
        /\ UNCHANGED <<cPort, cId, cPw, cHellos, cIndexer, garbled, disk, dirs, changes>>
    BY <1>3 DEF TickPing
  <2>. HIDE DEF q
  <2>. QED
    BY <2>4, <2>5, ClientFacts, EnterConnectedType, HandlerKeepsTypes
<1>. QED
  BY <1>0, <1>1, <1>2, <1>3 DEF ClientTick

\* The console, the hello thread, the indexing thread and the end of the timer's.
LEMMA ClientThreadsType ==
  ASSUME TypeOK, UserConnect \/ UserStop \/ SendClientHello \/ IndexerEnds \/ TimerThreadEnds
  PROVE  ClientKeepsTypes
<1>1. CASE UserConnect
  BY <1>1, ClientFacts, ConnectType DEF UserConnect
<1>2. CASE UserStop
  <2>1. up' \in Seq(UpMessage)
    BY <1>2, ClientFacts DEF UserStop
  <2>. QED
    BY <1>2, <2>1, EnterDisconnectedType DEF UserStop
<1>3. CASE SendClientHello
  <2>1. ClientHello \in UpMessage
    <3>1. 0 \in Nat
      OBVIOUS
    <3>. QED
      BY <3>1, ClientFacts, UpMessages
  <2>2. up' \in Seq(UpMessage) /\ cHellos' \in 0..MaxHellos
    BY <1>3, <2>1, ClientFacts, ClientAssumption DEF SendClientHello
  <2>. QED
    BY <1>3, <2>2, ClientFacts, UnchangedKeepsTypes DEF SendClientHello
<1>4. CASE IndexerEnds
  <2>1. /\ Index(lib, disk, dirs).lib \in Library
        /\ Index(lib, disk, dirs).ws \in WorkingSet
    BY IndexType DEF TypeOK, FilesTypeOK
  <2>2. FilesTypeOK'
    BY <1>4, <2>1 DEF IndexerEnds, TypeOK, FilesTypeOK
  <2>3. ClientTypeOK' /\ up' \in Seq(UpMessage)
    BY <1>4 DEF IndexerEnds, TypeOK, ClientTypeOK, NetTypeOK
  <2>. QED
    BY <2>2, <2>3 DEF ClientKeepsTypes
<1>5. CASE TimerThreadEnds
  <2>1. cTimer' \in TimerType
    BY <1>5, ClientFacts, TimerTypes DEF TimerThreadEnds
  <2>. QED
    BY <1>5, <2>1, ClientFacts, UnchangedKeepsTypes DEF TimerThreadEnds
<1>. QED
  BY <1>1, <1>2, <1>3, <1>4, <1>5

-----------------------------------------------------------------------------
(* The actions of the server *)

ServerKeepsTypes == ServerTypeOK' /\ down' \in Seq(DownMessage)

\* The server's state, and a session that is registered.
LEMMA ServerFacts ==
  ASSUME TypeOK
  PROVE  /\ sessions \in [ClientId -> SessionRecord \cup {NoSession}]
         /\ serverUp \in BOOLEAN /\ authed \subseteq Nat /\ handled \subseteq UpMessage
         /\ FsServerTypeOK
         /\ down \in Seq(DownMessage)
         /\ \A id \in ClientId : sessions[id] # NoSession =>
              /\ sessions[id] \in SessionRecord
              /\ sessions[id].dst \in Nat
              /\ sessions[id].seq \in Nat
              /\ sessions[id].cur \in FileKey
              /\ sessions[id].queue \in Seq(Entry(DownMessage))
BY DEF TypeOK, ServerTypeOK, NetTypeOK, SessionRecord

\* A step that leaves the directory alone.
LEMMA SessionsKeepTypes ==
  ASSUME TypeOK, sessions' \in [ClientId -> SessionRecord \cup {NoSession}],
         serverUp' \in BOOLEAN, authed' \subseteq Nat, handled' \subseteq UpMessage,
         down' \in Seq(DownMessage), UNCHANGED fsServerVars
  PROVE  ServerKeepsTypes
BY DEF TypeOK, ServerTypeOK, FsServerTypeOK, fsServerVars, ServerKeepsTypes

\* A datagram without an effect.
LEMMA NothingKeepsTypes ==
  ASSUME TypeOK, UNCHANGED <<serverVars, down>>
  PROVE  ServerKeepsTypes
<1>1. UNCHANGED <<sessions, serverUp, authed, handled, fsServerVars, down>>
  BY DEF serverVars
<1>. QED
  BY <1>1, ServerFacts, SessionsKeepTypes

\* One session is replaced.
LEMMA SessionReplaced ==
  ASSUME TypeOK, NEW id, NEW s \in SessionRecord \cup {NoSession}
  PROVE  [sessions EXCEPT ![id] = s] \in [ClientId -> SessionRecord \cup {NoSession}]
BY ServerFacts

\* onClientHelloMessage.
LEMMA OnClientHelloType ==
  ASSUME TypeOK, NEW m \in UpMessage, m.type = "ClientHello", OnClientHello(m)
  PROVE  ServerKeepsTypes
<1>1. m.dst \in Nat /\ m.id \in ClientId /\ 0 \in Nat
  BY UpByType
<1>2. /\ ServerHello(m.id, m.dst, "accepted") \in DownMessage
      /\ ServerHello(m.id, m.dst, "idTaken") \in DownMessage
  BY <1>1, DownMessages
<1>3. down' \in Seq(DownMessage)
  <2>1. down \in Seq(DownMessage)
    BY ServerFacts
  <2>2. \/ down' = Append(down, ServerHello(m.id, m.dst, "accepted"))
        \/ down' = Append(down, ServerHello(m.id, m.dst, "idTaken"))
    BY DEF OnClientHello
  <2>. QED
    BY <1>2, <2>1, <2>2
<1>4. NewSession(m) \in SessionRecord
  <2>1. <<>> \in Seq(Entry(DownMessage))
    OBVIOUS
  <2>2. PushSendMessage(<<>>, 0, ServerHello(m.id, m.dst, "accepted")) \in Seq(Entry(DownMessage))
    BY <1>1, <1>2, <2>1, PushType
  <2>. QED
    BY <1>1, <2>2 DEF NewSession, SessionRecord, SessionStates, FileKey
<1>5. sessions' \in [ClientId -> SessionRecord \cup {NoSession}]
  BY <1>4, SessionReplaced DEF OnClientHello
<1>6. serverUp' \in BOOLEAN /\ UNCHANGED <<authed, handled, fsServerVars>>
  BY ServerFacts DEF OnClientHello
<1>. QED
  BY <1>3, <1>5, <1>6, ServerFacts, SessionsKeepTypes

\* onAuthRequestMessage.
LEMMA OnAuthRequestType ==
  ASSUME TypeOK, NEW id \in ClientId, sessions[id] # NoSession,
         NEW m \in UpMessage, m.type = "AuthRequest", OnAuthRequest(id, m)
  PROVE  ServerKeepsTypes
<1>. DEFINE s == sessions[id]
            ok == m.pw = Password
            result == AuthResult(m.seq, s.dst, ok)
            q == OnSequenceNumberAck(s.queue, m.seq)
<1>1. CASE ~IsQueued(s.queue, m.seq)
  BY <1>1, NothingKeepsTypes DEF OnAuthRequest
<1>2. CASE IsQueued(s.queue, m.seq)
  <2>1. s \in SessionRecord /\ s.dst \in Nat /\ s.queue \in Seq(Entry(DownMessage))
    BY ServerFacts
  <2>2. q \in Seq(Entry(DownMessage))
    BY <1>2, <2>1, AckType
  <2>3. m.seq \in Nat /\ result \in DownMessage
    BY <2>1, UpByType, DownMessages
  <2>4. PushSendMessage(q, m.seq, result) \in Seq(Entry(DownMessage))
    BY <2>2, <2>3, PushType
  <2>5. /\ down' = Append(down, result)
        /\ sessions' = [sessions EXCEPT ![id] =
             IF ok THEN [s EXCEPT !.state = "fsc_awaitServerAuthAck",
                                  !.queue = PushSendMessage(q, m.seq, result)]
             ELSE [s EXCEPT !.state = "fsc_error", !.queue = <<>>]]
        /\ authed' = IF ok THEN authed \cup {s.dst} ELSE authed
        /\ UNCHANGED <<serverUp, handled, fsServerVars>>
    BY <1>2 DEF OnAuthRequest
  <2>. HIDE DEF s, ok, result, q
  <2>6. [s EXCEPT !.state = "fsc_awaitServerAuthAck",
                  !.queue = PushSendMessage(q, m.seq, result)] \in SessionRecord
    BY <2>1, <2>4 DEF SessionRecord, SessionStates
  <2>7. [s EXCEPT !.state = "fsc_error", !.queue = <<>>] \in SessionRecord
    <3>1. <<>> \in Seq(Entry(DownMessage))
      OBVIOUS
    <3>. QED
      BY <2>1, <3>1 DEF SessionRecord, SessionStates
  <2>8. sessions' \in [ClientId -> SessionRecord \cup {NoSession}]
    BY <2>5, <2>6, <2>7, SessionReplaced
  <2>9. down' \in Seq(DownMessage) /\ authed' \subseteq Nat
    BY <2>1, <2>3, <2>5, ServerFacts
  <2>. QED
    BY <2>5, <2>8, <2>9, ServerFacts, SessionsKeepTypes
<1>. QED
  BY <1>1, <1>2

\* onAckMessage.
LEMMA OnClientAckType ==
  ASSUME TypeOK, NEW id \in ClientId, sessions[id] # NoSession, NEW m, OnClientAck(id, m)
  PROVE  ServerKeepsTypes
<1>. DEFINE s == sessions[id]
            q == OnSequenceNumberAck(s.queue, m.seq)
            state == IF s.state = "fsc_awaitServerAuthAck" THEN "fsc_connected" ELSE s.state
<1>1. CASE ~IsQueued(s.queue, m.seq)
  BY <1>1, NothingKeepsTypes DEF OnClientAck
<1>2. CASE IsQueued(s.queue, m.seq)
  <2>1. s \in SessionRecord /\ s.queue \in Seq(Entry(DownMessage))
    BY ServerFacts
  <2>2. q \in Seq(Entry(DownMessage))
    BY <1>2, <2>1, AckType
  <2>3. /\ sessions' = [sessions EXCEPT ![id] = [s EXCEPT !.queue = q, !.state = state]]
        /\ UNCHANGED <<serverUp, authed, handled, fsServerVars, down>>
    BY <1>2 DEF OnClientAck
  <2>4. state \in SessionStates
    BY <2>1 DEF SessionRecord, SessionStates
  <2>. HIDE DEF s, q, state
  <2>5. [s EXCEPT !.queue = q, !.state = state] \in SessionRecord
    BY <2>1, <2>2, <2>4 DEF SessionRecord
  <2>. QED
    BY <2>3, <2>5, ServerFacts, SessionReplaced, SessionsKeepTypes
<1>. QED
  BY <1>1, <1>2

\* The messages the server acts on and acknowledges.
LEMMA HandledMessageType ==
  ASSUME TypeOK, NEW id \in ClientId, sessions[id] # NoSession, NEW m \in UpMessage,
         \/ m.type = "Ping" /\ OnPing(id, m)
         \/ m.type = "FileStatus" /\ OnFileStatusRequest(id, m)
         \/ m.type = "FileCreation" /\ OnFileCreation(id, m)
         \/ m.type = "FileTransfer" /\ OnFileTransfer(id, m)
  PROVE  ServerKeepsTypes
<1>1. m.seq \in Nat /\ sessions[id].dst \in Nat
  BY UpByType, ServerFacts
<1>2. DownAck(m.seq, sessions[id].dst) \in DownMessage
  BY <1>1, DownMessages
<1>3. handled' \subseteq UpMessage /\ authed' \subseteq Nat
  BY ServerFacts DEF OnPing, OnFileStatusRequest, OnFileCreation, OnFileTransfer
<1>4. CASE m.type = "Ping" /\ OnPing(id, m)
  BY <1>2, <1>3, <1>4, ServerFacts, SessionsKeepTypes DEF OnPing
<1>5. CASE m.type = "FileStatus" /\ OnFileStatusRequest(id, m)
  <2>. DEFINE last == IF m.fid = NoFile THEN 0 ELSE sLast[m.fid]
  <2>1. last \in Part
    <3>1. 0 \in Part
      BY FilesystemAssumption DEF Part
    <3>. QED
      BY <1>5, <3>1, UpByType, ServerFacts DEF FsServerTypeOK, FileKey
  <2>2. FileStatusAnswer(m.seq, sessions[id].dst, last) \in DownMessage
    BY <1>1, <2>1, DownMessages
  <2>. QED
    BY <1>3, <1>5, <2>2, ServerFacts, SessionsKeepTypes DEF OnFileStatusRequest
<1>6. CASE m.type = "FileCreation" /\ OnFileCreation(id, m)
  <2>1. down' \in Seq(DownMessage)
    BY <1>2, <1>6, ServerFacts DEF OnFileCreation, CarryOut
  <2>2. CASE UNCHANGED <<sessions, serverUp>> /\ FsServerTypeOK'
    BY <1>3, <2>1, <2>2, ServerFacts DEF ServerTypeOK, ServerKeepsTypes
  <2>7. CASE serverUp' = FALSE /\ UNCHANGED <<sessions, fsServerVars>>
    BY <1>3, <2>1, <2>7, ServerFacts, SessionsKeepTypes
  <2>8. CASE m.fid = BadPath
    BY <1>6, <2>7, <2>8 DEF OnFileCreation, CarryOut
  <2>3. CASE m.fid # BadPath /\ m.kind = "ft_folder"
    <3>1. GenFolder(m.fid) /\ UNCHANGED <<sessions, serverUp>>
      BY <1>6, <2>3 DEF OnFileCreation, CarryOut
    <3>. QED
      BY <2>2, <3>1, FsServerTypes, ServerFacts
  <2>4. CASE m.fid # BadPath /\ m.kind = "ft_file"
    <3>1. m.fid \in FileKey
      BY <1>6, <2>4, UpByType
    <3>2. /\ GenFile(m.fid)
          /\ sessions' = [sessions EXCEPT ![id] = [sessions[id] EXCEPT !.cur = m.fid]]
          /\ UNCHANGED serverUp
      BY <1>6, <2>4, ServerFacts DEF OnFileCreation, CarryOut
    <3>3. [sessions[id] EXCEPT !.cur = m.fid] \in SessionRecord
      BY <3>1, ServerFacts DEF SessionRecord
    <3>4. sessions' \in [ClientId -> SessionRecord \cup {NoSession}]
      BY <3>2, <3>3, SessionReplaced
    <3>5. FsServerTypeOK'
      BY <3>1, <3>2, FsServerTypes, ServerFacts
    <3>. QED
      BY <1>3, <2>1, <3>2, <3>4, <3>5, ServerFacts DEF ServerTypeOK, ServerKeepsTypes
  <2>5. CASE m.fid # BadPath /\ m.kind = "ft_del_file" /\ m.fid \in File
    <3>2. m.fid \notin Folder
      BY <2>5, FilesystemAssumption DEF Path
    <3>1. DelFile(m.fid) /\ UNCHANGED <<sessions, serverUp>>
      BY <1>6, <2>5, <3>2 DEF OnFileCreation, CarryOut
    <3>. QED
      BY <2>2, <3>1, FsServerTypes, ServerFacts
  <2>6. CASE /\ m.fid # BadPath /\ m.kind # "ft_folder" /\ m.kind # "ft_file"
             /\ ~(m.kind = "ft_del_file" /\ m.fid \in File)
    <3>1. \/ RemoveEmptyFolder(m.fid) /\ UNCHANGED <<sessions, serverUp>>
          \/ serverUp' = FALSE /\ UNCHANGED <<sessions, fsServerVars>>
          \/ UNCHANGED <<sessions, serverUp, fsServerVars>>
      BY <1>6, <2>6 DEF OnFileCreation, CarryOut
    <3>2. CASE UNCHANGED <<sessions, serverUp, fsServerVars>>
      BY <1>3, <2>1, <3>2, ServerFacts, SessionsKeepTypes
    <3>. QED
      BY <2>2, <2>7, <3>1, <3>2, FsServerTypes, ServerFacts
  <2>. QED
    BY <2>8, <2>3, <2>4, <2>5, <2>6
<1>7. CASE m.type = "FileTransfer" /\ OnFileTransfer(id, m)
  <2>1. m.part \in Part /\ m.data \in Data /\ sessions[id].cur \in FileKey
    BY <1>7, UpByType, ServerFacts
  <2>2. FsServerTypeOK'
    BY <1>7, <2>1, FsServerTypes, ServerFacts DEF OnFileTransfer
  <2>. QED
    BY <1>2, <1>3, <1>7, <2>2, ServerFacts DEF OnFileTransfer, ServerTypeOK, ServerKeepsTypes
<1>. QED
  BY <1>4, <1>5, <1>6, <1>7

\* onMessageReceived of the server and of its sessions.
LEMMA ServerReceiveType ==
  ASSUME TypeOK, NEW m \in UpMessage, ServerReceive(m)
  PROVE  ServerKeepsTypes
<1>1. CASE UNCHANGED <<serverVars, down>>
  BY <1>1, NothingKeepsTypes
<1>2. CASE m.type = "ClientHello" /\ OnClientHello(m)
  BY <1>2, OnClientHelloType
<1>3. CASE m.type # "ClientHello" /\ Active(m.to) /\ SessionReceive(m)
  <2>1. m.to \in ClientId /\ sessions[m.to] # NoSession
    BY <1>3, UpByType DEF Active
  <2>. QED
    BY <1>3, <2>1, OnAuthRequestType, OnClientAckType, HandledMessageType, NothingKeepsTypes
       DEF SessionReceive, OnTransferEnded
<1>. QED
  BY <1>1, <1>2, <1>3 DEF ServerReceive, SessionReceive

\* onTimerTick of a session.
LEMMA SessionTickType ==
  ASSUME TypeOK, NEW id \in ClientId, SessionTick(id)
  PROVE  ServerKeepsTypes
<1>. DEFINE s == sessions[id]
<1>1. /\ s \in SessionRecord /\ s.dst \in Nat /\ s.seq \in Nat
      /\ s.queue \in Seq(Entry(DownMessage))
  BY ServerFacts DEF SessionTick, Active
<1>2. CASE TickIdle(id)
  <2>1. [s EXCEPT !.state = "fsc_ping"] \in SessionRecord
    BY <1>1 DEF SessionRecord, SessionStates
  <2>2. sessions' = [sessions EXCEPT ![id] = [s EXCEPT !.state = "fsc_ping"]]
    BY <1>2, ServerFacts DEF TickIdle
  <2>. QED
    BY <1>2, <2>1, <2>2, ServerFacts, SessionReplaced, SessionsKeepTypes DEF TickIdle
<1>3. CASE TickSendingChanges(id)
  <2>. DEFINE msg == ToDoMessage(s.seq, s.dst)
              q == PushSendMessage(s.queue, s.seq, msg)
              new == [s EXCEPT !.state = "fsc_awaitingAck", !.seq = s.seq + 1, !.queue = q]
  <2>1. msg \in DownMessage
    BY <1>1, DownMessages
  <2>2. q \in Seq(Entry(DownMessage))
    BY <1>1, <2>1, PushType
  <2>3. /\ sessions' = [sessions EXCEPT ![id] = new]
        /\ down' = Append(down, msg)
        /\ UNCHANGED <<serverUp, authed, handled, fsServerVars>>
    BY <1>3 DEF TickSendingChanges
  <2>. HIDE DEF s, msg, q
  <2>4. new \in SessionRecord
    <3>1. "fsc_awaitingAck" \in SessionStates /\ s.seq + 1 \in Nat
      BY <1>1 DEF SessionStates
    <3>. QED
      BY <1>1, <2>2, <3>1 DEF SessionRecord
  <2>. HIDE DEF new
  <2>5. down' \in Seq(DownMessage)
    BY <2>1, <2>3, ServerFacts
  <2>. QED
    BY <2>3, <2>4, <2>5, ServerFacts, SessionReplaced, SessionsKeepTypes
<1>4. CASE TickAwaitingClient(id)
  <2>. DEFINE given == [s EXCEPT !.state = "fsc_error", !.queue = <<>>]
              again == [s EXCEPT !.queue = RequeueOldest(s.queue)]
  <2>1. Oldest(s.queue).msg \in DownMessage /\ RequeueOldest(s.queue) \in Seq(Entry(DownMessage))
    BY <1>1, <1>4, RequeueType DEF TickAwaitingClient
  <2>3. /\ \/ sessions' = [sessions EXCEPT ![id] = given] /\ UNCHANGED down
           \/ /\ sessions' = [sessions EXCEPT ![id] = again]
              /\ down' = Append(down, Oldest(s.queue).msg)
        /\ UNCHANGED <<serverUp, authed, handled, fsServerVars>>
    BY <1>4 DEF TickAwaitingClient
  <2>. HIDE DEF s
  <2>2. given \in SessionRecord /\ again \in SessionRecord
    <3>1. <<>> \in Seq(Entry(DownMessage))
      OBVIOUS
    <3>. QED
      BY <1>1, <2>1, <3>1 DEF SessionRecord, SessionStates
  <2>. HIDE DEF given, again
  <2>4. down' \in Seq(DownMessage)
    <3>1. down \in Seq(DownMessage)
      BY ServerFacts
    <3>2. Append(down, Oldest(s.queue).msg) \in Seq(DownMessage)
      BY <2>1, <3>1
    <3>. QED
      BY <2>3, <3>1, <3>2
  <2>. QED
    BY <2>2, <2>3, <2>4, ServerFacts, SessionReplaced, SessionsKeepTypes
<1>. QED
  BY <1>2, <1>3, <1>4 DEF SessionTick

\* The cleanup, and the uploads of other clients.
LEMMA ServerThreadsType ==
  ASSUME TypeOK, NEW id \in ClientId, Cleanup(id) \/ OtherClientUploads(id)
  PROVE  ServerKeepsTypes
<1>1. CASE Cleanup(id)
  BY <1>1, ServerFacts, SessionReplaced, SessionsKeepTypes DEF Cleanup
<1>2. CASE OtherClientUploads(id)
  <2>1. [sessions[id] EXCEPT !.todo = TRUE] \in SessionRecord
    BY <1>2, ServerFacts DEF OtherClientUploads, Active, SessionRecord
  <2>2. sessions' = [sessions EXCEPT ![id] = [sessions[id] EXCEPT !.todo = TRUE]]
    BY <1>2, ServerFacts DEF OtherClientUploads
  <2>. QED
    BY <1>2, <2>1, <2>2, ServerFacts, SessionReplaced, SessionsKeepTypes DEF OtherClientUploads
<1>. QED
  BY <1>1, <1>2

-----------------------------------------------------------------------------
(* The composition *)

\* The network loses and duplicates datagrams.
LEMMA NetworkFaultType ==
  ASSUME TypeOK, NetworkFault
  PROVE  NetTypeOK'
<1>. USE DEF TypeOK, NetTypeOK
<1>1. CASE LoseUp
  BY <1>1, RemoveAtType, NetworkAssumption DEF LoseUp
<1>2. CASE LoseDown
  BY <1>2, RemoveAtType, NetworkAssumption DEF LoseDown
<1>3. CASE DuplicateUp
  BY <1>3, InsertAtType, NetworkAssumption DEF DuplicateUp
<1>4. CASE DuplicateDown
  BY <1>4, InsertAtType, NetworkAssumption DEF DuplicateDown
<1>. QED
  BY <1>1, <1>2, <1>3, <1>4 DEF NetworkFault

\* The start of the system.
LEMMA InitType == Init => TypeOK
<1>. SUFFICES ASSUME Init PROVE TypeOK
  OBVIOUS
<1>. USE DEF Init
<1>1. FilesTypeOK
  BY FilesystemClientInitType
<1>2. NetTypeOK
  BY NetworkAssumption DEF NetworkInit, NetTypeOK
<1>3. ClientTypeOK
  BY ClientAssumption, ClientIds
     DEF ClientInit, ClientTypeOK, ClientStates, NewTimer, TimerType
<1>4. ServerTypeOK
  <2>1. FsServerTypeOK
    BY FilesystemAssumption DEF ServerInit, FilesystemServerInit, FsServerTypeOK, Part
  <2>. QED
    BY <2>1 DEF ServerInit, ServerTypeOK
<1>. QED
  BY <1>1, <1>2, <1>3, <1>4 DEF TypeOK

\* Every step keeps the types.
LEMMA NextType ==
  ASSUME TypeOK, [Next]_vars
  PROVE  TypeOK'
<1>. USE DEF TypeOK
<1>1. ASSUME ClientKeepsTypes, ClientThreads PROVE TypeOK'
  BY <1>1 DEF ClientKeepsTypes, ClientThreads, NetTypeOK, ServerTypeOK, FsServerTypeOK,
              serverVars, fsServerVars
<1>2. ASSUME ServerKeepsTypes, ServerThreads PROVE TypeOK'
  BY <1>2 DEF ServerKeepsTypes, ServerThreads, NetTypeOK, ClientTypeOK, FilesTypeOK,
              clientVars, fsClientVars
<1>3. CASE Connects \/ Stops \/ SaysHello \/ Indexes \/ TimerEnds
  BY <1>1, <1>3, ClientThreadsType DEF Connects, Stops, SaysHello, Indexes, TimerEnds
<1>4. CASE ClientTicks
  BY <1>1, <1>4, ClientTickType DEF ClientTicks
<1>5. CASE SessionTicks
  BY <1>2, <1>5, SessionTickType DEF SessionTicks
<1>6. CASE CleansUp \/ OthersUpload
  BY <1>2, <1>6, ServerThreadsType DEF CleansUp, OthersUpload
<1>7. CASE UserChanges
  <2>1. FilesTypeOK'
    BY <1>7, UserChangeType DEF UserChanges
  <2>. QED
    BY <1>7, <2>1 DEF UserChanges, ClientTypeOK, ServerTypeOK, FsServerTypeOK, NetTypeOK,
                      clientVars, serverVars, fsServerVars, netVars
<1>8. CASE Faults
  <2>1. NetTypeOK'
    BY <1>8, NetworkFaultType DEF Faults
  <2>. QED
    BY <1>8, <2>1 DEF Faults, ClientTypeOK, FilesTypeOK, ServerTypeOK, FsServerTypeOK,
                      clientVars, fsClientVars, serverVars, fsServerVars
<1>9. CASE DeliverUp
  <2>1. PICK i \in Deliverable(up, UpPort) : up' = RemoveAt(up, i) /\ ServerReceive(up[i])
    BY <1>9 DEF DeliverUp
  <2>2. i \in DOMAIN up /\ up \in Seq(UpMessage)
    BY DEF Deliverable, NetTypeOK
  <2>3. up' \in Seq(UpMessage) /\ up[i] \in UpMessage
    BY <2>1, <2>2, RemoveAtType
  <2>4. ServerKeepsTypes
    BY <2>1, <2>3, ServerReceiveType
  <2>. QED
    BY <1>9, <2>3, <2>4 DEF DeliverUp, ServerKeepsTypes, NetTypeOK, ClientTypeOK, FilesTypeOK,
                            clientVars, fsClientVars
<1>10. CASE DeliverDown
  <2>1. PICK i \in Deliverable(down, DownPort) :
          down' = RemoveAt(down, i) /\ ClientReceive(down[i])
    BY <1>10 DEF DeliverDown
  <2>2. i \in DOMAIN down /\ down \in Seq(DownMessage)
    BY DEF Deliverable, NetTypeOK
  <2>3. down' \in Seq(DownMessage) /\ down[i] \in DownMessage
    BY <2>1, <2>2, RemoveAtType
  <2>4. ClientKeepsTypes
    BY <2>1, <2>3, ClientReceiveType
  <2>. QED
    BY <1>10, <2>3, <2>4 DEF DeliverDown, ClientKeepsTypes, NetTypeOK, ServerTypeOK,
                             FsServerTypeOK, serverVars, fsServerVars
<1>11. CASE UNCHANGED vars
  BY <1>11 DEF vars, clientVars, fsClientVars, serverVars, fsServerVars, netVars,
               ClientTypeOK, FilesTypeOK, ServerTypeOK, FsServerTypeOK, NetTypeOK
<1>. QED
  BY <1>3, <1>4, <1>5, <1>6, <1>7, <1>8, <1>9, <1>10, <1>11 DEF Next

(***************************************************************************)
(* The state of the client, of the sessions, of the two directories and of *)
(* the network always has the types the handlers rely on: a datagram names *)
(* a client ID the server can have, an answer a part of a file, a queue    *)
(* holds what its side can send, and no counter passes its bound.          *)
(***************************************************************************)
THEOREM SessionIsTyped == Spec => []TypeOK
<1>1. Init => TypeOK
  BY InitType
<1>2. TypeOK /\ [Next]_vars => TypeOK'
  BY NextType
<1>. QED
  BY <1>1, <1>2, PTL DEF Spec

-----------------------------------------------------------------------------
(***************************************************************************)
(* AuthAgreement is not inductive: the result that logs the client in may  *)
(* come from an earlier connection, from a copy of a datagram or from the  *)
(* queue of a session.  So the invariant follows the password from the     *)
(* client's queue over the channel to the server, and the result from the  *)
(* queues of the sessions over the channel back.                           *)
(***************************************************************************)
Honest(m, pw) == m.type = "AuthRequest" /\ m.pw = Password => pw = Password
Granted(m, ports) == m.type = "AuthResult" /\ m.ok => m.dst \in ports

\* The client sends the right password only if it has it.
ClientIsHonest ==
  /\ IsSeq(up)
  /\ IsQueue(cQueue)
  /\ \A m \in Range(up) \cup Messages(cQueue) : Honest(m, cPw)

\* A record with a queue; nothing else of a session matters here.
IsSession(s) == "queue" \in DOMAIN s

GrantingSession(s, ports) ==
  IsSession(s) /\ IsQueue(s.queue) /\ \A m \in Messages(s.queue) : Granted(m, ports)

SessionsGrant ==
  /\ sessions = [id \in ClientId |-> sessions[id]]
  /\ \A id \in ClientId : sessions[id] = NoSession \/ GrantingSession(sessions[id], authed)

\* A result that says success goes to a client the server has accepted.
ServerIsHonest ==
  /\ IsSeq(down)
  /\ \A m \in Range(down) : Granted(m, authed)
  /\ SessionsGrant

\* A client is accepted only with the right password.
AcceptedByPassword == authed # {} => cPw = Password

IInv == ClientIsHonest /\ ServerIsHonest /\ AcceptedByPassword /\ AuthAgreement

-----------------------------------------------------------------------------
(* The client *)

(***************************************************************************)
(* What sendNextFilePart and its callers leave of the datagrams out and    *)
(* the queue q they are given: no request for authentication is added.     *)
(***************************************************************************)
AddsFileMessages(q, out) ==
  /\ IsSeq(up') /\ IsQueue(cQueue')
  /\ \A m \in Range(up)' \cup Messages(cQueue)' :
       m \in Range(up) \cup Range(out) \cup Messages(q) \/ m.type # "AuthRequest"

\* A message that is sent and filed.
LEMMA SendAndWaitAdds ==
  ASSUME NEW state, NEW tm, NEW q, NEW out, NEW sq, NEW msg,
         IsSeq(up), IsSeq(out), IsQueue(q), msg.type # "AuthRequest",
         SendAndWait(state, tm, q, out, sq, msg)
  PROVE  AddsFileMessages(q, out)
<1>1. IsSeq(Append(out, msg)) /\ Range(Append(out, msg)) \subseteq Range(out) \cup {msg}
  BY RangeAppend
<1>2. /\ IsSeq(up \o Append(out, msg))
      /\ Range(up \o Append(out, msg)) \subseteq Range(up) \cup Range(out) \cup {msg}
  BY <1>1, RangeConcat
<1>3. /\ IsQueue(PushSendMessage(q, sq, msg))
      /\ Messages(PushSendMessage(q, sq, msg)) \subseteq Messages(q) \cup {msg}
  BY PushMessages
<1>4. up' = up \o Append(out, msg) /\ cQueue' = PushSendMessage(q, sq, msg)
  BY DEF SendAndWait
<1>. QED
  BY <1>2, <1>3, <1>4 DEF AddsFileMessages

\* Datagrams that are sent without being filed.
LEMMA SendOnlyAdds ==
  ASSUME NEW q, NEW out, NEW msg, IsSeq(up), IsSeq(out), IsQueue(q),
         msg.type # "AuthRequest", cQueue' = q,
         up' = up \o Append(out, msg) \/ up' = up \o out
  PROVE  AddsFileMessages(q, out)
<1>1. IsSeq(Append(out, msg)) /\ Range(Append(out, msg)) \subseteq Range(out) \cup {msg}
  BY RangeAppend
<1>2. /\ IsSeq(up \o Append(out, msg))
      /\ Range(up \o Append(out, msg)) \subseteq Range(up) \cup Range(out) \cup {msg}
      /\ IsSeq(up \o out)
      /\ Range(up \o out) \subseteq Range(up) \cup Range(out)
  BY <1>1, RangeConcat
<1>. QED
  BY <1>2 DEF AddsFileMessages

\* sendNextFilePart, whatever it finds to send.
LEMMA SendFromAdds ==
  ASSUME NEW tm, NEW q, NEW out, NEW sq, NEW w, NEW l,
         IsSeq(up), IsSeq(out), IsQueue(q),
         SendFrom(tm, q, out, sq, w, l)
  PROVE  AddsFileMessages(q, out)
<1>1. \A kind, path : FileCreation(sq, kind, path).type # "AuthRequest"
  BY DEF FileCreation
<1>2. \A t, kind, path : SendCreation(t, q, out, sq, kind, path) => AddsFileMessages(q, out)
  BY <1>1, SendAndWaitAdds DEF SendCreation
<1>3. CASE SendFilePart(tm, q, out, sq, w, l)
  <2>. DEFINE p == NextPartOf(l.file[w.cur])
              r == ReadFile(l.file[w.cur], disk[w.cur], p)
              msg == FileTransfer(sq, p, r.data)
  <2>1. msg.type # "AuthRequest"
    BY DEF FileTransfer
  <2>2. \/ cQueue' = q /\ up' = up \o out
        \/ SendAndWait("awaitingAck", StartTimer(tm), q, out, sq, msg)
    BY <1>3 DEF SendFilePart
  <2>. QED
    BY <2>1, <2>2, SendAndWaitAdds, SendOnlyAdds
<1>4. CASE SendDeletion(tm, q, out, sq, w, l)
  BY <1>2, <1>4 DEF SendDeletion
<1>5. CASE SendFolder(tm, q, out, sq, w, l)
  BY <1>2, <1>5 DEF SendFolder
<1>6. CASE SendFileStatus(tm, q, out, sq, w, l)
  <2>1. PICK f : SendAndWait("reqestedFileStatus", ResetTimer(tm), q, out, sq, FileStatus(sq, f))
    BY <1>6 DEF SendFileStatus
  <2>2. FileStatus(sq, f).type # "AuthRequest"
    BY DEF FileStatus
  <2>. QED
    BY <2>1, <2>2, SendAndWaitAdds
<1>. QED
  BY <1>3, <1>4, <1>5, <1>6 DEF SendFrom

\* setState(sendingFS) and setState(connected).
LEMMA EnterAdds ==
  ASSUME NEW self, NEW tm, NEW q, NEW out, NEW sq,
         IsSeq(up), IsSeq(out), IsQueue(q),
         EnterSendingFS(self, tm, q, out, sq) \/ EnterConnected(self, tm, q, out, sq)
  PROVE  AddsFileMessages(q, out)
<1>1. TransferEnded.type # "AuthRequest"
  BY DEF TransferEnded
<1>2. ASSUME NEW t, NEW found, EndTransfer(t, q, out, sq, found) PROVE AddsFileMessages(q, out)
  BY <1>1, <1>2, SendOnlyAdds DEF EndTransfer
<1>3. ASSUME NEW t, EnterSendingFS(self, t, q, out, sq) PROVE AddsFileMessages(q, out)
  BY <1>2, <1>3, SendFromAdds DEF EnterSendingFS
<1>4. CASE EnterConnected(self, tm, q, out, sq)
  BY <1>1, <1>3, <1>4, SendOnlyAdds DEF EnterConnected
<1>. QED
  BY <1>3, <1>4

\* File messages leave the client honest.
LEMMA StaysHonest ==
  ASSUME NEW q, NEW out, ClientIsHonest, AddsFileMessages(q, out), cPw' = cPw,
         Messages(q) \subseteq Messages(cQueue),
         \A m \in Range(out) : m.type # "AuthRequest"
  PROVE  ClientIsHonest'
BY DEF ClientIsHonest, AddsFileMessages, Honest

\* The acknowledgement that goes out before the files, and no datagram at all.
LEMMA Acks ==
  /\ \A seq : UpAck(seq).type # "AuthRequest"
  /\ \A seq : IsSeq(<<UpAck(seq)>>) /\ \A m \in Range(<<UpAck(seq)>>) : m.type # "AuthRequest"
  /\ \A seq : PingMessage(seq).type # "AuthRequest"
  /\ \A seq : IsSeq(<<PingMessage(seq)>>)
              /\ \A m \in Range(<<PingMessage(seq)>>) : m.type # "AuthRequest"
<1>1. \A e : IsSeq(<<e>>) /\ Range(<<e>>) \subseteq {e}
  <2>1. \A e : <<e>> \in Seq({e})
    OBVIOUS
  <2>. QED
    BY <2>1, RangeOver
<1>2. \A seq : UpAck(seq).type # "AuthRequest" /\ PingMessage(seq).type # "AuthRequest"
  BY DEF UpAck, PingMessage
<1>. QED
  BY <1>1, <1>2

\* onMessageReceived of the client.
LEMMA ClientReceives ==
  ASSUME IInv, NEW m, Granted(m, authed), ClientReceive(m), authed' = authed
  PROVE  ClientIsHonest' /\ AuthAgreement' /\ cPw' = cPw
<1>. USE DEF IInv
<1>0. /\ IsSeq(up) /\ IsQueue(cQueue)
      /\ IsQueued(cQueue, m.seq) =>
           /\ IsQueue(OnSequenceNumberAck(cQueue, m.seq))
           /\ Messages(OnSequenceNumberAck(cQueue, m.seq)) \subseteq Messages(cQueue)
  BY AckMessages DEF ClientIsHonest
<1>1. CASE Ignored
  BY <1>1 DEF Ignored, clientVars, ClientIsHonest, AuthAgreement
<1>2. CASE m.type = "ServerHello" /\ OnServerHello(m) /\ ~Ignored
  <2>1. cState = "sendClientHello" /\ cPw' = cPw /\ cState' \in {"sendClientHello", "clientAuth"}
    BY <1>2 DEF OnServerHello
  <2>2. CASE up' = up /\ cQueue' = cQueue
    BY <2>1, <2>2 DEF ClientIsHonest, AuthAgreement, LoggedIn
  <2>3. CASE /\ up' = Append(up, AuthRequest(m.seq))
             /\ cQueue' = PushSendMessage(cQueue, m.seq, AuthRequest(m.seq))
    <3>1. Honest(AuthRequest(m.seq), cPw)
      BY DEF AuthRequest, Honest
    <3>2. /\ IsSeq(up') /\ Range(up)' \subseteq Range(up) \cup {AuthRequest(m.seq)}
          /\ IsQueue(cQueue') /\ Messages(cQueue)' \subseteq Messages(cQueue) \cup {AuthRequest(m.seq)}
      BY <1>0, <2>3, RangeAppend, PushMessages
    <3>3. ClientIsHonest'
      BY <2>1, <3>1, <3>2 DEF ClientIsHonest
    <3>. QED
      BY <2>1, <3>3 DEF AuthAgreement, LoggedIn
  <2>. QED
    BY <1>2, <2>2, <2>3 DEF OnServerHello
<1>3. CASE m.type = "AuthResult" /\ OnAuthResult(m) /\ m.dst = cPort /\ ~Ignored
  <2>. DEFINE q == OnSequenceNumberAck(cQueue, m.seq)
              ack == UpAck(m.seq)
  <2>1. IsQueued(cQueue, m.seq) /\ cPw' = cPw /\ cPort' = cPort
    BY <1>3 DEF OnAuthResult
  <2>2. /\ IsSeq(<<ack>>)
        /\ ack.type # "AuthRequest"
        /\ \A x \in Range(<<ack>>) : x.type # "AuthRequest"
    BY Acks
  <2>3. CASE cState # "clientAuth"
    <3>1. cQueue' = q /\ up' = Append(up, ack) /\ cState' = cState
      BY <1>3, <2>1, <2>3 DEF OnAuthResult
    <3>2. IsSeq(up') /\ Range(up)' \subseteq Range(up) \cup {ack}
      BY <1>0, <3>1, RangeAppend
    <3>. QED
      BY <1>0, <2>1, <2>2, <3>1, <3>2 DEF ClientIsHonest, AuthAgreement, Honest
  <2>4. CASE cState = "clientAuth" /\ m.ok
    <3>1. EnterConnected("consumer", cTimer, q, <<ack>>, cSeq)
      BY <1>3, <2>1, <2>4 DEF OnAuthResult
    <3>2. AddsFileMessages(q, <<ack>>)
      BY <1>0, <2>1, <2>2, <3>1, EnterAdds
    <3>3. ClientIsHonest'
      BY <1>0, <2>1, <2>2, <3>2, StaysHonest
    <3>4. m.dst \in authed
      BY <1>3, <2>4 DEF Granted
    <3>. QED
      BY <1>3, <2>1, <3>3, <3>4 DEF AcceptedByPassword, AuthAgreement
  <2>5. CASE cState = "clientAuth" /\ ~m.ok
    <3>1. cQueue' = <<>> /\ up' = Append(up, ack) /\ cState' = "disconnected"
      BY <1>3, <2>1, <2>5 DEF OnAuthResult, EnterDisconnected
    <3>2. IsSeq(up') /\ Range(up)' \subseteq Range(up) \cup {ack}
      BY <1>0, <3>1, RangeAppend
    <3>. QED
      BY <2>1, <2>2, <3>1, <3>2, EmptyQueue
         DEF ClientIsHonest, AuthAgreement, Honest, LoggedIn
  <2>. QED
    BY <2>3, <2>4, <2>5
<1>4. CASE m.type = "FileStatus" /\ OnFileStatus(m) /\ ~Ignored
  <2>. DEFINE q == OnSequenceNumberAck(cQueue, m.seq)
  <2>1. /\ IsQueued(cQueue, m.seq) /\ cState = "reqestedFileStatus"
        /\ cPw' = cPw /\ cPort' = cPort
        /\ \/ SendCreation(cTimer, q, <<>>, cSeq, "ft_file", ws.cur)
           \/ EnterSendingFS("consumer", cTimer, q, <<>>, cSeq)
    BY <1>4 DEF OnFileStatus
  <2>2. FileCreation(cSeq, "ft_file", ws.cur).type # "AuthRequest"
    BY DEF FileCreation
  <2>3. AddsFileMessages(q, <<>>)
    BY <1>0, <2>1, <2>2, EnterAdds, SendAndWaitAdds, EmptyQueue DEF SendCreation
  <2>4. ClientIsHonest'
    BY <1>0, <2>1, <2>3, StaysHonest, EmptyQueue
  <2>. QED
    BY <2>1, <2>4 DEF AuthAgreement, LoggedIn
<1>5. CASE m.type = "Ack" /\ OnAck(m) /\ ~Ignored
  <2>. DEFINE q == OnSequenceNumberAck(cQueue, m.seq)
  <2>1. IsQueued(cQueue, m.seq) /\ cPw' = cPw /\ cPort' = cPort
    BY <1>5 DEF OnAck
  <2>2. CASE cState \in {"awaitingAck", "ping"}
    <3>1. \/ EnterSendingFS("consumer", cTimer, q, <<>>, cSeq)
          \/ EnterConnected("consumer", cTimer, q, <<>>, cSeq)
      BY <1>5, <2>1, <2>2 DEF OnAck
    <3>2. AddsFileMessages(q, <<>>)
      BY <1>0, <2>1, <3>1, EnterAdds, EmptyQueue
    <3>3. ClientIsHonest'
      BY <1>0, <2>1, <3>2, StaysHonest, EmptyQueue
    <3>. QED
      BY <2>1, <2>2, <3>3 DEF AuthAgreement, LoggedIn
  <2>3. CASE cState \notin {"awaitingAck", "ping"}
    <3>1. cQueue' = q /\ cState' = cState /\ up' = up
      BY <1>5, <2>1, <2>3 DEF OnAck
    <3>. QED
      BY <1>0, <2>1, <3>1 DEF ClientIsHonest, AuthAgreement
  <2>. QED
    BY <2>2, <2>3
<1>. QED
  BY <1>1, <1>2, <1>3, <1>4, <1>5 DEF ClientReceive

\* connect() starts again with an empty queue and without a login.
LEMMA Connecting ==
  ASSUME IInv, NEW tm, Connect(tm)
  PROVE  ClientIsHonest' /\ AuthAgreement' /\ cPw' = cPw
<1>1. /\ cQueue' = <<>> /\ up' = up /\ cPw' = cPw
      /\ cState' \in {"terminated", "sendClientHello"}
  BY DEF Connect
<1>. QED
  BY <1>1, EmptyQueue DEF IInv, ClientIsHonest, AuthAgreement, LoggedIn

\* onTimerTick of the client.
LEMMA ClientTicking ==
  ASSUME TypeOK, IInv, ClientTick, authed' = authed
  PROVE  ClientIsHonest' /\ AuthAgreement' /\ cPw' = cPw
<1>. USE DEF IInv
<1>0. IsSeq(up) /\ IsQueue(cQueue)
  BY DEF ClientIsHonest
<1>1. ASSUME Reconnect PROVE ClientIsHonest' /\ AuthAgreement' /\ cPw' = cPw
  BY <1>1, Connecting DEF Reconnect
<1>2. CASE TickConnected
  <2>. DEFINE msg == PingMessage(cSeq)
  <2>1. msg.type # "AuthRequest"
    BY Acks
  <2>2. /\ cQueue' = PushSendMessage(cQueue, cSeq, msg) /\ up' = Append(up, msg)
        /\ cPw' = cPw /\ cPort' = cPort /\ cState = "connected"
    BY <1>2 DEF TickConnected
  <2>3. /\ IsSeq(up') /\ Range(up)' \subseteq Range(up) \cup {msg}
        /\ IsQueue(cQueue') /\ Messages(cQueue)' \subseteq Messages(cQueue) \cup {msg}
    BY <1>0, <2>2, RangeAppend, PushMessages
  <2>. QED
    BY <2>1, <2>2, <2>3 DEF ClientIsHonest, AuthAgreement, Honest, LoggedIn
<1>3. CASE TickAwaiting /\ ~Reconnect
  <2>1. /\ cQueue # <<>> /\ cQueue' = RequeueOldest(cQueue)
        /\ UNCHANGED <<cPw, cPort, cState>>
    BY <1>3 DEF TickAwaiting
  <2>4. PICK m \in Resent(Oldest(cQueue).msg) : up' = Append(up, m)
    BY <1>3 DEF TickAwaiting
  <2>2. /\ Oldest(cQueue).msg \in Messages(cQueue)
        /\ IsQueue(cQueue') /\ Messages(cQueue)' \subseteq Messages(cQueue)
    BY <1>0, <2>1, RequeueMessages
  <2>3. IsSeq(up') /\ Range(up)' \subseteq Range(up) \cup {m}
    BY <1>0, <2>4, RangeAppend
  <2>5. Honest(m, cPw)
    <3>1. Oldest(cQueue).msg \in UpMessage
      BY <2>1, ClientFacts, RequeueType
    <3>2. m.type = "AuthRequest" => m = Oldest(cQueue).msg \/ m.pw # Password
      BY <3>1, ResentFacts
    <3>. QED
      BY <2>2, <3>2 DEF ClientIsHonest, Honest
  <2>. QED
    BY <2>1, <2>2, <2>3, <2>5 DEF ClientIsHonest, AuthAgreement
<1>4. CASE TickPing /\ ~Reconnect
  <2>. DEFINE msg == PingMessage(cSeq)
              q == PushSendMessage(<<>>, cSeq, msg)
  <2>1. /\ EnterConnected("timer", cTimer, q, <<msg>>, cSeq + 1)
        /\ cPw' = cPw /\ cPort' = cPort /\ cState = "ping"
    BY <1>4 DEF TickPing
  <2>2. /\ msg.type # "AuthRequest" /\ IsSeq(<<msg>>)
        /\ \A m \in Range(<<msg>>) : m.type # "AuthRequest"
    BY Acks
  <2>3. IsQueue(q) /\ Messages(q) \subseteq {msg}
    BY PushMessages, EmptyQueue
  <2>4. AddsFileMessages(q, <<msg>>)
    BY <1>0, <2>1, <2>2, <2>3, EnterAdds
  <2>5. ClientIsHonest'
    BY <2>1, <2>2, <2>3, <2>4 DEF AddsFileMessages, ClientIsHonest, Honest
  <2>. QED
    BY <2>1, <2>5 DEF AuthAgreement, LoggedIn
<1>. QED
  BY <1>1, <1>2, <1>3, <1>4 DEF ClientTick

\* The other threads of the client and its console.
LEMMA ClientThreadsStep ==
  ASSUME TypeOK, IInv, Connects \/ Stops \/ SaysHello \/ Indexes \/ ClientTicks \/ TimerEnds
  PROVE  ClientIsHonest' /\ AuthAgreement' /\ cPw' = cPw
<1>. USE DEF IInv
<1>1. authed' = authed /\ IsSeq(up) /\ IsQueue(cQueue)
  BY DEF Connects, Stops, SaysHello, Indexes, ClientTicks, TimerEnds, ClientThreads,
         serverVars, ClientIsHonest
<1>2. CASE Connects
  BY <1>2, Connecting DEF Connects, UserConnect
<1>3. CASE Stops
  BY <1>1, <1>3, EmptyQueue
     DEF Stops, UserStop, EnterDisconnected, ClientIsHonest, AuthAgreement, LoggedIn
<1>4. CASE SaysHello
  <2>1. /\ up' = Append(up, ClientHello) /\ cQueue' = cQueue
        /\ UNCHANGED <<cPw, cPort, cState>>
    BY <1>4 DEF SaysHello, SendClientHello
  <2>2. Honest(ClientHello, cPw)
    BY DEF ClientHello, Honest
  <2>3. IsSeq(up') /\ Range(up)' \subseteq Range(up) \cup {ClientHello}
    BY <1>1, <2>1, RangeAppend
  <2>. QED
    BY <1>1, <2>1, <2>2, <2>3 DEF ClientIsHonest, AuthAgreement
<1>5. CASE Indexes \/ TimerEnds
  <2>1. UNCHANGED <<up, cQueue, cPw, cPort, cState>>
    BY <1>5 DEF Indexes, IndexerEnds, TimerEnds, TimerThreadEnds
  <2>. QED
    BY <1>1, <2>1 DEF ClientIsHonest, AuthAgreement
<1>6. CASE ClientTicks
  BY <1>1, <1>6, ClientTicking DEF ClientTicks
<1>. QED
  BY <1>2, <1>3, <1>4, <1>5, <1>6

-----------------------------------------------------------------------------
(* The server *)

\* A change of one session.
LEMMA UpdateSession ==
  ASSUME SessionsGrant, authed \subseteq authed', NEW id, NEW s,
         sessions' = [sessions EXCEPT ![id] = s],
         id \in ClientId => s = NoSession \/ GrantingSession(s, authed')
  PROVE  SessionsGrant'
<1>1. \A j \in ClientId : sessions'[j] = IF j = id THEN s ELSE sessions[j]
  BY DEF SessionsGrant
<1>2. sessions' = [j \in ClientId |-> sessions'[j]]
  BY DEF SessionsGrant
<1>3. ClientId' = ClientId
  BY DEF ClientId
<1>. QED
  BY <1>1, <1>2, <1>3 DEF SessionsGrant, GrantingSession, Granted

\* A datagram to the client.
LEMMA AnswerGranted ==
  ASSUME IsSeq(down), \A m \in Range(down) : Granted(m, authed), authed \subseteq authed',
         NEW msg, Granted(msg, authed'), down' = Append(down, msg)
  PROVE  IsSeq(down') /\ \A m \in Range(down)' : Granted(m, authed')
BY RangeAppend DEF Granted

\* The messages other than a result of an authentication.
LEMMA OtherAnswers ==
  ASSUME NEW ports
  PROVE  /\ \A id, dst, flags : Granted(ServerHello(id, dst, flags), ports)
         /\ \A seq, dst : Granted(DownAck(seq, dst), ports)
         /\ \A seq, dst, last : Granted(FileStatusAnswer(seq, dst, last), ports)
         /\ \A seq, dst : Granted(ToDoMessage(seq, dst), ports)
BY DEF Granted, ServerHello, DownAck, FileStatusAnswer, ToDoMessage

\* onClientHelloMessage of FileServer2.
LEMMA HelloGrants ==
  ASSUME ServerIsHonest, NEW m, OnClientHello(m)
  PROVE  ServerIsHonest' /\ authed' = authed
<1>1. authed' = authed
  BY DEF OnClientHello
<1>2. \E flags : down' = Append(down, ServerHello(m.id, m.dst, flags))
  BY DEF OnClientHello
<1>3. IsSeq(down') /\ \A x \in Range(down)' : Granted(x, authed')
  BY <1>1, <1>2, AnswerGranted, OtherAnswers DEF ServerIsHonest
<1>4. SessionsGrant'
  <2>0. SessionsGrant /\ ClientId' = ClientId
    BY DEF ServerIsHonest, ClientId
  <2>1. CASE sessions' = [sessions EXCEPT ![m.id] = NewSession(m)]
    <3>. DEFINE hello == ServerHello(m.id, m.dst, "accepted")
    <3>1. IsQueue(PushSendMessage(<<>>, 0, hello)) /\ Messages(PushSendMessage(<<>>, 0, hello)) \subseteq {hello}
      BY PushMessages, EmptyQueue
    <3>2. IsSession(NewSession(m)) /\ NewSession(m).queue = PushSendMessage(<<>>, 0, hello)
      BY DEF NewSession, IsSession
    <3>3. GrantingSession(NewSession(m), authed')
      BY <3>1, <3>2, OtherAnswers DEF GrantingSession
    <3>. QED
      BY <1>1, <2>0, <2>1, <3>3, UpdateSession
  <2>2. CASE sessions' = [id \in ClientId |-> NoSession]
    BY <2>0, <2>2 DEF SessionsGrant
  <2>. QED
    BY <2>1, <2>2 DEF OnClientHello
<1>. QED
  BY <1>1, <1>3, <1>4 DEF ServerIsHonest

\* Messages granted stay granted.
LEMMA StillGranted ==
  ASSUME NEW m, authed \subseteq authed', Granted(m, authed)
  PROVE  Granted(m, authed')
BY DEF Granted

\* onAuthRequestMessage: a success is sent and filed only when the password
\* was right, and then the port of the client is among the accepted ones.
LEMMA AuthGrants ==
  ASSUME ServerIsHonest, AcceptedByPassword, NEW id, sessions[id] # NoSession,
         NEW m, m.type = "AuthRequest", Honest(m, cPw), cPw' = cPw, OnAuthRequest(id, m)
  PROVE  ServerIsHonest' /\ AcceptedByPassword' /\ authed \subseteq authed'
<1>. DEFINE s == sessions[id]
            ok == m.pw = Password
            result == AuthResult(m.seq, s.dst, ok)
            q == OnSequenceNumberAck(s.queue, m.seq)
            t == IF ok THEN [s EXCEPT !.state = "fsc_awaitServerAuthAck",
                                      !.queue = PushSendMessage(q, m.seq, result)]
                 ELSE [s EXCEPT !.state = "fsc_error", !.queue = <<>>]
<1>0. ClientId' = ClientId
  BY DEF ClientId
<1>1. CASE UNCHANGED <<serverVars, down>>
  BY <1>0, <1>1 DEF serverVars, ServerIsHonest, SessionsGrant, AcceptedByPassword
<1>2. CASE ~UNCHANGED <<serverVars, down>>
  <2>1. /\ IsQueued(s.queue, m.seq)
        /\ down' = Append(down, result)
        /\ authed' = IF ok THEN authed \cup {s.dst} ELSE authed
        /\ sessions' = [sessions EXCEPT ![id] = t]
    BY <1>2 DEF OnAuthRequest
  <2>2. authed \subseteq authed' /\ AcceptedByPassword'
    BY <2>1 DEF AcceptedByPassword, Honest
  <2>3. Granted(result, authed')
    BY <2>1 DEF AuthResult, Granted
  <2>4. IsSeq(down') /\ \A x \in Range(down)' : Granted(x, authed')
    BY <2>1, <2>2, <2>3, AnswerGranted DEF ServerIsHonest
  <2>5. ASSUME id \in ClientId PROVE GrantingSession(t, authed')
    <3>1. IsSession(s) /\ IsQueue(s.queue) /\ \A x \in Messages(s.queue) : Granted(x, authed)
      BY <2>5 DEF ServerIsHonest, SessionsGrant, GrantingSession
    <3>2. IsQueue(q) /\ Messages(q) \subseteq Messages(s.queue)
      BY <2>1, <3>1, AckMessages
    <3>3. /\ IsQueue(PushSendMessage(q, m.seq, result))
          /\ Messages(PushSendMessage(q, m.seq, result)) \subseteq Messages(q) \cup {result}
      BY <3>2, PushMessages
    <3>4. IsSession(t) /\ t.queue = IF ok THEN PushSendMessage(q, m.seq, result) ELSE <<>>
      BY <3>1 DEF IsSession
    <3>5. IsQueue(t.queue) /\ \A x \in Messages(t.queue) : Granted(x, authed')
      BY <2>2, <2>3, <3>1, <3>2, <3>3, <3>4, EmptyQueue, StillGranted
    <3>. QED
      BY <3>4, <3>5 DEF GrantingSession
  <2>6. SessionsGrant'
    BY <2>1, <2>2, <2>5, UpdateSession DEF ServerIsHonest
  <2>. QED
    BY <2>2, <2>4, <2>6 DEF ServerIsHonest
<1>. QED
  BY <1>1, <1>2

\* A session that keeps its messages, or some of them, and adds others.
LEMMA StillGrants ==
  ASSUME ServerIsHonest, authed' = authed, NEW id, sessions[id] # NoSession,
         NEW t, sessions' = [sessions EXCEPT ![id] = t],
         IsSession(sessions[id]) /\ IsQueue(sessions[id].queue) =>
           /\ IsSession(t)
           /\ IsQueue(t.queue)
           /\ \A m \in Messages(t.queue) :
                m \in Messages(sessions[id].queue) \/ Granted(m, authed)
  PROVE  SessionsGrant'
<1>0. authed' = authed
  OBVIOUS
<1>1. ASSUME id \in ClientId PROVE GrantingSession(t, authed')
  <2>1. GrantingSession(sessions[id], authed)
    BY <1>1 DEF ServerIsHonest, SessionsGrant
  <2>2. /\ IsSession(t) /\ IsQueue(t.queue)
        /\ \A m \in Messages(t.queue) : Granted(m, authed)
    BY <2>1 DEF GrantingSession
  <2>. QED
    BY <1>0, <2>2 DEF GrantingSession
<1>. QED
  BY <1>1, UpdateSession DEF ServerIsHonest

\* onMessageReceived of a session.
LEMMA SessionReceives ==
  ASSUME ServerIsHonest, AcceptedByPassword, NEW m, Honest(m, cPw), cPw' = cPw,
         SessionReceive(m)
  PROVE  ServerIsHonest' /\ AcceptedByPassword' /\ authed \subseteq authed'
<1>. DEFINE id == m.to
            s == sessions[id]
<1>0. ClientId' = ClientId
  BY DEF ClientId
<1>1. CASE UNCHANGED <<sessions, authed, down>>
  BY <1>0, <1>1 DEF ServerIsHonest, SessionsGrant, AcceptedByPassword
<1>2. CASE Active(id) /\ m.type = "AuthRequest" /\ OnAuthRequest(id, m)
  BY <1>2, AuthGrants DEF Active
<1>3. CASE Active(id) /\ m.type = "Ack" /\ OnClientAck(id, m)
  <2>1. CASE UNCHANGED <<serverVars, down>>
    BY <1>1, <2>1 DEF serverVars
  <2>2. CASE ~UNCHANGED <<serverVars, down>>
    <3>. DEFINE q == OnSequenceNumberAck(s.queue, m.seq)
                t == [s EXCEPT !.queue = q,
                        !.state = IF @ = "fsc_awaitServerAuthAck" THEN "fsc_connected" ELSE @]
    <3>1. /\ IsQueued(s.queue, m.seq) /\ authed' = authed /\ down' = down
          /\ sessions' = [sessions EXCEPT ![id] = t]
      BY <1>3, <2>2 DEF OnClientAck
    <3>2. ASSUME IsSession(s) PROVE IsSession(t) /\ t.queue = q
      BY <3>2 DEF IsSession
    <3>3. ASSUME IsQueue(s.queue) PROVE IsQueue(q) /\ Messages(q) \subseteq Messages(s.queue)
      BY <3>1, <3>3, AckMessages
    <3>4. SessionsGrant'
      BY <1>3, <3>1, <3>2, <3>3, StillGrants DEF Active
    <3>. QED
      BY <3>1, <3>4 DEF ServerIsHonest, AcceptedByPassword
  <2>. QED
    BY <2>1, <2>2
<1>4. CASE /\ m.type \in {"Ping", "FileStatus", "FileCreation", "FileTransfer"}
           /\ OnPing(id, m) \/ OnFileStatusRequest(id, m) \/ OnFileCreation(id, m)
                \/ OnFileTransfer(id, m)
           /\ Active(id)
  <2>1. /\ authed' = authed
        /\ \/ down' = Append(down, DownAck(m.seq, s.dst))
           \/ \E last : down' = Append(down, FileStatusAnswer(m.seq, s.dst, last))
    BY <1>4 DEF OnPing, OnFileStatusRequest, OnFileCreation, OnFileTransfer
  <2>2. IsSeq(down') /\ \A x \in Range(down)' : Granted(x, authed')
    BY <2>1, AnswerGranted, OtherAnswers DEF ServerIsHonest
  <2>3. SessionsGrant'
    <3>1. sessions' = sessions \/ sessions' = [sessions EXCEPT ![id].cur = m.fid]
      <4>1. CASE OnFileCreation(id, m)
        BY <4>1 DEF OnFileCreation, CarryOut
      <4>. QED
        BY <1>4, <4>1 DEF OnPing, OnFileStatusRequest, OnFileTransfer
    <3>2. CASE sessions' = sessions
      BY <1>0, <2>1, <3>2 DEF ServerIsHonest, SessionsGrant
    <3>3. CASE sessions' = [sessions EXCEPT ![id].cur = m.fid]
      <4>. DEFINE t == [s EXCEPT !.cur = m.fid]
      <4>1. sessions' = [sessions EXCEPT ![id] = t]
        BY <3>3
      <4>2. ASSUME IsSession(s) PROVE IsSession(t) /\ t.queue = s.queue
        BY <4>2 DEF IsSession
      <4>. QED
        BY <1>4, <2>1, <4>1, <4>2, StillGrants DEF Active
    <3>. QED
      BY <3>1, <3>2, <3>3
  <2>. QED
    BY <2>1, <2>2, <2>3 DEF ServerIsHonest, AcceptedByPassword
<1>5. \/ UNCHANGED <<serverVars, down>>
      \/ /\ Active(id)
         /\ \/ m.type = "AuthRequest" /\ OnAuthRequest(id, m)
            \/ m.type = "Ack" /\ OnClientAck(id, m)
            \/ /\ m.type \in {"Ping", "FileStatus", "FileCreation", "FileTransfer"}
               /\ \/ OnPing(id, m) \/ OnFileStatusRequest(id, m)
                  \/ OnFileCreation(id, m) \/ OnFileTransfer(id, m)
  BY DEF SessionReceive, OnTransferEnded
<1>6. UNCHANGED <<serverVars, down>> => UNCHANGED <<sessions, authed, down>>
  BY DEF serverVars
<1>. QED
  BY <1>1, <1>2, <1>3, <1>4, <1>5, <1>6

\* The threads of the server: onTimerTick, clanupClients, changes to send.
LEMMA ServerThreadsStep ==
  ASSUME ServerIsHonest, AcceptedByPassword, NEW id \in ClientId, cPw' = cPw,
         SessionTick(id) \/ Cleanup(id) \/ OtherClientUploads(id)
  PROVE  ServerIsHonest' /\ AcceptedByPassword' /\ authed' = authed
<1>. DEFINE s == sessions[id]
<1>0. authed' = authed /\ AcceptedByPassword' /\ sessions[id] # NoSession
  BY DEF SessionTick, TickIdle, TickSendingChanges, TickAwaitingClient, Cleanup,
         OtherClientUploads, Active, AcceptedByPassword
<1>2. CASE TickIdle(id) \/ OtherClientUploads(id)
  <2>1. ASSUME IsSession(s)
        PROVE  /\ IsSession([s EXCEPT !.state = "fsc_ping"])
               /\ [s EXCEPT !.state = "fsc_ping"].queue = s.queue
               /\ IsSession([s EXCEPT !.todo = TRUE])
               /\ [s EXCEPT !.todo = TRUE].queue = s.queue
    BY <2>1 DEF IsSession
  <2>2. \/ sessions' = [sessions EXCEPT ![id] = [s EXCEPT !.state = "fsc_ping"]]
        \/ sessions' = [sessions EXCEPT ![id] = [s EXCEPT !.todo = TRUE]]
    BY <1>2 DEF TickIdle, OtherClientUploads
  <2>3. SessionsGrant' /\ down' = down
    BY <1>0, <1>2, <2>1, <2>2, StillGrants DEF TickIdle, OtherClientUploads
  <2>. QED
    BY <1>0, <2>3 DEF ServerIsHonest
<1>3. CASE TickSendingChanges(id)
  <2>. DEFINE msg == ToDoMessage(s.seq, s.dst)
              q == PushSendMessage(s.queue, s.seq, msg)
              t == [s EXCEPT !.state = "fsc_awaitingAck", !.seq = @ + 1, !.queue = q]
  <2>1. sessions' = [sessions EXCEPT ![id] = t] /\ down' = Append(down, msg)
    BY <1>3 DEF TickSendingChanges
  <2>2. Granted(msg, authed)
    BY OtherAnswers
  <2>3. ASSUME IsSession(s) PROVE IsSession(t) /\ t.queue = q
    BY <2>3 DEF IsSession
  <2>4. ASSUME IsQueue(s.queue) PROVE IsQueue(q) /\ Messages(q) \subseteq Messages(s.queue) \cup {msg}
    BY <2>4, PushMessages
  <2>5. SessionsGrant'
    BY <1>0, <2>1, <2>2, <2>3, <2>4, StillGrants
  <2>. QED
    BY <1>0, <2>1, <2>2, <2>5, AnswerGranted DEF ServerIsHonest
<1>4. CASE TickAwaitingClient(id)
  <2>. DEFINE q == RequeueOldest(s.queue)
              t == [s EXCEPT !.queue = q]
              dead == [s EXCEPT !.state = "fsc_error", !.queue = <<>>]
  <2>0. GrantingSession(s, authed) /\ s.queue # <<>>
    BY <1>0, <1>4 DEF TickAwaitingClient, ServerIsHonest, SessionsGrant
  <2>1. \/ sessions' = [sessions EXCEPT ![id] = dead] /\ down' = down
        \/ /\ sessions' = [sessions EXCEPT ![id] = t]
           /\ down' = Append(down, Oldest(s.queue).msg)
    BY <1>4 DEF TickAwaitingClient
  <2>2. /\ IsSession(t) /\ t.queue = q
        /\ IsSession(dead) /\ dead.queue = <<>>
    BY <2>0 DEF GrantingSession, IsSession
  <2>3. /\ IsQueue(q) /\ Messages(q) \subseteq Messages(s.queue)
        /\ Granted(Oldest(s.queue).msg, authed)
    BY <2>0, RequeueMessages DEF GrantingSession
  <2>4. SessionsGrant'
    BY <1>0, <2>1, <2>2, <2>3, EmptyQueue, StillGrants
  <2>. QED
    BY <1>0, <2>1, <2>3, <2>4, AnswerGranted DEF ServerIsHonest
<1>5. CASE Cleanup(id)
  <2>1. sessions' = [sessions EXCEPT ![id] = NoSession] /\ down' = down
    BY <1>5 DEF Cleanup
  <2>2. SessionsGrant'
    BY <1>0, <2>1, UpdateSession DEF ServerIsHonest
  <2>. QED
    BY <1>0, <2>1, <2>2 DEF ServerIsHonest
<1>. QED
  BY <1>0, <1>2, <1>3, <1>4, <1>5 DEF SessionTick

-----------------------------------------------------------------------------
(* The network and the whole session *)

\* The first state: nothing was sent.
LEMMA InitHonest == Init => IInv
<1>. SUFFICES ASSUME Init PROVE IInv
  OBVIOUS
<1>1. ClientIsHonest
  BY EmptyQueue DEF Init, NetworkInit, ClientInit, ClientIsHonest
<1>2. ServerIsHonest
  BY EmptyQueue DEF Init, NetworkInit, ServerInit, ServerIsHonest, SessionsGrant
<1>3. AcceptedByPassword /\ AuthAgreement
  BY DEF Init, ServerInit, ClientInit, AcceptedByPassword, AuthAgreement, LoggedIn
<1>. QED
  BY <1>1, <1>2, <1>3 DEF IInv

\* A datagram that is lost or delivered twice is not a new one.
LEMMA FaultsStep ==
  ASSUME IInv, Faults
  PROVE  IInv'
<1>. USE DEF IInv
<1>1. UNCHANGED <<clientVars, serverVars>> /\ NetworkFault
  BY DEF Faults
<1>2. IsSeq(up) /\ IsSeq(down)
  BY DEF ClientIsHonest, ServerIsHonest
<1>3. IsSeq(up') /\ Range(up)' \subseteq Range(up)
  <2>1. CASE up' = up
    BY <1>2, <2>1
  <2>2. CASE LoseUp
    BY <1>2, <2>2, RangeRemoveAt DEF LoseUp
  <2>3. CASE DuplicateUp
    <3>1. PICK i \in DOMAIN up : up' = InsertAt(up, i, up[i])
      BY <2>3 DEF DuplicateUp
    <3>. QED
      BY <1>2, <3>1, RangeInsertAt, AtPlaces
  <2>. QED
    BY <1>1, <2>1, <2>2, <2>3 DEF NetworkFault, LoseDown, DuplicateDown
<1>4. IsSeq(down') /\ Range(down)' \subseteq Range(down)
  <2>1. CASE down' = down
    BY <1>2, <2>1
  <2>2. CASE LoseDown
    BY <1>2, <2>2, RangeRemoveAt DEF LoseDown
  <2>3. CASE DuplicateDown
    <3>1. PICK i \in DOMAIN down : down' = InsertAt(down, i, down[i])
      BY <2>3 DEF DuplicateDown
    <3>. QED
      BY <1>2, <3>1, RangeInsertAt, AtPlaces
  <2>. QED
    BY <1>1, <2>1, <2>2, <2>3 DEF NetworkFault, LoseUp, DuplicateUp
<1>5. UNCHANGED <<cState, cQueue, cPort, cPw, sessions, authed>> /\ ClientId' = ClientId
  BY <1>1 DEF clientVars, serverVars, ClientId
<1>6. ClientIsHonest'
  BY <1>3, <1>5 DEF ClientIsHonest
<1>7. ServerIsHonest'
  BY <1>4, <1>5 DEF ServerIsHonest, SessionsGrant
<1>. QED
  BY <1>5, <1>6, <1>7 DEF AcceptedByPassword, AuthAgreement

\* Steps of the server leave the client honest, steps of the client the server.
LEMMA OtherSide ==
  ASSUME IInv
  PROVE  /\ /\ UNCHANGED clientVars
            /\ IsSeq(up') /\ Range(up)' \subseteq Range(up)
            /\ authed \subseteq authed'
            => ClientIsHonest' /\ AuthAgreement'
         /\ /\ UNCHANGED serverVars
            /\ IsSeq(down') /\ Range(down)' \subseteq Range(down)
            /\ cPw' = cPw
            => ServerIsHonest' /\ AcceptedByPassword'
<1>1. ClientId' = ClientId
  BY DEF ClientId
<1>2. ASSUME UNCHANGED clientVars, IsSeq(up'), Range(up)' \subseteq Range(up),
             authed \subseteq authed'
      PROVE  ClientIsHonest' /\ AuthAgreement'
  BY <1>2 DEF IInv, clientVars, ClientIsHonest, AuthAgreement
<1>3. ASSUME UNCHANGED serverVars, IsSeq(down'), Range(down)' \subseteq Range(down), cPw' = cPw
      PROVE  ServerIsHonest' /\ AcceptedByPassword'
  BY <1>1, <1>3 DEF IInv, serverVars, ServerIsHonest, SessionsGrant, AcceptedByPassword
<1>. QED
  BY <1>2, <1>3

\* Every step of the session preserves the invariant.
LEMMA StepHonest == TypeOK /\ IInv /\ [Next]_vars => IInv'
<1>. SUFFICES ASSUME TypeOK, IInv, [Next]_vars PROVE IInv'
  OBVIOUS
<1>0. IsSeq(up) /\ IsSeq(down)
  BY DEF IInv, ClientIsHonest, ServerIsHonest
<1>1. CASE Connects \/ Stops \/ SaysHello \/ Indexes \/ ClientTicks \/ TimerEnds
  <2>1. UNCHANGED <<serverVars, down>>
    BY <1>1 DEF Connects, Stops, SaysHello, Indexes, ClientTicks, TimerEnds, ClientThreads
  <2>. QED
    BY <1>0, <1>1, <2>1, ClientThreadsStep, OtherSide DEF IInv
<1>2. CASE SessionTicks \/ CleansUp \/ OthersUpload
  <2>1. UNCHANGED <<clientVars, up>>
    BY <1>2 DEF SessionTicks, CleansUp, OthersUpload, ServerThreads
  <2>2. PICK id \in ClientId : SessionTick(id) \/ Cleanup(id) \/ OtherClientUploads(id)
    BY <1>2 DEF SessionTicks, CleansUp, OthersUpload
  <2>3. ServerIsHonest' /\ AcceptedByPassword' /\ authed' = authed
    BY <2>1, <2>2, ServerThreadsStep DEF IInv, clientVars
  <2>. QED
    BY <1>0, <2>1, <2>3, OtherSide DEF IInv
<1>3. CASE UserChanges
  <2>1. UNCHANGED <<clientVars, serverVars, up, down>>
    BY <1>3 DEF UserChanges, netVars
  <2>. QED
    BY <1>0, <2>1, OtherSide DEF IInv, clientVars, serverVars
<1>4. CASE Faults
  BY <1>4, FaultsStep
<1>5. CASE DeliverUp
  <2>1. PICK i \in DOMAIN up : up' = RemoveAt(up, i) /\ ServerReceive(up[i])
    BY <1>5 DEF DeliverUp, Deliverable
  <2>2. UNCHANGED clientVars /\ cPw' = cPw
    BY <1>5 DEF DeliverUp, clientVars
  <2>3. Honest(up[i], cPw)
    BY AtPlaces DEF IInv, ClientIsHonest
  <2>4. /\ ServerIsHonest' /\ AcceptedByPassword' /\ authed \subseteq authed'
    <3>1. CASE SessionReceive(up[i])
      BY <2>2, <2>3, <3>1, SessionReceives DEF IInv
    <3>2. CASE OnClientHello(up[i])
      BY <2>2, <3>2, HelloGrants DEF IInv, AcceptedByPassword
    <3>3. CASE UNCHANGED <<serverVars, down>>
      BY <1>0, <2>2, <3>3, OtherSide DEF serverVars
    <3>. QED
      BY <2>1, <3>1, <3>2, <3>3 DEF ServerReceive
  <2>. QED
    BY <1>0, <2>1, <2>2, <2>4, RangeRemoveAt, OtherSide DEF IInv
<1>6. CASE DeliverDown
  <2>1. PICK i \in DOMAIN down : down' = RemoveAt(down, i) /\ ClientReceive(down[i])
    BY <1>6 DEF DeliverDown, Deliverable
  <2>2. UNCHANGED serverVars /\ authed' = authed
    BY <1>6 DEF DeliverDown, serverVars
  <2>3. Granted(down[i], authed)
    BY AtPlaces DEF IInv, ServerIsHonest
  <2>4. ClientIsHonest' /\ AuthAgreement' /\ cPw' = cPw
    BY <2>1, <2>2, <2>3, ClientReceives
  <2>. QED
    BY <1>0, <2>1, <2>2, <2>4, RangeRemoveAt, OtherSide DEF IInv
<1>7. CASE UNCHANGED vars
  BY <1>0, <1>7, OtherSide DEF vars, netVars, IInv, clientVars, serverVars
<1>. QED
  BY <1>1, <1>2, <1>3, <1>4, <1>5, <1>6, <1>7 DEF Next

(***************************************************************************)
(* In every behaviour a client that believes it is logged in has been      *)
(* accepted by the server for its present connection, with the password.   *)
(***************************************************************************)
THEOREM LoginIsAgreed == Spec => []AuthAgreement
<1>1. IInv => AuthAgreement
  BY DEF IInv
<1>. QED
  BY <1>1, SessionIsTyped, InitHonest, StepHonest, PTL DEF Spec

=============================================================================
