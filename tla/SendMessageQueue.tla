--------------------------- MODULE SendMessageQueue ---------------------------
(***************************************************************************)
(* The queue of messages that were sent and are not acknowledged yet       *)
(* (class SendMessageQueue of Queue.h).  Each side of a session owns one.  *)
(* An entry keeps the message, the sequence number it is filed under and   *)
(* the number of times it was sent.  What the message points to is not     *)
(* kept: an entry says what was sent first, and who sends it again has to  *)
(* say what is in it then (Resent in FileClient2).  The mutex of the queue *)
(* makes every operation atomic: operators on the value of the queue.      *)
(***************************************************************************)
EXTENDS Naturals, Sequences, SequencesExt

\* pushSendMessage: a message enters the queue when it is sent the first time.
PushSendMessage(q, seq, msg) ==
  Append(q, [seq |-> seq, msg |-> msg, sendCount |-> 1])

\* The sequence number is found in the queue: the result of onSequenceNumberAck.
IsQueued(q, seq) == \E i \in DOMAIN q : q[i].seq = seq

\* The place of the first entry filed under the sequence number.
FirstQueued(q, seq) ==
  CHOOSE i \in DOMAIN q : /\ q[i].seq = seq
                          /\ \A j \in DOMAIN q : q[j].seq = seq => i <= j

\* onSequenceNumberAck erases the first entry with the number, and only that one.
OnSequenceNumberAck(q, seq) == RemoveAt(q, FirstQueued(q, seq))

(***************************************************************************)
(* popNotAckedMessages hands out at most one entry, the first that is      *)
(* older than MAX_ACK_TIME_IN_S.  Entries are appended with the current    *)
(* time, so the oldest is the head.  The tick that popped it sends it      *)
(* again and appends it with an increased count.                           *)
(***************************************************************************)
Oldest(q) == Head(q)

\* Mutant: what is sent again is not filed again.
ForgetOldest(q) == Tail(q)

RequeueOldest(q) ==
  Append(Tail(q), [Head(q) EXCEPT !.sendCount = @ + 1])

=============================================================================
