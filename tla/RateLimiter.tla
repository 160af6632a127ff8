----------------------------- MODULE RateLimiter -----------------------------
(***************************************************************************)
(* The limit on datagrams per second of a UDP sender (Client2.cpp).  The    *)
(* server sends to one client from several threads: the consumer of the    *)
(* session, its timer and the thread of FileServer2.  Each takes a slot    *)
(* from a semaphore and counts itself under a mutex; the timer of the      *)
(* sender gives the counted slots back, one by one, holding the mutex.     *)
(***************************************************************************)
EXTENDS Naturals, FiniteSets

CONSTANTS
  Sender,  \* threads that send through this Client2
  MaxPPS   \* maxPPS; 0 (UNLIMITED_PPS) switches the limit off

ASSUME RateLimiterAssumption ==
  /\ IsFiniteSet(Sender)
  /\ MaxPPS \in Nat

VARIABLES
  sem,         \* maxPPSSema
  sendPCount,  \* slots taken and not given back
  draining,    \* the timer is in its loop and holds the mutex
  pc,          \* where each thread is in send()
  sent         \* history: datagrams sent since the last tick ended

vars == <<sem, sendPCount, draining, pc, sent>>

Init ==
  /\ sem = MaxPPS
  /\ sendPCount = 0
  /\ draining = FALSE
  /\ pc = [s \in Sender |-> "idle"]
  /\ sent = 0

\* send() up to waitToSend(), which returns at once without a limit.
Send(s) ==
  /\ pc[s] = "idle"
  /\ pc' = [pc EXCEPT ![s] = IF MaxPPS = 0 THEN "sending" ELSE "waiting"]
  /\ UNCHANGED <<sem, sendPCount, draining, sent>>

\* Mutant: the thread does not wait.
AcquireAnyway(s) ==
  /\ pc[s] = "waiting"
  /\ sem' = sem - 1
  /\ pc' = [pc EXCEPT ![s] = "admitted"]
  /\ UNCHANGED <<sendPCount, draining, sent>>

\* sem_wait returns.
Acquire(s) ==
  /\ pc[s] = "waiting"
  /\ sem > 0
  /\ sem' = sem - 1
  /\ pc' = [pc EXCEPT ![s] = "admitted"]
  /\ UNCHANGED <<sendPCount, draining, sent>>

\* sendPCount++ under the mutex.
Count(s) ==
  /\ pc[s] = "admitted"
  /\ ~draining
  /\ sendPCount' = sendPCount + 1
  /\ pc' = [pc EXCEPT ![s] = "sending"]
  /\ UNCHANGED <<sem, draining, sent>>

\* sendto.  Without a limit nothing is counted, and the history stays 0.
SendTo(s) ==
  /\ pc[s] = "sending"
  /\ pc' = [pc EXCEPT ![s] = "idle"]
  /\ sent' = IF MaxPPS = 0 THEN sent ELSE sent + 1
  /\ UNCHANGED <<sem, sendPCount, draining>>

TickBegins ==
  /\ ~draining
  /\ draining' = TRUE
  /\ UNCHANGED <<sem, sendPCount, pc, sent>>

\* Mutant: the counter is cleared and one slot given back.
TickClears ==
  /\ draining
  /\ sendPCount > 0
  /\ sendPCount' = 0
  /\ sem' = sem + 1
  /\ UNCHANGED <<draining, pc, sent>>

\* Mutant: the counter goes down and the semaphore is not posted.
TickForgets ==
  /\ draining
  /\ sendPCount > 0
  /\ sendPCount' = sendPCount - 1
  /\ UNCHANGED <<sem, draining, pc, sent>>

TickPosts ==
  /\ draining
  /\ sendPCount > 0
  /\ sendPCount' = sendPCount - 1
  /\ sem' = sem + 1
  /\ UNCHANGED <<draining, pc, sent>>

TickEnds ==
  /\ draining
  /\ sendPCount = 0
  /\ draining' = FALSE
  /\ sent' = 0
  /\ UNCHANGED <<sem, sendPCount, pc>>

Tick == TickBegins \/ TickPosts \/ TickEnds
Step(s) == Send(s) \/ Acquire(s) \/ Count(s) \/ SendTo(s)

Next == Tick \/ \E s \in Sender : Step(s)

Spec == Init /\ [][Next]_vars

(***************************************************************************)
(* The timer ticks for ever.  A thread inside send() goes on when it can:   *)
(* it gets the mutex, which the timer holds for a moment in every second.  *)
(* sem_wait wakes some waiting thread but promises nothing to any of them. *)
(***************************************************************************)
Fairness ==
  /\ WF_vars(TickBegins)
  /\ WF_vars(TickPosts)
  /\ WF_vars(TickEnds)
  /\ WF_vars(\E s \in Sender : Acquire(s))
  /\ \A s \in Sender : SF_vars(Count(s)) /\ WF_vars(SendTo(s))

FairSpec == Spec /\ Fairness

-----------------------------------------------------------------------------
Admitted == {s \in Sender : pc[s] = "admitted"}
Sending == {s \in Sender : pc[s] = "sending"}

TypeOK ==
  /\ sem \in Nat
  /\ sendPCount \in Nat
  /\ draining \in BOOLEAN
  /\ pc \in [Sender -> {"idle", "waiting", "admitted", "sending"}]
  /\ sent \in Nat

(***************************************************************************)
(* No slot is lost or made up, whatever the threads and the timer do       *)
(* between sem_wait and the count: a slot is free, counted, or in the      *)
(* hands of one thread.                                                    *)
(***************************************************************************)
SlotsConserved == sem + sendPCount + Cardinality(Admitted) = MaxPPS

(***************************************************************************)
(* The limit: between the ends of two ticks no more than MaxPPS datagrams   *)
(* leave, apart from those (one per thread) that were counted before the   *)
(* first tick and whose sendto came after it.                              *)
(***************************************************************************)
BoundedRate == sent <= MaxPPS + Cardinality(Sender)

\* Threads that wait for a slot do not all wait for ever (waitToSend).
Progress ==
  (\E s \in Sender : pc[s] = "waiting") ~> (\E s \in Sender : pc[s] = "sending")

=============================================================================
