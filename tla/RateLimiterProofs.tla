-------------------------- MODULE RateLimiterProofs --------------------------
(***************************************************************************)
(* The limit of RateLimiter holds for any number of threads and any MaxPPS. *)
(***************************************************************************)
EXTENDS RateLimiter, FiniteSetTheorems, TLAPS

(***************************************************************************)
(* BoundedRate is not inductive: how much may still be sent in a period    *)
(* depends on the slots counted in it and on the threads about to send.    *)
(* While the timer drains, nobody counts, and the bound of the period that *)
(* ends must not follow the counter down.                                  *)
(***************************************************************************)
RateInv ==
  IF MaxPPS = 0 THEN sent = 0
  ELSE IF draining
  THEN sent + Cardinality(Sending) <= MaxPPS + Cardinality(Sender)
  ELSE sent + Cardinality(Sending) <= sendPCount + Cardinality(Sender)

IInv == TypeOK /\ SlotsConserved /\ RateInv

(***************************************************************************)
(* The sets of threads that hold a slot or are about to send are finite.   *)
(***************************************************************************)
LEMMA CountedSets ==
  /\ Cardinality(Sender) \in Nat
  /\ IsFiniteSet(Admitted) /\ Cardinality(Admitted) \in Nat
  /\ IsFiniteSet(Sending) /\ Cardinality(Sending) \in Nat
  /\ Cardinality(Sending) <= Cardinality(Sender)
<1>1. IsFiniteSet(Sender)
  BY RateLimiterAssumption
<1>2. Admitted \subseteq Sender /\ Sending \subseteq Sender
  BY DEF Admitted, Sending
<1>. QED
  BY <1>1, <1>2, FS_Subset, FS_CardinalityType

\* Thread s goes from one place of send() to another one.
Moves(s, from, to) == pc[s] = from /\ from # to /\ pc' = [pc EXCEPT ![s] = to]

\* A thread that moves changes the size of the set it leaves and of the set
\* it enters by one, and of no other.
LEMMA Leaves ==
  ASSUME TypeOK, NEW s \in Sender, NEW from, NEW to,
         Moves(s, from, to)
  PROVE  /\ from = "admitted" => Cardinality(Admitted)' = Cardinality(Admitted) - 1
         /\ to = "admitted" => Cardinality(Admitted)' = Cardinality(Admitted) + 1
         /\ from # "admitted" /\ to # "admitted" => Cardinality(Admitted)' = Cardinality(Admitted)
         /\ from = "sending" => Cardinality(Sending)' = Cardinality(Sending) - 1
         /\ to = "sending" => Cardinality(Sending)' = Cardinality(Sending) + 1
         /\ from # "sending" /\ to # "sending" => Cardinality(Sending)' = Cardinality(Sending)
<1>1. \A t \in Sender : pc'[t] = IF t = s THEN to ELSE pc[t]
  BY DEF TypeOK, Moves
<1>2. from = "admitted" => s \in Admitted /\ Admitted' = Admitted \ {s}
  BY <1>1 DEF Moves, Admitted
<1>3. to = "admitted" => s \notin Admitted /\ Admitted' = Admitted \cup {s}
  BY <1>1 DEF Moves, Admitted
<1>4. from # "admitted" /\ to # "admitted" => Admitted' = Admitted
  BY <1>1 DEF Moves, Admitted
<1>5. from = "sending" => s \in Sending /\ Sending' = Sending \ {s}
  BY <1>1 DEF Moves, Sending
<1>6. to = "sending" => s \notin Sending /\ Sending' = Sending \cup {s}
  BY <1>1 DEF Moves, Sending
<1>7. from # "sending" /\ to # "sending" => Sending' = Sending
  BY <1>1 DEF Moves, Sending
<1>. QED
  BY <1>2, <1>3, <1>4, <1>5, <1>6, <1>7, CountedSets, FS_AddElement, FS_RemoveElement

\* The first state satisfies IInv: every slot is in the semaphore.
LEMMA InitHolds == Init => IInv
<1>. SUFFICES ASSUME Init PROVE IInv
  OBVIOUS
<1>1. TypeOK
  BY RateLimiterAssumption DEF Init, TypeOK
<1>2. Admitted = {} /\ Sending = {}
  BY DEF Init, Admitted, Sending
<1>3. SlotsConserved
  BY <1>2, FS_EmptySet, RateLimiterAssumption DEF Init, SlotsConserved
<1>4. RateInv
  BY <1>2, FS_EmptySet, CountedSets DEF Init, RateInv
<1>. QED
  BY <1>1, <1>3, <1>4 DEF IInv

\* One step of a thread or of the timer preserves every part of IInv.
LEMMA StepHolds == IInv /\ [Next]_vars => IInv'
<1>. SUFFICES ASSUME TypeOK, SlotsConserved, RateInv, [Next]_vars
     PROVE  TypeOK' /\ SlotsConserved' /\ RateInv'
  BY DEF IInv
<1>0. UNCHANGED pc =>
        Cardinality(Admitted)' = Cardinality(Admitted) /\ Cardinality(Sending)' = Cardinality(Sending)
  BY DEF Admitted, Sending
<1>. USE RateLimiterAssumption, CountedSets
<1>1. ASSUME NEW s \in Sender, Send(s) PROVE TypeOK' /\ SlotsConserved' /\ RateInv'
  <2>1. TypeOK'
    BY <1>1 DEF Send, TypeOK
  <2>2. CASE MaxPPS = 0
    <3>1. Moves(s, "idle", "sending")
      BY <1>1, <2>2 DEF Moves, Send
    <3>2. Cardinality(Admitted)' = Cardinality(Admitted)
      BY <3>1, Leaves
    <3>. QED
      BY <1>1, <2>1, <2>2, <3>2 DEF Send, SlotsConserved, RateInv, TypeOK
  <2>3. CASE MaxPPS # 0
    <3>1. Moves(s, "idle", "waiting")
      BY <1>1, <2>3 DEF Moves, Send
    <3>2. Cardinality(Admitted)' = Cardinality(Admitted) /\ Cardinality(Sending)' = Cardinality(Sending)
      BY <3>1, Leaves
    <3>. QED
      BY <1>1, <2>1, <2>3, <3>2 DEF Send, SlotsConserved, RateInv, TypeOK
  <2>. QED
    BY <2>2, <2>3
<1>2. ASSUME NEW s \in Sender, Acquire(s) PROVE TypeOK' /\ SlotsConserved' /\ RateInv'
  <2>1. Moves(s, "waiting", "admitted")
    BY <1>2 DEF Moves, Acquire
  <2>2. /\ Cardinality(Admitted)' = Cardinality(Admitted) + 1
        /\ Cardinality(Sending)' = Cardinality(Sending)
    BY <2>1, Leaves
  <2>3. TypeOK'
    BY <1>2 DEF Acquire, TypeOK
  <2>. QED
    BY <1>2, <2>2, <2>3 DEF Acquire, SlotsConserved, RateInv, TypeOK
<1>3. ASSUME NEW s \in Sender, Count(s) PROVE TypeOK' /\ SlotsConserved' /\ RateInv'
  <2>1. Moves(s, "admitted", "sending")
    BY <1>3 DEF Moves, Count
  <2>2. /\ Cardinality(Admitted)' = Cardinality(Admitted) - 1
        /\ Cardinality(Sending)' = Cardinality(Sending) + 1
    BY <2>1, Leaves
  <2>3. TypeOK'
    BY <1>3 DEF Count, TypeOK
  <2>. QED
    BY <1>3, <2>2, <2>3 DEF Count, SlotsConserved, RateInv, TypeOK
<1>4. ASSUME NEW s \in Sender, SendTo(s) PROVE TypeOK' /\ SlotsConserved' /\ RateInv'
  <2>1. Moves(s, "sending", "idle")
    BY <1>4 DEF Moves, SendTo
  <2>2. /\ Cardinality(Admitted)' = Cardinality(Admitted)
        /\ Cardinality(Sending)' = Cardinality(Sending) - 1
    BY <2>1, Leaves
  <2>3. TypeOK'
    BY <1>4 DEF SendTo, TypeOK
  <2>. QED
    BY <1>4, <2>2, <2>3 DEF SendTo, SlotsConserved, RateInv, TypeOK
<1>5. CASE TickBegins
  <2>1. sendPCount <= MaxPPS
    BY DEF SlotsConserved, TypeOK
  <2>. QED
    BY <1>5, <1>0, <2>1 DEF TickBegins, SlotsConserved, RateInv, TypeOK
<1>6. CASE TickPosts
  BY <1>6, <1>0 DEF TickPosts, SlotsConserved, RateInv, TypeOK
<1>7. CASE TickEnds
  <2>1. /\ Cardinality(Admitted)' = Cardinality(Admitted)
        /\ Cardinality(Sending)' = Cardinality(Sending)
    BY <1>7, <1>0 DEF TickEnds
  <2>2. TypeOK' /\ SlotsConserved'
    BY <1>7, <2>1 DEF TickEnds, SlotsConserved, TypeOK
  <2>3. RateInv'
    BY <1>7, <2>1 DEF TickEnds, RateInv
  <2>. QED
    BY <2>2, <2>3
<1>8. CASE UNCHANGED vars
  BY <1>8, <1>0 DEF vars, SlotsConserved, RateInv, TypeOK
<1>. QED
  BY <1>1, <1>2, <1>3, <1>4, <1>5, <1>6, <1>7, <1>8 DEF Next, Tick, Step

-----------------------------------------------------------------------------
\* Every state of a behaviour satisfies the inductive invariant.
LEMMA Invariance == Spec => []IInv
<1>. QED
  BY InitHolds, StepHolds, PTL DEF Spec

(***************************************************************************)
(* The semaphore and the counter are never negative: a slot is given back  *)
(* only if it was counted, and taken only if it is there.                  *)
(***************************************************************************)
THEOREM RateLimiterTyped == Spec => []TypeOK
<1>1. IInv => TypeOK
  BY DEF IInv
<1>. QED
  BY <1>1, Invariance, PTL

(***************************************************************************)
(* No slot of the semaphore is lost or made up, however the threads        *)
(* between sem_wait and the count interleave with the loop of the timer.   *)
(***************************************************************************)
THEOREM SlotsAreConserved == Spec => []SlotsConserved
<1>1. IInv => SlotsConserved
  BY DEF IInv
<1>. QED
  BY <1>1, Invariance, PTL

(***************************************************************************)
(* No more datagrams leave in a period than MaxPPS and one per thread.     *)
(***************************************************************************)
THEOREM RateIsBounded == Spec => []BoundedRate
<1>1. IInv => BoundedRate
  <2>. SUFFICES ASSUME IInv PROVE BoundedRate
    OBVIOUS
  <2>1. sendPCount <= MaxPPS
    BY CountedSets, RateLimiterAssumption DEF IInv, SlotsConserved, TypeOK
  <2>. QED
    BY <2>1, CountedSets, RateLimiterAssumption DEF IInv, RateInv, BoundedRate, TypeOK
<1>. QED
  BY <1>1, Invariance, PTL

=============================================================================
