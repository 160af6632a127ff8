---------------------------- MODULE ReceiverProofs ----------------------------
(***************************************************************************)
(* That no datagram is accepted twice or after a later one, that a stop    *)
(* leaves no thread behind, and that a session never looks into the buffer *)
(* of a reader that has ended: for any number of datagrams, of messages    *)
(* and of connects.                                                        *)
(***************************************************************************)
EXTENDS Receiver, SequenceTheorems, TLAPS

\* The checksum in the buffer is of a datagram later than all that have been
\* accepted, if it is there at all.
SumIsNew == mem.sum # 0 => mem.sum > accepted

\* The checksum a check has read is of a later one too, and what is in the
\* buffer by now is no older: the same until it is zeroed, a later one after.
CheckIsNew ==
  /\ consumer = "zero" /\ crc # 0 => /\ crc > accepted
                                     /\ mem.sum # 0 => mem.sum >= crc
  /\ consumer = "calc" /\ crc # 0 => /\ crc > accepted
                                     /\ mem.sum # 0 /\ mem.head # 0 => mem.sum > crc

\* The parts of the state the argument is about.
Typed ==
  /\ received \in Nat /\ accepted \in 0..received /\ crc \in 0..received
  /\ mem \in [head : 0..received, tail : 0..received, sum : 0..received]

Inv == Typed /\ SumIsNew /\ CheckIsNew

-----------------------------------------------------------------------------
LEMMA InitInv == Init => Inv
BY DEF Init, Inv, Typed, SumIsNew, CheckIsNew, Blank

\* The reader's steps: only a new datagram and the end of the thread touch mem.
LEMMA ReaderKeepsInv == Inv /\ (Arrive \/ Reader) => Inv'
<1> SUFFICES ASSUME Inv, Arrive \/ Reader PROVE Inv'
  OBVIOUS
<1> USE DEF Inv, Typed, SumIsNew, CheckIsNew
<1>1. CASE Arrive
  BY <1>1 DEF Arrive, consumerVars
<1>2. CASE ReaderTest
  BY <1>2 DEF ReaderTest, ReaderEnds, Blank, consumerVars
<1>3. CASE ReaderGoesOn
  BY <1>3 DEF ReaderGoesOn, consumerVars
<1>4. CASE RecvHead
  <2>1. /\ received' = received + 1 /\ accepted' = accepted /\ crc' = crc /\ consumer' = consumer
        /\ mem' = [head |-> received + 1, tail |-> mem.tail, sum |-> received + 1]
    BY <1>4 DEF RecvHead, consumerVars
  <2>2. QED BY <2>1
<1>5. CASE RecvTail
  <2>1. /\ received' = received /\ accepted' = accepted /\ crc' = crc /\ consumer' = consumer
        /\ mem' = [head |-> mem.head, tail |-> received, sum |-> mem.sum]
    BY <1>5 DEF RecvTail, consumerVars
  <2>2. QED BY <2>1
<1>6. CASE ReaderPush
  BY <1>6 DEF ReaderPush, consumerVars
<1>7. CASE ReaderNotify
  BY <1>7 DEF ReaderNotify, Notify, consumerVars
<1>8. QED BY <1>1, <1>2, <1>3, <1>4, <1>5, <1>6, <1>7 DEF Reader

\* A check reads the field, zeroes it and compares; nothing else matters.
LEMMA CheckKeepsInv ==
  Inv /\ (ReadChecksum \/ ZeroChecksum \/ CalcChecksum)
    => Inv' /\ (consumer = "calc" /\ consumer' = "handle" => accepted < crc)
<1> SUFFICES ASSUME Inv, ReadChecksum \/ ZeroChecksum \/ CalcChecksum
             PROVE Inv' /\ (consumer = "calc" /\ consumer' = "handle" => accepted < crc)
  OBVIOUS
<1> USE DEF Inv, Typed, SumIsNew, CheckIsNew
<1>1. CASE ReadChecksum
  <2>1. /\ received' = received /\ accepted' = accepted /\ mem' = mem
        /\ consumer = "read" /\ consumer' = "zero" /\ (crc' = mem.sum \/ crc' = 0)
    BY <1>1 DEF ReadChecksum, readerVars
  <2>2. QED BY <2>1
<1>2. CASE ZeroChecksum
  <2>1. /\ received' = received /\ accepted' = accepted /\ crc' = crc
        /\ consumer = "zero" /\ consumer' = "calc"
        /\ \/ mem' = [head |-> mem.head, tail |-> mem.tail, sum |-> 0]
           \/ mem' = [head |-> 0, tail |-> mem.tail, sum |-> mem.sum]
    BY <1>2 DEF ZeroChecksum, readerVars
  <2>2. QED BY <2>1
<1>3. CASE CalcChecksum
  <2>1. /\ received' = received /\ crc' = crc /\ mem' = mem /\ consumer = "calc"
        /\ \/ consumer' = "handle" /\ accepted' = crc /\ crc # 0 /\ mem.sum = 0
           \/ consumer' = "test" /\ accepted' = accepted
    BY <1>3 DEF CalcChecksum, readerVars
  <2>2. QED BY <2>1
<1>4. QED BY <1>1, <1>2, <1>3

\* The other steps of the consumer and the steps of the owner leave the buffer
\* alone and begin no check.
LEMMA OthersKeepInv ==
  Inv /\ (\/ ConsumerTest \/ Pop \/ Dispatch \/ Handle \/ SelfStep \/ OwnerStep
          \/ Stop \/ Reconnect \/ ReconnectOver)
    => Inv' /\ ~(consumer = "calc" /\ consumer' = "handle")
<1> SUFFICES ASSUME Inv,
                    \/ ConsumerTest \/ Pop \/ Dispatch \/ Handle \/ SelfStep \/ OwnerStep
                    \/ Stop \/ Reconnect \/ ReconnectOver
             PROVE Inv' /\ ~(consumer = "calc" /\ consumer' = "handle")
  OBVIOUS
<1>1. /\ received' = received /\ accepted' = accepted /\ crc' = crc /\ mem' = mem
      /\ consumer' = consumer \/ consumer' \notin {"zero", "calc", "handle"}
  <2>1. CASE ConsumerTest
    BY <2>1 DEF ConsumerTest, readerVars
  <2>2. CASE Pop
    BY <2>2 DEF Pop, readerVars
  <2>3. CASE Dispatch
    BY <2>3 DEF Dispatch, readerVars
  <2>4. CASE Handle
    BY <2>4 DEF Handle, readerVars
  <2>5. CASE SelfStep
    BY <2>5 DEF SelfStep
  <2>6. CASE OwnerStep
    BY <2>6 DEF OwnerStep, Notify
  <2>7. CASE Stop \/ Reconnect \/ ReconnectOver
    BY <2>7 DEF Stop, Reconnect, ReconnectOver, readerVars, consumerVars
  <2>8. QED BY <2>1, <2>2, <2>3, <2>4, <2>5, <2>6, <2>7
<1>2. QED BY <1>1 DEF Inv, Typed, SumIsNew, CheckIsNew

LEMMA StepInOrder ==
  Inv /\ [Next]_vars => Inv' /\ (consumer = "calc" /\ consumer' = "handle" => accepted < crc)
<1> SUFFICES ASSUME Inv, [Next]_vars
             PROVE Inv' /\ (consumer = "calc" /\ consumer' = "handle" => accepted < crc)
  OBVIOUS
<1>1. CASE Arrive \/ Reader
  <2>1. consumer' = consumer \/ consumer' = "pop"
    BY <1>1 DEF Arrive, Reader, ReaderTest, ReaderGoesOn, RecvHead, RecvTail, ReaderPush, ReaderNotify,
                Notify, consumerVars
  <2>2. QED BY <1>1, <2>1, ReaderKeepsInv
<1>2. CASE ReadChecksum \/ ZeroChecksum \/ CalcChecksum
  BY <1>2, CheckKeepsInv
<1>3. CASE \/ ConsumerTest \/ Pop \/ Dispatch \/ Handle \/ SelfStep \/ OwnerStep
           \/ Stop \/ Reconnect \/ ReconnectOver
  BY <1>3, OthersKeepInv
<1>4. CASE UNCHANGED vars
  BY <1>4 DEF vars, readerVars, consumerVars, Inv, Typed, SumIsNew, CheckIsNew
<1>5. QED BY <1>1, <1>2, <1>3, <1>4 DEF Next, Consumer

-----------------------------------------------------------------------------
\* What is in the buffer is later than all that has been accepted.
THEOREM Invariance == Spec => []Inv
<1>1. QED BY InitInv, StepInOrder, PTL DEF Spec

\* No datagram is accepted twice, nor after a later one, however the reader's
\* writes, the check and the handlers interleave, for any owner.
THEOREM AcceptsInOrder == Spec => AcceptedInOrder
<1>1. Inv /\ [Next]_vars => [consumer = "calc" /\ consumer' = "handle" => accepted < crc]_vars
  BY StepInOrder
<1>2. QED BY <1>1, Invariance, PTL DEF Spec, AcceptedInOrder

-----------------------------------------------------------------------------
(***************************************************************************)
(* Stopping.  Which threads may still be there when a stop has returned    *)
(* depends on how far the owner has got with it, on a handler that stops   *)
(* the same connection meanwhile, and on one of the two having waited for  *)
(* the reader.  The place in a plan is the number of steps left of it.     *)
(***************************************************************************)
Steps == {"startConsumer", "startReader", "clearFlag", "pushDummy", "notify", "joinConsumer",
          "clear", "stopReader", "joinReader"}

\* The steps are the end of the plan.
RestOf(steps, plan) ==
  /\ steps \in Seq(Steps) /\ Len(steps) <= Len(plan)
  /\ \A i \in 1..Len(steps) : steps[i] = plan[Len(plan) - Len(steps) + i]

Left == Len(todo)

Planned == RestOf(todo, IF stopped THEN Shutdown ELSE Startup)

\* A handler clears the flag before all else, and it is not set again.
SelfPlanned ==
  consumer = "stopping" =>
    /\ owner # "FileServer2"
    /\ RestOf(self, SelfShutdown)
    /\ Len(self) < Len(SelfShutdown) => ~run

\* The consumer has not been started yet, or it has been waited for.
NoConsumerAt ==
  IF stopped
  THEN ~byHandler /\ Left <= CASE owner = "FileServer2" -> 0 [] owner = "FileServerClient" -> 4 [] OTHER -> 2
  ELSE Left >= IF owner \in {"FileServer2", "FileServerClient"} THEN 2 ELSE 1

ConsumerGone == NoConsumerAt => ~HasConsumer

\* The owner waits for the reader, or has done so.
AwaitsReader == stopped /\ Left = IF owner = "FileServer2" THEN 5 ELSE 1

ReaderStopped ==
  /\ stopped /\ ~byHandler /\ Left <= (IF owner = "FileServer2" THEN 5 ELSE 1) => ~us
  /\ reader = "ended" => ~us

\* A reader that has been told to end has ended, or somebody waits for it.
ReaderAwaited ==
  ~us => \/ reader \in {"none", "ended"}
         \/ AwaitsReader
         \/ consumer = "stopping" /\ Len(self) = 1

\* A client that its own handler has disconnected: nobody else does anything
\* about it any more.
EndedByHandler ==
  byHandler =>
    /\ owner = "FileClient2" /\ stopped /\ todo = <<>>
    /\ consumer # "stopping" => ~us /\ ~run
    /\ consumer = "stopping" /\ Len(self) <= 1 => ~us

StopInv ==
  Planned /\ SelfPlanned /\ ConsumerGone /\ ReaderStopped /\ ReaderAwaited /\ EndedByHandler

\* A session has one reader in its life, which its consumer outlives only to end.
OneReader ==
  owner = "FileServerClient" =>
    /\ starts \in {0, 1}
    /\ reader # "none" => starts = 1
    /\ ~stopped /\ Left >= 1 => starts = 0
    /\ reader # "none" /\ ~us =>
         \/ consumer \in {"none", "joined", "stopping", "ended", "terminated"}
         \/ consumer = "test" /\ ~run

\* What its queue holds is of that reader, or the dummy.
EntriesOf(n) == {Dummy} \cup [no : Nat, reader : {1} \cap {n}]

EntriesAreNew ==
  owner = "FileServerClient" =>
    /\ queue \in Seq(EntriesOf(starts)) /\ entry \in EntriesOf(starts)
    /\ consumer \in {"read", "zero", "calc", "handle"} => entry # Dummy

\* u is s and then t.
Continues(s, t, u) ==
  /\ Len(u) = Len(s) + Len(t)
  /\ \A i \in 1..Len(s) : u[i] = s[i]
  /\ \A i \in 1..Len(t) : u[Len(s) + i] = t[i]

LEMMA Concatenated ==
  ASSUME NEW S, NEW s \in Seq(S), NEW t \in Seq(S), NEW u \in Seq(S), Continues(s, t, u)
  PROVE  s \o t = u
<1> USE DEF Continues
<1>1. Len(s) \in Nat /\ Len(t) \in Nat
  BY LenProperties
<1>2. /\ s \o t \in Seq(S) /\ Len(s \o t) = Len(s) + Len(t)
      /\ \A i \in 1..(Len(s) + Len(t)) : (s \o t)[i] = IF i <= Len(s) THEN s[i] ELSE t[i - Len(s)]
  BY ConcatProperties
<1>3. ASSUME NEW i \in 1..(Len(s) + Len(t)) PROVE (s \o t)[i] = u[i]
  <2>1. CASE i <= Len(s)
    BY <1>1, <1>2, <2>1
  <2>2. CASE i > Len(s)
    <3>1. i - Len(s) \in 1..Len(t) /\ Len(s) + (i - Len(s)) = i
      BY <1>1, <2>2
    <3>2. QED BY <1>1, <1>2, <2>2, <3>1
  <2>3. QED BY <1>1, <2>1, <2>2
<1>4. QED BY <1>2, <1>3, SeqEqual

\* The plans, written out.
LEMMA StartupSteps ==
  Startup = IF owner \in {"FileServer2", "FileServerClient"} THEN <<"startConsumer", "startReader">>
            ELSE <<"startReader", "startConsumer">>
<1>1. ASSUME NEW a \in Steps, NEW b \in Steps PROVE <<a>> \o <<b>> = <<a, b>>
  <2> DEFINE s == <<a>>
             t == <<b>>
             u == <<a, b>>
  <2>1. s \in Seq(Steps) /\ t \in Seq(Steps) /\ u \in Seq(Steps)
    OBVIOUS
  <2>2. /\ Len(s) = 1 /\ Len(t) = 1 /\ Len(u) = 2
        /\ s[1] = a /\ t[1] = b /\ u[1] = a /\ u[2] = b
    OBVIOUS
  <2> HIDE DEF s, t, u
  <2>3. Continues(s, t, u)
    <3>1. \A i \in 1..1 : i = 1 /\ 1 + i = 2
      OBVIOUS
    <3>2. QED BY <2>2, <3>1 DEF Continues
  <2>4. s \o t = u
    BY <2>1, <2>3, Concatenated
  <2>5. QED BY <2>4 DEF s, t, u
<1>2. "startConsumer" \in Steps /\ "startReader" \in Steps
  BY DEF Steps
<1>3. QED BY <1>1, <1>2 DEF Startup, StartConsumer, StartReader

ServerShutdown == <<"stopReader", "joinReader", "clearFlag", "pushDummy", "notify", "joinConsumer">>
SessionShutdown ==
  <<"clearFlag", "pushDummy", "notify", "joinConsumer", "clear", "notify", "stopReader", "joinReader">>
ClientShutdown == <<"clearFlag", "pushDummy", "notify", "joinConsumer", "stopReader", "joinReader">>

LEMMA ShutdownSteps ==
  Shutdown = CASE owner = "FileServer2" -> ServerShutdown
               [] owner = "FileServerClient" -> SessionShutdown
               [] OTHER -> ClientShutdown
<1>1. StopReader \o StopConsumer = ServerShutdown
  <2>1. StopReader \in Seq(Steps) /\ StopConsumer \in Seq(Steps) /\ ServerShutdown \in Seq(Steps)
    BY DEF Steps, StopReader, StopConsumer, ServerShutdown
  <2>2. Continues(StopReader, StopConsumer, ServerShutdown)
    BY DEF Continues, StopReader, StopConsumer, ServerShutdown
  <2>3. QED BY <2>1, <2>2, Concatenated
<1>2. StopConsumer \o StopReader = ClientShutdown
  <2>1. StopReader \in Seq(Steps) /\ StopConsumer \in Seq(Steps) /\ ClientShutdown \in Seq(Steps)
    BY DEF Steps, StopReader, StopConsumer, ClientShutdown
  <2>2. Continues(StopConsumer, StopReader, ClientShutdown)
    BY DEF Continues, StopReader, StopConsumer, ClientShutdown
  <2>3. QED BY <2>1, <2>2, Concatenated
<1>3. (StopConsumer \o <<"clear", "notify">>) \o StopReader = SessionShutdown
  <2> DEFINE Six == <<"clearFlag", "pushDummy", "notify", "joinConsumer", "clear", "notify">>
             Two == <<"clear", "notify">>
  <2>1. /\ StopReader \in Seq(Steps) /\ StopConsumer \in Seq(Steps) /\ SessionShutdown \in Seq(Steps)
        /\ Two \in Seq(Steps) /\ Six \in Seq(Steps)
    BY DEF Steps, StopReader, StopConsumer, SessionShutdown
  <2>2. Continues(StopConsumer, Two, Six)
    BY DEF Continues, StopConsumer
  <2>3. Continues(Six, StopReader, SessionShutdown)
    BY DEF Continues, StopReader, SessionShutdown
  <2> HIDE DEF Two, Six
  <2>4. StopConsumer \o Two = Six /\ Six \o StopReader = SessionShutdown
    BY <2>1, <2>2, <2>3, Concatenated
  <2>5. QED BY <2>4 DEF Two
<1>4. QED BY <1>1, <1>2, <1>3 DEF Shutdown

LEMMA SelfShutdownSteps ==
  SelfShutdown = IF owner = "FileServerClient"
                 THEN <<"clearFlag", "clear", "notify", "stopReader", "joinReader">>
                 ELSE <<"clearFlag", "stopReader", "joinReader">>
<1>1. ASSUME NEW s \in Seq(Steps), NEW u \in Seq(Steps), Continues(s, StopReader, u)
      PROVE  s \o StopReader = u
  <2>1. StopReader \in Seq(Steps)
    BY DEF Steps, StopReader
  <2>2. QED BY <1>1, <2>1, Concatenated
<1>2. Continues(<<"clearFlag", "clear", "notify">>, StopReader,
                <<"clearFlag", "clear", "notify", "stopReader", "joinReader">>)
  BY DEF Continues, StopReader
<1>3. Continues(<<"clearFlag">>, StopReader, <<"clearFlag", "stopReader", "joinReader">>)
  BY DEF Continues, StopReader
<1>4. /\ <<"clearFlag", "clear", "notify">> \in Seq(Steps) /\ <<"clearFlag">> \in Seq(Steps)
      /\ <<"clearFlag", "clear", "notify", "stopReader", "joinReader">> \in Seq(Steps)
      /\ <<"clearFlag", "stopReader", "joinReader">> \in Seq(Steps)
  BY DEF Steps
<1>5. QED BY <1>1, <1>2, <1>3, <1>4 DEF SelfShutdown

\* The next step of what is left of a plan, and what is left after it.
LEMMA RestOfPlan ==
  ASSUME NEW plan \in Seq(Steps), NEW steps, RestOf(steps, plan), steps # <<>>
  PROVE  /\ Len(steps) \in 1..Len(plan)
         /\ Head(steps) = plan[Len(plan) - Len(steps) + 1]
         /\ RestOf(Tail(steps), plan) /\ Len(Tail(steps)) = Len(steps) - 1
<1> USE DEF RestOf
<1>1. Len(plan) \in Nat /\ Len(steps) \in Nat /\ Len(steps) # 0 /\ Len(steps) <= Len(plan)
  BY LenProperties, EmptySeq
<1>2. Head(steps) = steps[1] /\ Tail(steps) \in Seq(Steps) /\ Len(Tail(steps)) = Len(steps) - 1
      /\ \A i \in 1..(Len(steps) - 1) : Tail(steps)[i] = steps[i + 1]
  BY HeadTailProperties
<1>3. ASSUME NEW i \in 1..(Len(steps) - 1)
      PROVE  Tail(steps)[i] = plan[Len(plan) - (Len(steps) - 1) + i]
  <2>1. i + 1 \in 1..Len(steps) /\ Len(plan) - Len(steps) + (i + 1) = Len(plan) - (Len(steps) - 1) + i
    BY <1>1
  <2>2. QED BY <1>2, <2>1
<1>4. QED BY <1>1, <1>2, <1>3

\* Which step the owner is at says how many are left.
LEMMA OwnerPlaces ==
  ASSUME Planned, todo # <<>>
  PROVE
    LET s == Head(todo)
        isServer == owner = "FileServer2"
        isSession == owner = "FileServerClient"
    IN /\ Left \in Nat /\ Left >= 1
       /\ s \in Steps
       /\ s = "startConsumer" => ~stopped /\ Left = IF isServer \/ isSession THEN 2 ELSE 1
       /\ s = "startReader" => ~stopped /\ Left = IF isServer \/ isSession THEN 1 ELSE 2
       /\ s = "clearFlag" => stopped /\ Left = IF isServer THEN 4 ELSE IF isSession THEN 8 ELSE 6
       /\ s = "pushDummy" => stopped /\ Left = IF isServer THEN 3 ELSE IF isSession THEN 7 ELSE 5
       /\ s = "notify" => stopped /\ Left \in IF isServer THEN {2} ELSE IF isSession THEN {6, 3} ELSE {4}
       /\ s = "joinConsumer" => stopped /\ Left = IF isServer THEN 1 ELSE IF isSession THEN 5 ELSE 3
       /\ s = "clear" => stopped /\ isSession /\ Left = 4
       /\ s = "stopReader" => stopped /\ Left = IF isServer THEN 6 ELSE 2
       /\ s = "joinReader" => stopped /\ Left = IF isServer THEN 5 ELSE 1
<1> DEFINE plan == IF stopped THEN Shutdown ELSE Startup
<1>1. /\ ServerShutdown \in Seq(Steps) /\ Len(ServerShutdown) = 6
      /\ SessionShutdown \in Seq(Steps) /\ Len(SessionShutdown) = 8
      /\ ClientShutdown \in Seq(Steps) /\ Len(ClientShutdown) = 6
      /\ <<"startConsumer", "startReader">> \in Seq(Steps)
      /\ <<"startReader", "startConsumer">> \in Seq(Steps)
  BY DEF Steps, ServerShutdown, SessionShutdown, ClientShutdown
<1>2. plan \in Seq(Steps)
  BY <1>1, StartupSteps, ShutdownSteps
<1>3. RestOf(todo, plan)
  BY DEF Planned
<1> HIDE DEF plan
<1>4. /\ Left \in 1..Len(plan) /\ Head(todo) = plan[Len(plan) - Left + 1]
      /\ Len(plan) \in Nat
  BY <1>2, <1>3, RestOfPlan, LenProperties DEF Left
<1>5. CASE ~stopped
  <2>1. plan = IF owner \in {"FileServer2", "FileServerClient"} THEN <<"startConsumer", "startReader">>
               ELSE <<"startReader", "startConsumer">>
    BY <1>5, StartupSteps DEF plan
  <2>2. Len(plan) = 2
    BY <2>1
  <2>3. \/ Left = 2 /\ Head(todo) = plan[1]
        \/ Left = 1 /\ Head(todo) = plan[2]
    BY <1>4, <2>2
  <2>4. QED BY <1>5, <2>1, <2>3 DEF Steps
<1>6. CASE stopped /\ owner = "FileServer2"
  <2>1. plan = ServerShutdown /\ Len(plan) = 6
    BY <1>1, <1>6, ShutdownSteps DEF plan
  <2>2. \/ Left = 6 /\ Head(todo) = plan[1]
        \/ Left = 5 /\ Head(todo) = plan[2]
        \/ Left = 4 /\ Head(todo) = plan[3]
        \/ Left = 3 /\ Head(todo) = plan[4]
        \/ Left = 2 /\ Head(todo) = plan[5]
        \/ Left = 1 /\ Head(todo) = plan[6]
    BY <1>4, <2>1
  <2>3. QED BY <1>6, <2>1, <2>2 DEF Steps, ServerShutdown
<1>7. CASE stopped /\ owner = "FileServerClient"
  <2>1. plan = SessionShutdown /\ Len(plan) = 8
    BY <1>1, <1>7, ShutdownSteps DEF plan
  <2>2. \/ Left = 8 /\ Head(todo) = plan[1]
        \/ Left = 7 /\ Head(todo) = plan[2]
        \/ Left = 6 /\ Head(todo) = plan[3]
        \/ Left = 5 /\ Head(todo) = plan[4]
        \/ Left = 4 /\ Head(todo) = plan[5]
        \/ Left = 3 /\ Head(todo) = plan[6]
        \/ Left = 2 /\ Head(todo) = plan[7]
        \/ Left = 1 /\ Head(todo) = plan[8]
    BY <1>4, <2>1
  <2>3. QED BY <1>7, <2>1, <2>2 DEF Steps, SessionShutdown
<1>8. CASE stopped /\ owner \notin {"FileServer2", "FileServerClient"}
  <2>1. plan = ClientShutdown /\ Len(plan) = 6
    BY <1>1, <1>8, ShutdownSteps DEF plan
  <2>2. \/ Left = 6 /\ Head(todo) = plan[1]
        \/ Left = 5 /\ Head(todo) = plan[2]
        \/ Left = 4 /\ Head(todo) = plan[3]
        \/ Left = 3 /\ Head(todo) = plan[4]
        \/ Left = 2 /\ Head(todo) = plan[5]
        \/ Left = 1 /\ Head(todo) = plan[6]
    BY <1>4, <2>1
  <2>3. QED BY <1>8, <2>1, <2>2 DEF Steps, ClientShutdown
<1>9. QED BY <1>5, <1>6, <1>7, <1>8

LEMMA StartupPlan == Startup \in Seq(Steps) /\ Len(Startup) = 2
<1>1. <<"startConsumer", "startReader">> \in Seq(Steps) /\ <<"startReader", "startConsumer">> \in Seq(Steps)
  BY DEF Steps
<1>2. QED BY <1>1, StartupSteps

LEMMA ShutdownPlan ==
  Shutdown \in Seq(Steps) /\ Len(Shutdown) = IF owner = "FileServerClient" THEN 8 ELSE 6
<1>1. /\ ServerShutdown \in Seq(Steps) /\ Len(ServerShutdown) = 6
      /\ SessionShutdown \in Seq(Steps) /\ Len(SessionShutdown) = 8
      /\ ClientShutdown \in Seq(Steps) /\ Len(ClientShutdown) = 6
  BY DEF Steps, ServerShutdown, SessionShutdown, ClientShutdown
<1>2. QED BY <1>1, ShutdownSteps

LEMMA SelfPlan ==
  SelfShutdown \in Seq(Steps) /\ Len(SelfShutdown) = IF owner = "FileServerClient" THEN 5 ELSE 3
<1>1. /\ <<"clearFlag", "clear", "notify", "stopReader", "joinReader">> \in Seq(Steps)
      /\ <<"clearFlag", "stopReader", "joinReader">> \in Seq(Steps)
  BY DEF Steps
<1>2. QED BY <1>1, SelfShutdownSteps

\* The same of a handler.
LEMMA SelfPlaces ==
  ASSUME RestOf(self, SelfShutdown), self # <<>>
  PROVE  /\ Len(self) \in Nat /\ Len(self) >= 1
         /\ Head(self) \in {"clearFlag", "clear", "notify", "stopReader", "joinReader"}
         /\ Head(self) = "clearFlag" <=> Len(self) = Len(SelfShutdown)
         /\ Head(self) = "stopReader" <=> Len(self) = 2
         /\ Head(self) = "joinReader" <=> Len(self) = 1
<1>1. /\ Len(self) \in 1..Len(SelfShutdown)
      /\ Head(self) = SelfShutdown[Len(SelfShutdown) - Len(self) + 1]
  BY SelfPlan, RestOfPlan
<1>2. CASE owner = "FileServerClient"
  <2> DEFINE n == Len(self)
             plan == SelfShutdown
  <2>1. Len(SelfShutdown) = 5 /\ n \in 1..5 /\ Head(self) = plan[5 - n + 1]
    BY <1>1, <1>2, SelfPlan
  <2> HIDE DEF n, plan
  <2>2. \/ n = 5 /\ Head(self) = plan[1]
        \/ n = 4 /\ Head(self) = plan[2]
        \/ n = 3 /\ Head(self) = plan[3]
        \/ n = 2 /\ Head(self) = plan[4]
        \/ n = 1 /\ Head(self) = plan[5]
    BY <2>1
  <2>3. SelfShutdown = <<"clearFlag", "clear", "notify", "stopReader", "joinReader">>
    BY <1>2, SelfShutdownSteps
  <2>4. /\ n \in Nat /\ n >= 1
        /\ Head(self) \in {"clearFlag", "clear", "notify", "stopReader", "joinReader"}
        /\ Head(self) = "clearFlag" <=> n = 5
        /\ Head(self) = "stopReader" <=> n = 2
        /\ Head(self) = "joinReader" <=> n = 1
    BY <2>1, <2>2, <2>3 DEF plan
  <2>5. QED BY <2>1, <2>4 DEF n
<1>3. CASE owner # "FileServerClient"
  <2> DEFINE n == Len(self)
             plan == SelfShutdown
  <2>1. Len(SelfShutdown) = 3 /\ n \in 1..3 /\ Head(self) = plan[3 - n + 1]
    BY <1>1, <1>3, SelfPlan
  <2> HIDE DEF n, plan
  <2>2. \/ n = 3 /\ Head(self) = plan[1]
        \/ n = 2 /\ Head(self) = plan[2]
        \/ n = 1 /\ Head(self) = plan[3]
    BY <2>1
  <2>3. SelfShutdown = <<"clearFlag", "stopReader", "joinReader">>
    BY <1>3, SelfShutdownSteps
  <2>4. /\ n \in Nat /\ n >= 1
        /\ Head(self) \in {"clearFlag", "clear", "notify", "stopReader", "joinReader"}
        /\ Head(self) = "clearFlag" <=> n = 3
        /\ Head(self) = "stopReader" <=> n = 2
        /\ Head(self) = "joinReader" <=> n = 1
    BY <2>1, <2>2, <2>3 DEF plan
  <2>5. QED BY <2>1, <2>4 DEF n
<1>4. QED BY <1>2, <1>3

\* What is left after a step; a stop of a reader that is stopped already leaves
\* the join out.
LEMMA AfterStep ==
  ASSUME NEW plan \in Seq(Steps), NEW steps, RestOf(steps, plan), steps # <<>>,
         Head(steps) = "stopReader" => Len(steps) >= 2
  PROVE  /\ RestOf(After(steps), plan)
         /\ Len(After(steps)) = IF Head(steps) = "stopReader" /\ ~us THEN Len(steps) - 2 ELSE Len(steps) - 1
<1>1. Len(steps) \in Nat /\ RestOf(Tail(steps), plan) /\ Len(Tail(steps)) = Len(steps) - 1
  BY RestOfPlan, LenProperties
<1>2. CASE Head(steps) = "stopReader" /\ ~us
  <2>1. Tail(steps) # <<>>
    <3>1. Len(Tail(steps)) # 0
      BY <1>1, <1>2
    <3>2. Len(<<>>) = 0
      OBVIOUS
    <3>3. QED BY <3>1, <3>2
  <2>2. RestOf(Tail(Tail(steps)), plan) /\ Len(Tail(Tail(steps))) = Len(steps) - 2
    <3>1. RestOf(Tail(Tail(steps)), plan) /\ Len(Tail(Tail(steps))) = Len(Tail(steps)) - 1
      BY <1>1, <2>1, RestOfPlan
    <3>2. QED BY <1>1, <3>1
  <2>3. QED BY <1>2, <2>2 DEF After
<1>3. CASE ~(Head(steps) = "stopReader" /\ ~us)
  BY <1>1, <1>3 DEF After
<1>4. QED BY <1>2, <1>3

-----------------------------------------------------------------------------
\* The parts of StopInv are about the plans, the threads and these.
LEMMA SamePlans ==
  owner' = owner => Startup' = Startup /\ Shutdown' = Shutdown /\ SelfShutdown' = SelfShutdown
BY DEF Startup, Shutdown, SelfShutdown

LEMMA InitStopInv == Init => StopInv
<1> SUFFICES ASSUME Init PROVE StopInv
  OBVIOUS
<1>1. Startup \in Seq(Steps) /\ Len(Startup) = 2
  BY StartupPlan
<1>2. RestOf(Startup, Startup)
  BY <1>1 DEF RestOf
<1>3. Planned
  BY <1>2 DEF Init, Planned
<1>4. QED BY <1>3 DEF Init, StopInv, SelfPlanned, ConsumerGone, HasConsumer, ReaderStopped, ReaderAwaited,
                      EndedByHandler

\* What the threads do that is no part of a start or a stop.
Working ==
  \/ Arrive \/ Reader
  \/ ConsumerTest \/ Pop \/ Dispatch \/ ReadChecksum \/ ZeroChecksum \/ CalcChecksum
  \/ Handle /\ consumer' = "test"

LEMMA WorkingSteps ==
  ASSUME Working
  PROVE  /\ UNCHANGED <<owner, todo, starts, stopped, byHandler, us, run, self>>
         /\ ~HasConsumer => consumer' = consumer
         /\ HasConsumer => HasConsumer'
         /\ consumer = "stopping" <=> consumer' = "stopping"
         /\ consumer = "ended" => consumer' = "ended"
         /\ consumer = "test" /\ ~run => consumer' \in {"test", "ended"}
         /\ reader \in {"none", "ended"} => reader' = reader
         /\ reader' = "ended" => reader = "ended" \/ ~us
         /\ reader' # "none" <=> reader # "none"
<1> USE DEF HasConsumer, ownerVars, readerVars, consumerVars
<1>1. CASE Arrive
  BY <1>1 DEF Arrive
<1>2. CASE Reader
  BY <1>2 DEF Reader, ReaderTest, ReaderEnds, ReaderGoesOn, RecvHead, RecvTail, ReaderPush, ReaderNotify, Notify
<1>3. CASE ConsumerTest \/ Pop \/ Dispatch
  BY <1>3 DEF ConsumerTest, Pop, Dispatch
<1>4. CASE ReadChecksum \/ ZeroChecksum \/ CalcChecksum
  BY <1>4 DEF ReadChecksum, ZeroChecksum, CalcChecksum
<1>5. CASE Handle /\ consumer' = "test"
  BY <1>5 DEF Handle
<1>6. QED BY <1>1, <1>2, <1>3, <1>4, <1>5 DEF Working

LEMMA WorkingKeepsStopInv == StopInv /\ Working => StopInv'
<1> SUFFICES ASSUME StopInv, Working PROVE StopInv'
  OBVIOUS
<1>1. /\ UNCHANGED <<owner, todo, starts, stopped, byHandler, us, run, self>>
      /\ ~HasConsumer => ~HasConsumer'
      /\ consumer = "stopping" <=> consumer' = "stopping"
      /\ reader \in {"none", "ended"} => reader' = reader
      /\ reader' = "ended" => reader = "ended" \/ ~us
  BY WorkingSteps DEF HasConsumer
<1>2. Planned' /\ SelfPlanned'
  BY <1>1, SamePlans DEF StopInv, Planned, SelfPlanned
<1>3. ConsumerGone' /\ ReaderStopped'
  BY <1>1 DEF StopInv, ConsumerGone, NoConsumerAt, ReaderStopped, Left
<1>4. ReaderAwaited'
  BY <1>1 DEF StopInv, ReaderAwaited, AwaitsReader, Left
<1>5. EndedByHandler'
  BY <1>1 DEF StopInv, EndedByHandler
<1>6. QED BY <1>2, <1>3, <1>4, <1>5 DEF StopInv

\* A handler begins to stop the connection, which nobody else has begun.  The
\* start of a client is over by then.
Disconnecting == Handle /\ consumer' = "stopping"

LEMMA DisconnectingKeepsStopInv == StopInv /\ Disconnecting => StopInv'
<1> SUFFICES ASSUME StopInv, Disconnecting PROVE StopInv'
  OBVIOUS
<1>1. /\ UNCHANGED <<owner, todo, starts, us, run, reader>>
      /\ consumer = "handle" /\ consumer' = "stopping" /\ self' = SelfShutdown
      /\ owner # "FileServer2" /\ ~stopped
      /\ stopped' = (owner = "FileClient2") /\ byHandler' = stopped'
  BY DEF Disconnecting, Handle, readerVars
<1>2. RestOf(SelfShutdown, SelfShutdown) /\ Len(SelfShutdown) \in Nat /\ Len(SelfShutdown) > 1
  BY SelfPlan DEF RestOf
<1>3. owner = "FileClient2" => todo = <<>>
  <2>1. SUFFICES ASSUME owner = "FileClient2" PROVE todo = <<>>
    OBVIOUS
  <2>2. ~(Left >= 1)
    BY <1>1, <2>1 DEF StopInv, ConsumerGone, HasConsumer, NoConsumerAt
  <2>3. todo \in Seq(Steps)
    BY DEF StopInv, Planned, RestOf
  <2>4. QED BY <2>2, <2>3, EmptySeq, LenProperties DEF Left
<1>4. Planned'
  <2>1. CASE owner = "FileClient2"
    <3>1. /\ todo' = <<>> /\ stopped'
      BY <1>1, <1>3, <2>1
    <3>2. RestOf(<<>>, Shutdown)
      BY ShutdownPlan DEF RestOf
    <3>3. QED BY <1>1, <3>1, <3>2, SamePlans DEF Planned
  <2>2. CASE owner # "FileClient2"
    BY <1>1, <2>2, SamePlans DEF StopInv, Planned
  <2>3. QED BY <2>1, <2>2
<1>5. SelfPlanned'
  <2>1. self' = SelfShutdown' /\ RestOf(self', SelfShutdown')
    BY <1>1, <1>2, SamePlans
  <2>2. ~(Len(self') < Len(SelfShutdown'))
    BY <1>1, <1>2, <2>1
  <2>3. QED BY <1>1, <2>1, <2>2, SamePlans DEF SelfPlanned
<1>6. ConsumerGone' /\ ReaderStopped'
  BY <1>1 DEF StopInv, ConsumerGone, HasConsumer, NoConsumerAt, ReaderStopped, Left
<1>7. ReaderAwaited'
  BY <1>1, <1>3 DEF StopInv, ReaderAwaited, AwaitsReader, Left
<1>8. EndedByHandler'
  <2>1. byHandler' => owner' = "FileClient2" /\ stopped'
    BY <1>1
  <2>2. owner = "FileClient2" => todo' = <<>>
    BY <1>1, <1>3
  <2>3. Len(self') > 1 /\ Len(self') \in Nat
    BY <1>1, <1>2
  <2>4. QED BY <1>1, <2>1, <2>2, <2>3 DEF EndedByHandler
<1>9. QED BY <1>4, <1>5, <1>6, <1>7, <1>8 DEF StopInv

\* A stop and a start begin where nothing of the kind is under way.
LEMMA BeginKeepsStopInv == StopInv /\ (Stop \/ Reconnect) => StopInv'
<1> SUFFICES ASSUME StopInv, Stop \/ Reconnect PROVE StopInv'
  OBVIOUS
<1>1. /\ UNCHANGED <<owner, starts, byHandler, us, run, reader, consumer, self>>
      /\ todo = <<>> /\ Len(todo) = 0 /\ ~byHandler
  BY DEF Stop, Reconnect, readerVars, consumerVars, StopInv, EndedByHandler
<1>2. SelfPlanned'
  BY <1>1, SamePlans DEF StopInv, SelfPlanned
<1>3. CASE Stop
  <2>1. stopped' /\ ~stopped /\ todo' = Shutdown
    BY <1>3 DEF Stop
  <2>2. /\ Shutdown \in Seq(Steps)
        /\ Len(Shutdown) = IF owner = "FileServerClient" THEN 8 ELSE 6
    BY ShutdownPlan
  <2>3. RestOf(Shutdown, Shutdown)
    BY <2>2 DEF RestOf
  <2>4. Planned'
    BY <1>1, <2>1, <2>3, SamePlans DEF Planned
  <2>5. Left' \in {6, 8} /\ Left = 0
    BY <1>1, <2>1, <2>2 DEF Left
  <2>6. ConsumerGone' /\ ReaderStopped'
    BY <1>1, <2>1, <2>5 DEF StopInv, ConsumerGone, NoConsumerAt, ReaderStopped
  <2>7. ReaderAwaited'
    BY <1>1, <2>1 DEF StopInv, ReaderAwaited, AwaitsReader
  <2>8. QED BY <1>1, <1>2, <2>4, <2>6, <2>7 DEF StopInv, EndedByHandler
<1>4. CASE Reconnect
  <2>1. owner = "FileClient2" /\ stopped /\ ~stopped' /\ todo' = Startup
    BY <1>4 DEF Reconnect
  <2>2. Startup \in Seq(Steps) /\ Len(Startup) = 2
    BY StartupPlan
  <2>3. RestOf(Startup, Startup)
    BY <2>2 DEF RestOf
  <2>4. Planned'
    BY <1>1, <2>1, <2>3, SamePlans DEF Planned
  <2>5. Left' = 2 /\ Left = 0
    BY <1>1, <2>1, <2>2 DEF Left
  <2>6. ~HasConsumer /\ ~us
    BY <1>1, <2>1, <2>5 DEF StopInv, ConsumerGone, NoConsumerAt, ReaderStopped
  <2>7. ConsumerGone' /\ ReaderStopped'
    BY <1>1, <2>1, <2>6 DEF ConsumerGone, HasConsumer, ReaderStopped
  <2>8. ReaderAwaited'
    BY <1>1, <2>1, <2>5, <2>6 DEF StopInv, ReaderAwaited, AwaitsReader
  <2>9. QED BY <1>1, <1>2, <2>4, <2>7, <2>8 DEF StopInv, EndedByHandler
<1>5. QED BY <1>3, <1>4

\* All is over when the program has been terminated.
LEMMA TerminationKeepsStopInv == StopInv /\ ReconnectOver => StopInv'
<1> SUFFICES ASSUME StopInv, ReconnectOver PROVE StopInv'
  OBVIOUS
<1>1. /\ UNCHANGED <<owner, stopped, byHandler>> /\ owner = "FileClient2" /\ stopped
      /\ consumer' = "terminated" /\ reader' = "ended"
      /\ todo' = <<>> /\ us' = FALSE /\ run' = FALSE
  BY DEF ReconnectOver
<1>2. RestOf(<<>>, Shutdown)
  BY ShutdownPlan DEF RestOf
<1>3. Planned' /\ SelfPlanned'
  BY <1>1, <1>2, SamePlans DEF Planned, SelfPlanned
<1>4. ConsumerGone' /\ ReaderStopped' /\ ReaderAwaited' /\ EndedByHandler'
  BY <1>1 DEF ConsumerGone, HasConsumer, ReaderStopped, ReaderAwaited, EndedByHandler
<1>5. QED BY <1>3, <1>4 DEF StopInv

\* What is left of the plan of the owner after its step.
LEMMA OwnerGoesOn ==
  ASSUME Planned, OwnerStep
  PROVE  /\ UNCHANGED <<owner, stopped, byHandler>> /\ Planned'
         /\ Left' = IF Head(todo) = "stopReader" /\ ~us THEN Left - 2 ELSE Left - 1
<1> DEFINE plan == IF stopped THEN Shutdown ELSE Startup
<1>1. todo # <<>> /\ todo' = After(todo) /\ UNCHANGED <<owner, stopped, byHandler>>
  BY DEF OwnerStep
<1>2. plan \in Seq(Steps) /\ RestOf(todo, plan)
  BY StartupPlan, ShutdownPlan DEF Planned
<1>3. Head(todo) = "stopReader" => Len(todo) >= 2
  <2>1. Head(todo) = "stopReader" => Left \in {2, 6}
    BY <1>1, OwnerPlaces
  <2>2. QED BY <2>1 DEF Left
<1> HIDE DEF plan
<1>4. /\ RestOf(After(todo), plan)
      /\ Len(After(todo)) = IF Head(todo) = "stopReader" /\ ~us THEN Len(todo) - 2 ELSE Len(todo) - 1
  BY <1>1, <1>2, <1>3, AfterStep
<1>5. plan = IF stopped' THEN Shutdown' ELSE Startup'
  BY <1>1, SamePlans DEF plan
<1>6. QED BY <1>1, <1>4, <1>5 DEF Planned, Left

\* The owner starts a thread where there is none, and waits for one.
LEMMA OwnerKeepsStopInv == StopInv /\ OwnerStep => StopInv'
<1> SUFFICES ASSUME StopInv, OwnerStep PROVE StopInv'
  OBVIOUS
<1> DEFINE s == Head(todo)
<1>1. /\ todo # <<>> /\ Planned /\ Planned' /\ UNCHANGED <<owner, stopped, byHandler, self>>
      /\ ~byHandler
      /\ Left' = IF s = "stopReader" /\ ~us THEN Left - 2 ELSE Left - 1
  BY OwnerGoesOn DEF StopInv, OwnerStep, EndedByHandler
<1>2. Left \in Nat /\ Left >= 1 /\ s \in Steps
  BY <1>1, OwnerPlaces
<1>3. s \in {"clear", "clearFlag", "pushDummy", "notify"} => stopped
  BY <1>1, OwnerPlaces
<1>4. SelfShutdown' = SelfShutdown
  BY <1>1, SamePlans
<1>5. CASE s = "startConsumer"
  <2>1. ~stopped /\ Left = IF owner \in {"FileServer2", "FileServerClient"} THEN 2 ELSE 1
    BY <1>1, <1>5, OwnerPlaces
  <2>2. /\ consumer' = "test" /\ UNCHANGED <<us, reader>>
    BY <1>5 DEF OwnerStep, Do
  <2>3. ~HasConsumer
    BY <2>1 DEF StopInv, ConsumerGone, NoConsumerAt
  <2>4. SelfPlanned' /\ ConsumerGone' /\ ReaderStopped'
    BY <1>1, <1>2, <1>5, <2>1, <2>2
       DEF StopInv, SelfPlanned, ConsumerGone, NoConsumerAt, ReaderStopped
  <2>5. ReaderAwaited'
    BY <1>1, <2>1, <2>2, <2>3 DEF StopInv, ReaderAwaited, AwaitsReader, HasConsumer
  <2>6. QED BY <1>1, <2>4, <2>5 DEF StopInv, EndedByHandler
<1>6. CASE s = "startReader"
  <2>1. ~stopped /\ Left = IF owner \in {"FileServer2", "FileServerClient"} THEN 1 ELSE 2
    BY <1>1, <1>6, OwnerPlaces
  <2>2. /\ UNCHANGED <<consumer, run>> /\ us' = TRUE /\ reader' = "test"
    BY <1>6 DEF OwnerStep, Do
  <2>3. SelfPlanned'
    BY <1>1, <1>4, <2>2 DEF StopInv, SelfPlanned
  <2>4. ConsumerGone' /\ ReaderStopped' /\ ReaderAwaited'
    BY <1>1, <1>2, <1>6, <2>1, <2>2
       DEF StopInv, ConsumerGone, NoConsumerAt, HasConsumer, ReaderStopped, ReaderAwaited
  <2>5. QED BY <1>1, <2>3, <2>4 DEF StopInv, EndedByHandler
<1>7. CASE s = "stopReader"
  <2>1. stopped /\ Left = IF owner = "FileServer2" THEN 6 ELSE 2
    BY <1>1, <1>7, OwnerPlaces
  <2>2. UNCHANGED <<consumer, run, reader>> /\ us' = FALSE
    BY <1>7 DEF OwnerStep, Do
  <2>3. SelfPlanned'
    BY <1>1, <1>4, <2>2 DEF StopInv, SelfPlanned
  <2>4. owner # "FileServer2" => ~HasConsumer
    BY <1>1, <2>1 DEF StopInv, ConsumerGone, NoConsumerAt
  <2>5. consumer # "stopping"
    BY <2>4 DEF StopInv, SelfPlanned, HasConsumer
  <2>6. ConsumerGone' /\ ReaderStopped'
    BY <1>1, <1>7, <2>1, <2>2, <2>4
       DEF StopInv, ConsumerGone, NoConsumerAt, HasConsumer, ReaderStopped
  <2>7. ReaderAwaited'
    BY <1>1, <1>7, <2>1, <2>2, <2>5 DEF StopInv, ReaderAwaited, AwaitsReader
  <2>8. QED BY <1>1, <2>3, <2>6, <2>7 DEF StopInv, EndedByHandler
<1>8. CASE s = "joinReader"
  <2>1. stopped /\ Left = IF owner = "FileServer2" THEN 5 ELSE 1
    BY <1>1, <1>8, OwnerPlaces
  <2>2. UNCHANGED <<consumer, run, reader, us>> /\ reader = "ended"
    BY <1>8 DEF OwnerStep, Do, Joined
  <2>3. SelfPlanned'
    BY <1>1, <1>4, <2>2 DEF StopInv, SelfPlanned
  <2>4. ConsumerGone' /\ ReaderStopped' /\ ReaderAwaited'
    BY <1>1, <1>8, <2>1, <2>2
       DEF StopInv, ConsumerGone, NoConsumerAt, HasConsumer, ReaderStopped, ReaderAwaited
  <2>5. QED BY <1>1, <2>3, <2>4 DEF StopInv, EndedByHandler
<1>9. CASE s = "joinConsumer"
  <2>1. stopped /\ Left = IF owner = "FileServer2" THEN 1 ELSE IF owner = "FileServerClient" THEN 5 ELSE 3
    BY <1>1, <1>9, OwnerPlaces
  <2>2. /\ UNCHANGED <<run, reader, us>> /\ consumer # "stopping"
        /\ consumer' \in {"none", "joined", "terminated"}
    BY <1>9 DEF OwnerStep, Do, Joined, HasConsumer
  <2>3. SelfPlanned' /\ ConsumerGone'
    BY <2>2 DEF SelfPlanned, ConsumerGone, HasConsumer
  <2>4. ReaderStopped' /\ ReaderAwaited'
    BY <1>1, <1>9, <2>1, <2>2 DEF StopInv, ReaderStopped, ReaderAwaited, AwaitsReader
  <2>5. QED BY <1>1, <2>3, <2>4 DEF StopInv, EndedByHandler
<1>10. CASE s \in {"clearFlag", "pushDummy", "notify", "clear"}
  <2>1. /\ stopped
        /\ Left \in IF owner = "FileServer2" THEN {4, 3, 2}
                    ELSE IF owner = "FileServerClient" THEN {8, 7, 6, 4, 3} ELSE {6, 5, 4}
    BY <1>1, <1>10, OwnerPlaces
  <2>2. /\ UNCHANGED <<reader, us>>
        /\ run' = run \/ run' = FALSE
        /\ consumer' = consumer \/ (consumer = "waiting" /\ consumer' = "pop")
    BY <1>10 DEF OwnerStep, Do, Notify
  <2>3. SelfPlanned'
    BY <1>1, <1>4, <2>2 DEF StopInv, SelfPlanned
  <2>4. ConsumerGone'
    BY <1>1, <1>10, <2>1, <2>2 DEF StopInv, ConsumerGone, NoConsumerAt, HasConsumer
  <2>5. ReaderStopped' /\ ReaderAwaited'
    BY <1>1, <1>10, <2>1, <2>2 DEF StopInv, ReaderStopped, ReaderAwaited, AwaitsReader
  <2>6. QED BY <1>1, <2>3, <2>4, <2>5 DEF StopInv, EndedByHandler
<1>11. QED BY <1>2, <1>5, <1>6, <1>7, <1>8, <1>9, <1>10 DEF Steps

\* A handler goes on with its stop, or is done with it.
LEMMA SelfStepKeepsStopInv == StopInv /\ SelfStep => StopInv'
<1> SUFFICES ASSUME StopInv, SelfStep PROVE StopInv'
  OBVIOUS
<1>1. /\ UNCHANGED <<owner, todo, stopped, byHandler>> /\ consumer = "stopping"
      /\ owner # "FileServer2" /\ RestOf(self, SelfShutdown)
  BY DEF SelfStep, StopInv, SelfPlanned
<1>2. Planned' /\ SelfShutdown' = SelfShutdown /\ Left' = Left
  BY <1>1, SamePlans DEF StopInv, Planned, Left
<1>3. ~NoConsumerAt
  BY <1>1 DEF StopInv, ConsumerGone, HasConsumer
<1>4. ~NoConsumerAt'
  BY <1>1, <1>2, <1>3 DEF NoConsumerAt
<1>5. ~AwaitsReader /\ ~(stopped /\ ~byHandler /\ Left <= 1)
  <2>1. Left \in Nat /\ (byHandler => Left = 0)
    BY <1>2, LenProperties DEF Planned, RestOf, Left, StopInv, EndedByHandler
  <2>2. QED BY <1>1, <1>3, <2>1 DEF NoConsumerAt, AwaitsReader
<1>6. CASE self = <<>>
  <2>1. UNCHANGED <<self, run, us, reader>> /\ consumer' = "test" /\ Len(self) = 0
    BY <1>6 DEF SelfStep
  <2>2. SelfPlanned' /\ ConsumerGone' /\ ReaderStopped'
    BY <1>1, <1>2, <1>4, <2>1 DEF StopInv, SelfPlanned, ConsumerGone, ReaderStopped
  <2>3. ReaderAwaited'
    BY <1>5, <2>1 DEF StopInv, ReaderAwaited
  <2>4. EndedByHandler'
    <3>1. ~run
      BY <1>1, <2>1, SelfPlan DEF StopInv, SelfPlanned
    <3>2. QED BY <1>1, <2>1, <3>1 DEF StopInv, EndedByHandler
  <2>5. QED BY <1>2, <2>2, <2>3, <2>4 DEF StopInv
<1>7. CASE self # <<>>
  <2> DEFINE s == Head(self)
  <2>1. /\ Len(self) \in Nat /\ Len(self) >= 1
        /\ s \in {"clearFlag", "clear", "notify", "stopReader", "joinReader"}
        /\ s = "clearFlag" <=> Len(self) = Len(SelfShutdown)
        /\ s = "stopReader" <=> Len(self) = 2
        /\ s = "joinReader" <=> Len(self) = 1
    BY <1>1, <1>7, SelfPlaces
  <2>2. /\ RestOf(After(self), SelfShutdown)
        /\ Len(After(self)) = IF s = "stopReader" /\ ~us THEN Len(self) - 2 ELSE Len(self) - 1
    <3>1. Head(self) = "stopReader" => Len(self) >= 2
      BY <2>1
    <3>2. QED BY <1>1, <1>7, <3>1, AfterStep, SelfPlan
  <2>3. /\ self' = After(self) /\ consumer' = "stopping"
        /\ run' = IF s = "clearFlag" THEN FALSE ELSE run
        /\ UNCHANGED reader
        /\ us' = IF s = "stopReader" THEN FALSE ELSE us
        /\ s = "joinReader" => reader = "ended"
    BY <1>1, <1>7, <2>1 DEF SelfStep, Do, Joined
  <2>4. ~run'
    <3>1. Len(self) <= Len(SelfShutdown) /\ Len(SelfShutdown) \in Nat
      BY <1>1, SelfPlan DEF RestOf
    <3>2. Len(self) = Len(SelfShutdown) \/ Len(self) < Len(SelfShutdown)
      BY <2>1, <3>1
    <3>3. QED BY <1>1, <2>1, <2>3, <3>2 DEF StopInv, SelfPlanned
  <2>5. SelfPlanned' /\ ConsumerGone' /\ ReaderStopped'
    BY <1>1, <1>2, <1>4, <2>2, <2>3, <2>4 DEF StopInv, SelfPlanned, ConsumerGone, ReaderStopped
  <2>6. ReaderAwaited'
    <3>1. CASE s = "joinReader"
      BY <2>3, <3>1 DEF ReaderAwaited
    <3>2. CASE s = "stopReader" /\ us
      <4>1. Len(self) = 2
        BY <2>1, <3>2
      <4>2. Len(self') = 1
        BY <2>2, <2>3, <3>2, <4>1
      <4>3. QED BY <2>3, <4>2 DEF ReaderAwaited
    <3>3. CASE s # "joinReader" /\ ~(s = "stopReader" /\ us)
      <4>1. Len(self) # 1
        BY <2>1, <3>3
      <4>2. ~us' => ~us
        BY <2>3, <3>3
      <4>3. QED BY <1>5, <2>3, <4>1, <4>2 DEF StopInv, ReaderAwaited
    <3>4. QED BY <3>1, <3>2, <3>3
  <2>7. EndedByHandler'
    <3>1. byHandler /\ Len(self') <= 1 => ~us'
      <4>1. CASE s = "stopReader"
        BY <2>3, <4>1
      <4>2. CASE s # "stopReader"
        <5>1. Len(self') = Len(self) - 1 /\ Len(self) # 2 /\ us' = us
          BY <2>1, <2>2, <2>3, <4>2
        <5>2. QED BY <1>1, <2>1, <5>1 DEF StopInv, EndedByHandler
      <4>3. QED BY <4>1, <4>2
    <3>2. QED BY <1>1, <2>3, <3>1 DEF StopInv, EndedByHandler
  <2>8. QED BY <1>2, <2>5, <2>6, <2>7 DEF StopInv
<1>8. QED BY <1>6, <1>7

LEMMA NextCases ==
  [Next]_vars <=> \/ Working \/ Disconnecting \/ SelfStep \/ OwnerStep \/ Stop \/ Reconnect
                  \/ ReconnectOver \/ UNCHANGED vars
<1>1. Handle => consumer' = "test" \/ consumer' = "stopping"
  BY DEF Handle
<1>2. QED BY <1>1 DEF Next, Consumer, Working, Disconnecting

LEMMA StepKeepsStopInv == StopInv /\ [Next]_vars => StopInv'
<1> SUFFICES ASSUME StopInv, [Next]_vars PROVE StopInv'
  OBVIOUS
<1>1. CASE UNCHANGED vars
  <2>1. UNCHANGED <<owner, todo, starts, stopped, byHandler, us, run, reader, consumer, self>>
    BY <1>1 DEF vars, ownerVars, readerVars, consumerVars
  <2>2. QED BY <2>1, SamePlans DEF StopInv, Planned, SelfPlanned, ConsumerGone, NoConsumerAt, HasConsumer,
               ReaderStopped, ReaderAwaited, AwaitsReader, EndedByHandler, Left
<1>2. QED BY <1>1, NextCases, WorkingKeepsStopInv, DisconnectingKeepsStopInv, SelfStepKeepsStopInv,
             OwnerKeepsStopInv, BeginKeepsStopInv, TerminationKeepsStopInv

LEMMA StopInvariance == Spec => []StopInv
<1>1. QED BY InitStopInv, StepKeepsStopInv, PTL DEF Spec

\* When a stop has returned there is no thread of the object left, neither the
\* reader nor the consumer, whichever owner it is, and also where a handler of a
\* session stopped it before.  A FileClient2 that its own handler has disconnected
\* is left without a reader and with a consumer that has been told to end.
THEOREM QuietWhenStopped == Spec => []QuietAfterStop
<1>1. StopInv => QuietAfterStop
  <2> SUFFICES ASSUME StopInv, stopped, todo = <<>>
               PROVE  IF byHandler THEN consumer # "stopping" => reader \in {"none", "ended"} /\ ~run
                      ELSE reader \in {"none", "ended"} /\ ~HasConsumer
    BY DEF QuietAfterStop
  <2>1. Left = 0
    BY DEF Left
  <2>2. CASE byHandler
    BY <2>1, <2>2 DEF StopInv, EndedByHandler, ReaderAwaited, AwaitsReader
  <2>3. CASE ~byHandler
    <3>1. ~HasConsumer /\ ~us
      BY <2>1, <2>3 DEF StopInv, ConsumerGone, NoConsumerAt, ReaderStopped
    <3>2. QED BY <2>1, <2>3, <3>1 DEF StopInv, ReaderAwaited, AwaitsReader, HasConsumer
  <2>4. QED BY <2>2, <2>3
<1>2. QED BY <1>1, StopInvariance, PTL

-----------------------------------------------------------------------------
(* A session and its one reader *)

LEMMA QueueOps ==
  ASSUME NEW S, NEW q \in Seq(S)
  PROVE  /\ <<>> \in Seq(S)
         /\ \A e \in S : Append(q, e) \in Seq(S)
         /\ q # <<>> => Head(q) \in S /\ Tail(q) \in Seq(S)
OBVIOUS

LEMMA QueueOfMore ==
  ASSUME NEW S, NEW T, S \subseteq T, NEW q \in Seq(S)
  PROVE  q \in Seq(T)
OBVIOUS

LEMMA InitSession == Init => OneReader /\ EntriesAreNew
<1>1. Init => OneReader
  BY StartupPlan DEF Init, OneReader, Left
<1>2. Init => EntriesAreNew
  BY DEF Init, EntriesAreNew, EntriesOf
<1>3. QED BY <1>1, <1>2

LEMMA WorkingKeepsSession ==
  ASSUME Inv, StopInv, OneReader, EntriesAreNew, Working, owner = "FileServerClient"
  PROVE  OneReader' /\ EntriesAreNew'
<1>1. /\ UNCHANGED <<owner, todo, starts, stopped, us, run>>
      /\ ~HasConsumer => consumer' = consumer
      /\ consumer = "stopping" <=> consumer' = "stopping"
      /\ consumer = "ended" => consumer' = "ended"
      /\ consumer = "test" /\ ~run => consumer' \in {"test", "ended"}
      /\ reader' # "none" <=> reader # "none"
  BY WorkingSteps
<1>2. OneReader'
  BY <1>1 DEF OneReader, Left, HasConsumer
<1> DEFINE E == EntriesOf(starts)
<1>3. /\ queue \in Seq(E) /\ entry \in E /\ Dummy \in E
      /\ consumer \in {"read", "zero", "calc", "handle"} => entry # Dummy
  BY DEF EntriesAreNew, EntriesOf
<1>4. [no |-> received, reader |-> 1] \in EntriesOf(1)
  BY DEF EntriesOf, Inv, Typed
<1>5. reader = "push" => starts = 1
  BY DEF OneReader
<1>6. /\ queue' \in Seq(E) /\ entry' \in E
      /\ consumer' \in {"read", "zero", "calc", "handle"} => entry' # Dummy
  <2>1. CASE ReaderPush
    <3>1. queue' = Append(queue, [no |-> received, reader |-> 1]) /\ UNCHANGED <<entry, consumer>>
      BY <1>5, <2>1 DEF ReaderPush, consumerVars
    <3>2. [no |-> received, reader |-> 1] \in E
      BY <1>4, <1>5, <2>1 DEF ReaderPush
    <3> HIDE DEF E
    <3>3. QED BY <1>3, <3>1, <3>2, QueueOps
  <2>2. CASE Pop
    <3> HIDE DEF E
    <3>1. CASE queue = <<>>
      BY <1>3, <2>2, <3>1 DEF Pop
    <3>2. CASE queue # <<>>
      <4>1. consumer' = "popped" /\ entry' = Head(queue) /\ queue' = Tail(queue)
        BY <2>2, <3>2 DEF Pop
      <4>2. QED BY <1>3, <3>2, <4>1, QueueOps
    <3>3. QED BY <3>1, <3>2
  <2>3. CASE Dispatch
    <3> HIDE DEF E
    <3>1. UNCHANGED <<queue, entry>> /\ (consumer' \in {"read", "zero", "calc", "handle"} => entry # Dummy)
      BY <2>3 DEF Dispatch
    <3>2. QED BY <1>3, <3>1
  <2>4. CASE Working /\ ~ReaderPush /\ ~Pop /\ ~Dispatch
    <3> HIDE DEF E
    <3>1. UNCHANGED <<queue, entry>>
      BY <2>4 DEF Working, Arrive, Reader, ReaderTest, ReaderGoesOn, RecvHead, RecvTail, ReaderNotify,
                  ConsumerTest, ReadChecksum, ZeroChecksum, CalcChecksum, Handle, consumerVars
    <3>2. consumer' \in {"read", "zero", "calc", "handle"} => consumer \in {"read", "zero", "calc", "handle"}
      BY <2>4 DEF Working, Arrive, Reader, ReaderTest, ReaderGoesOn, RecvHead, RecvTail, ReaderNotify, Notify,
                  ConsumerTest, ReadChecksum, ZeroChecksum, CalcChecksum, Handle, consumerVars
    <3>3. QED BY <1>3, <3>1, <3>2
  <2>5. QED BY <2>1, <2>2, <2>3, <2>4
<1>7. EntriesOf(starts') = E
  BY <1>1
<1> HIDE DEF E
<1>8. EntriesAreNew'
  BY <1>6, <1>7 DEF EntriesAreNew
<1>9. QED BY <1>2, <1>8

LEMMA OwnerKeepsSession ==
  ASSUME StopInv, OneReader, EntriesAreNew, OwnerStep, owner = "FileServerClient"
  PROVE  OneReader' /\ EntriesAreNew'
<1> DEFINE s == Head(todo)
           E == EntriesOf(starts)
<1>1. /\ todo # <<>> /\ UNCHANGED <<owner, stopped, entry>>
      /\ Left' = IF s = "stopReader" /\ ~us THEN Left - 2 ELSE Left - 1
  BY OwnerGoesOn DEF StopInv, OwnerStep
<1>2. /\ Left \in Nat /\ Left >= 1
      /\ s = "startReader" => ~stopped /\ Left = 1
      /\ s = "startConsumer" => ~stopped /\ Left = 2
      /\ s \in {"clear", "clearFlag", "pushDummy", "notify"} => stopped
      /\ s = "stopReader" => stopped /\ Left = 2
  BY <1>1, OwnerPlaces DEF StopInv
<1>3. s = "stopReader" => ~HasConsumer
  BY <1>2 DEF StopInv, EndedByHandler, ConsumerGone, NoConsumerAt
<1>4. /\ consumer' \in {"read", "zero", "calc", "handle"} => consumer \in {"read", "zero", "calc", "handle"}
      /\ s # "startConsumer" /\ consumer \in {"none", "joined", "stopping", "ended", "terminated", "test"} =>
           consumer' = consumer \/ consumer' = "joined"
      /\ s # "startConsumer" => run' = run \/ run' = FALSE
      /\ s = "startReader" => us' = TRUE /\ reader' = "test" /\ starts' = starts + 1
      /\ s # "startReader" => UNCHANGED <<reader, starts>>
      /\ s \notin {"startReader", "stopReader"} => us' = us
  BY DEF OwnerStep, Do, Notify
<1>5. s = "startConsumer" => reader = "none"
  BY <1>2 DEF OneReader
<1>6. OneReader'
  <2>1. starts' \in {0, 1} /\ (reader' # "none" => starts' = 1)
    BY <1>2, <1>4 DEF OneReader
  <2>2. ~stopped' /\ Left' >= 1 => starts' = 0
    BY <1>1, <1>2, <1>4 DEF OneReader
  <2>3. reader' # "none" /\ ~us' =>
          \/ consumer' \in {"none", "joined", "stopping", "ended", "terminated"}
          \/ consumer' = "test" /\ ~run'
    <3>1. CASE s = "startConsumer"
      BY <1>4, <1>5, <3>1
    <3>2. CASE s = "startReader"
      BY <1>4, <3>2
    <3>3. CASE s = "stopReader"
      BY <1>3, <1>4, <3>3 DEF HasConsumer
    <3>4. CASE s \notin {"startConsumer", "startReader", "stopReader"}
      BY <1>4, <3>4 DEF OneReader
    <3>5. QED BY <3>1, <3>2, <3>3, <3>4
  <2>4. QED BY <2>1, <2>2, <2>3 DEF OneReader
<1>7. /\ queue \in Seq(E) /\ entry \in E /\ Dummy \in E
      /\ consumer \in {"read", "zero", "calc", "handle"} => entry # Dummy
  BY DEF EntriesAreNew, EntriesOf
<1>8. queue' \in Seq(E)
  <2>1. queue' \in {queue, <<>>, Append(queue, Dummy)}
    BY DEF OwnerStep, Do
  <2> HIDE DEF E
  <2>2. <<>> \in Seq(E) /\ Append(queue, Dummy) \in Seq(E)
    BY <1>7, QueueOps
  <2>3. QED BY <1>7, <2>1, <2>2
<1>9. E \subseteq EntriesOf(starts')
  BY <1>2, <1>4 DEF OneReader, EntriesOf
<1> HIDE DEF E
<1>10. queue' \in Seq(EntriesOf(starts')) /\ entry' \in EntriesOf(starts')
  <2>1. queue' \in Seq(EntriesOf(starts'))
    BY <1>8, <1>9, QueueOfMore
  <2>2. QED BY <1>1, <1>7, <1>9, <2>1
<1>11. QED BY <1>1, <1>4, <1>6, <1>7, <1>10 DEF EntriesAreNew

LEMMA SelfStepKeepsSession ==
  ASSUME StopInv, OneReader, EntriesAreNew, SelfStep, owner = "FileServerClient"
  PROVE  OneReader' /\ EntriesAreNew'
<1>1. /\ UNCHANGED <<owner, todo, stopped, entry>> /\ consumer = "stopping"
      /\ RestOf(self, SelfShutdown) /\ (Len(self) < Len(SelfShutdown) => ~run)
  BY DEF SelfStep, StopInv, SelfPlanned
<1>2. /\ consumer' \in {"stopping", "test"}
      /\ consumer' = "test" => run' = run /\ self = <<>>
  BY <1>1 DEF SelfStep
<1>3. self = <<>> => ~run
  <2>1. Len(SelfShutdown) = 5 /\ Len(<<>>) = 0
    BY SelfPlan
  <2>2. QED BY <1>1, <2>1
<1>4. self # <<>> => Head(self) \in {"clearFlag", "clear", "notify", "stopReader", "joinReader"}
  BY <1>1, SelfPlaces
<1>5. UNCHANGED <<reader, starts>> /\ queue' \in {queue, <<>>}
  BY <1>4 DEF SelfStep, Do
<1>6. OneReader'
  BY <1>1, <1>2, <1>3, <1>5 DEF OneReader, Left
<1> DEFINE E == EntriesOf(starts)
<1>7. queue \in Seq(E) /\ entry \in E
  BY DEF EntriesAreNew
<1>8. EntriesOf(starts') = E
  BY <1>5
<1> HIDE DEF E
<1>9. queue' \in Seq(E)
  <2>1. <<>> \in Seq(E)
    BY <1>7, QueueOps
  <2>2. QED BY <1>5, <1>7, <2>1
<1>10. EntriesAreNew'
  BY <1>1, <1>2, <1>7, <1>8, <1>9 DEF EntriesAreNew
<1>11. QED BY <1>6, <1>10

LEMMA StepKeepsSession ==
  Inv /\ StopInv /\ OneReader /\ EntriesAreNew /\ [Next]_vars => OneReader' /\ EntriesAreNew'
<1> SUFFICES ASSUME Inv, StopInv, OneReader, EntriesAreNew, [Next]_vars PROVE OneReader' /\ EntriesAreNew'
  OBVIOUS
<1>1. owner' = owner
  <2>1. CASE Working
    BY <2>1, WorkingSteps
  <2>2. CASE ~Working
    BY <2>2, NextCases DEF Disconnecting, Handle, SelfStep, OwnerStep, Stop, Reconnect,
                             ReconnectOver, vars, ownerVars
  <2>3. QED BY <2>1, <2>2
<1>2. CASE owner # "FileServerClient"
  BY <1>1, <1>2 DEF OneReader, EntriesAreNew
<1>3. CASE owner = "FileServerClient"
  <2>1. CASE Disconnecting
    <3>1. /\ UNCHANGED <<owner, todo, starts, us, run, reader, queue, entry>> /\ consumer' = "stopping"
          /\ ~stopped /\ ~stopped'
      BY <1>3, <2>1 DEF Disconnecting, Handle, readerVars
    <3>2. QED BY <3>1 DEF OneReader, EntriesAreNew, Left
  <2>2. CASE Stop
    <3>1. UNCHANGED <<owner, starts, us, run, reader, queue, entry, consumer>> /\ stopped'
      BY <2>2 DEF Stop, readerVars, consumerVars
    <3>2. QED BY <3>1 DEF OneReader, EntriesAreNew
  <2>3. CASE UNCHANGED vars
    <3>1. UNCHANGED <<owner, todo, starts, stopped, us, run, reader, queue, entry, consumer>>
      BY <2>3 DEF vars, ownerVars, readerVars, consumerVars
    <3>2. QED BY <3>1 DEF OneReader, EntriesAreNew, Left
  <2>4. ~Reconnect /\ ~ReconnectOver
    BY <1>3 DEF Reconnect, ReconnectOver
  <2>5. QED BY <1>3, <2>1, <2>2, <2>3, <2>4, NextCases, WorkingKeepsSession, OwnerKeepsSession,
               SelfStepKeepsSession
<1>4. QED BY <1>2, <1>3

\* A session's consumer never looks into the buffer of a reader that is gone:
\* its entries are of the one reader of the session, which is told to end only
\* by the consumer itself or when there is none any more.
THEOREM ReadsItsOwnReader == Spec => []NoDanglingBuffer
<1>1. StopInv /\ OneReader /\ EntriesAreNew => NoDanglingBuffer
  <2> SUFFICES ASSUME StopInv, OneReader, EntriesAreNew, owner = "FileServerClient",
                      consumer \in {"read", "zero", "calc", "handle"}
               PROVE  reader # "ended" /\ entry.reader = starts
    BY DEF NoDanglingBuffer
  <2>1. entry \in EntriesOf(starts) /\ entry # Dummy
    BY DEF EntriesAreNew
  <2>2. entry.reader = starts
    BY <2>1 DEF EntriesOf
  <2>3. reader # "ended"
    BY DEF StopInv, ReaderStopped, OneReader
  <2>4. QED BY <2>2, <2>3
<1>2. Init => OneReader /\ EntriesAreNew
  BY InitSession
<1>3. QED BY <1>1, <1>2, StepKeepsSession, Invariance, StopInvariance, PTL DEF Spec

=============================================================================
