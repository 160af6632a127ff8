-------------------------- MODULE ServerThreadsProofs --------------------------
(***************************************************************************)
(* For any clients, users and names in the UserStore, as long as every     *)
(* hello has a new client ID: that no thread of the server uses a deleted  *)
(* user, that the objects of a session outlive its threads, and that       *)
(* stop() leaves nothing behind.                                           *)
(***************************************************************************)
EXTENDS ServerThreads, SequenceTheorems, TLAPS

\* The user objects a thread may use.
Live(o) == o \in DOMAIN objects /\ objects[o].live

\* All the argument needs to know of the form of a session.
IsRecord(s) == {"user", "ending"} \subseteq DOMAIN s

Typed ==
  /\ taken \subseteq ClientId
  /\ users \in [User -> Nat]
  /\ objects \in Seq(UserObject)
  /\ DOMAIN sessions = ClientId
  /\ main.at \in {"pop", "getUser", "found", "addUser", "findClient", "clientHello", "addClient",
                  "added", "ended"}
  /\ main = [at |-> main.at, id |-> main.id, user |-> main.user]
  /\ cleaner.at \in {"asleep", "users", "sessions", "session"}
  /\ cleaner = [at |-> cleaner.at, users |-> cleaner.users, user |-> cleaner.user,
                ids |-> cleaner.ids]

\* The map holds live users, each under one name.
MapIsLive ==
  /\ \A u \in User : users[u] # 0 => Live(users[u])
  /\ \A u, v \in User : users[u] # 0 /\ users[u] = users[v] => u = v

\* The consumer has ended before a user is deleted, and what it keeps from one
\* lock to the next is in use: the node, the object, the session.
MainIsSafe ==
  /\ main.at # "ended" => console \in {"running", "joinsCleaner", "joinsMain"}
  /\ main.at \notin {"pop", "ended"} => main.id \in taken
  /\ main.at = "found" => main.user = users[UserOf[main.id]] /\ main.user # 0
  /\ main.at \in {"findClient", "clientHello", "addClient"} => Live(main.user)
  /\ main.at \in {"clientHello", "addClient"} => /\ IsRecord(sessions[main.id])
                                                 /\ sessions[main.id].user = main.user
                                                 /\ sessions[main.id].ending = <<>>

\* The cleanup has ended before a user is deleted, and has the sessions that it
\* has yet to visit from the map of a user whose mutex it holds.
CleanerIsSafe ==
  /\ cleaner.at # "asleep" => console \in {"running", "joinsCleaner"}
  /\ cleaner.at # "asleep" => \A u \in cleaner.users : u \in User /\ users[u] # 0
  /\ cleaner.at \in {"sessions", "session"} =>
       /\ cleaner.user \in DOMAIN objects
       /\ \A id \in cleaner.ids : id \in objects[cleaner.user].clients

\* A session that is being deleted is in the map of its user.
SessionsAreSafe ==
  \A id \in ClientId : Exists(id) =>
    /\ IsRecord(sessions[id])
    /\ Live(sessions[id].user)
    /\ \/ id \in objects[sessions[id].user].clients
       \/ /\ main.at \in {"clientHello", "addClient"} /\ main.id = id
          /\ sessions[id].ending = <<>>

\* Until the users are deleted, only the cleanup deletes a session, and never one
\* that it has yet to visit.
CleanerDeletes ==
  console \notin {"deletes", "stopped"} =>
    \A id \in ClientId : IsDeleted(id) =>
      /\ cleaner.at = "session"
      /\ id \in objects[cleaner.user].clients
      /\ id \notin cleaner.ids

\* What a user has in his map of sessions has said hello once, and keeps him alive.
ClientsAreSessions ==
  \A o \in DOMAIN objects : \A id \in objects[o].clients :
    /\ Live(o)
    /\ id \in taken
    /\ IsRecord(sessions[id])
    /\ sessions[id].user = o
    /\ main.at \notin {"pop", "added", "ended"} => id # main.id

IInv ==
  /\ Typed
  /\ MapIsLive
  /\ MainIsSafe
  /\ CleanerIsSafe
  /\ SessionsAreSafe
  /\ CleanerDeletes
  /\ ClientsAreSessions
  /\ UsersOutliveTheirUse

-----------------------------------------------------------------------------
LEMMA InitSafe == Init => IInv
BY DEF Init, IInv, Typed, MapIsLive, MainIsSafe, CleanerIsSafe, SessionsAreSafe,
       CleanerDeletes, ClientsAreSessions, UsersOutliveTheirUse, Exists, Live, IsDeleted

\* User objects change in nothing that matters here: their lists, their mutexes.
ObjectsKept ==
  /\ objects' \in Seq(UserObject)
  /\ DOMAIN objects' = DOMAIN objects
  /\ \A o \in DOMAIN objects : /\ objects'[o].live = objects[o].live
                               /\ objects'[o].clients = objects[o].clients

LEMMA UnchangedKept == Typed /\ UNCHANGED objects => ObjectsKept
BY DEF Typed, ObjectsKept

LEMMA OneKept ==
  ASSUME NEW o, NEW r \in UserObject, Typed, Live(o), r.live = objects[o].live,
         r.clients = objects[o].clients, objects' = [objects EXCEPT ![o] = r]
  PROVE  ObjectsKept
<1>1. objects' \in Seq(UserObject)
  BY DEF Typed, Live
<1> QED
  BY <1>1 DEF Typed, Live, ObjectsKept

\* A step of a session's threads, or of its deletion, that leaves its user alone.
LEMMA StepSafe ==
  ASSUME NEW id \in ClientId, NEW s, IInv, Exists(id), Step(id, s), IsRecord(s),
         s.user = sessions[id].user,
         s.ending = sessions[id].ending \/ sessions[id].ending # <<>>,
         ObjectsKept, UsersOutliveTheirUse'
  PROVE  IInv'
<1> USE DEF IInv, Step, ObjectsKept
<1>1. Typed'
  BY DEF Typed
<1>2. MapIsLive'
  BY DEF MapIsLive, Live
<1>3. MainIsSafe'
  BY DEF MainIsSafe, Live, Typed
<1>4. CleanerIsSafe'
  BY DEF CleanerIsSafe
<1>5. SessionsAreSafe'
  BY DEF SessionsAreSafe, Live, Typed, Exists
<1>6. CleanerDeletes'
  BY DEF CleanerDeletes, IsDeleted, CleanerIsSafe, Typed, Exists
<1>7. ClientsAreSessions'
  BY DEF ClientsAreSessions, Live, Typed
<1> QED
  BY <1>1, <1>2, <1>3, <1>4, <1>5, <1>6, <1>7

\* A user whom a live pointer leads to is no misuse.
LEMMA UsesLive ==
  ASSUME NEW os, UsersOutliveTheirUse, \A o \in os : Live(o), Uses(os)
  PROVE  UsersOutliveTheirUse'
BY DEF UsersOutliveTheirUse, Uses, Live

-----------------------------------------------------------------------------
(* The threads of a session *)

LEMMA ConsumerSafe ==
  ASSUME NEW id \in ClientId, IInv, Handles(id) \/ ConsumerSteps(id)
  PROVE  IInv'
<1> DEFINE s == sessions[id]
<1>1. Exists(id) /\ IsRecord(s) /\ Live(s.user)
  BY DEF IInv, SessionsAreSafe, Handles, ConsumerSteps, Answers, Uploads, Fails, FailsOn,
         ConsumerEnds
<1>2. Typed /\ UsersOutliveTheirUse
  BY DEF IInv
<1>3. CASE Handles(id)
  <2>1. Step(id, [s EXCEPT !.consumer = "busy"]) /\ ObjectsKept /\ UsersOutliveTheirUse'
    BY <1>2, <1>3, UnchangedKept DEF Handles, UsersOutliveTheirUse
  <2> QED
    BY <1>1, <2>1, StepSafe DEF IsRecord
<1>4. CASE Answers(id)
  <2>1. PICK t : Step(id, [s EXCEPT !.consumer = "waiting", !.state = t])
    BY <1>4 DEF Answers
  <2>2. ObjectsKept
    BY <1>2, <1>4, UnchangedKept DEF Answers
  <2>3. UsersOutliveTheirUse'
    BY <1>1, <1>2, <1>4, UsesLive DEF Answers
  <2> QED
    BY <1>1, <2>1, <2>2, <2>3, StepSafe DEF IsRecord
<1>5. ASSUME NEW isPart \in BOOLEAN, Uploads(id, isPart) PROVE IInv'
  <2>1. PICK t : Step(id, [s EXCEPT !.consumer = t])
    BY <1>5 DEF Uploads
  <2>2. ObjectsKept
    <3> DEFINE l == objects[s.user].listed \cup (objects[s.user].toDo \ {id})
               r == [objects[s.user] EXCEPT !.listed = l]
    <3>1. objects[s.user] \in UserObject
      BY <1>1, <1>2 DEF Typed, Live
    <3>2. /\ r \in UserObject
          /\ r.live = objects[s.user].live /\ r.clients = objects[s.user].clients
      BY <3>1 DEF UserObject
    <3>3. objects' = [objects EXCEPT ![s.user] = r]
      BY <1>5 DEF Uploads
    <3> QED
      BY <1>1, <1>2, <3>2, <3>3, OneKept
  <2>3. UsersOutliveTheirUse'
    BY <1>1, <1>2, <1>5, UsesLive DEF Uploads
  <2> QED
    BY <1>1, <2>1, <2>2, <2>3, StepSafe DEF IsRecord
<1>6. CASE Fails(id)
  <2>1. PICK t : Step(id, [s EXCEPT !.state = "error", !.selfStopped = TRUE, !.timerRun = FALSE,
                                    !.consumer = t])
    BY <1>6 DEF Fails
  <2>2. ObjectsKept /\ UsersOutliveTheirUse'
    BY <1>2, <1>6, UnchangedKept DEF Fails, UsersOutliveTheirUse
  <2> QED
    BY <1>1, <2>1, <2>2, StepSafe DEF IsRecord
<1>7. CASE FailsOn(id)
  <2>1. /\ Step(id, [s EXCEPT !.consumer = "leaving", !.shouldRun = FALSE])
        /\ ObjectsKept /\ UsersOutliveTheirUse'
    BY <1>2, <1>7, UnchangedKept DEF FailsOn, UsersOutliveTheirUse
  <2> QED
    BY <1>1, <2>1, StepSafe DEF IsRecord
<1>8. CASE ConsumerEnds(id)
  <2>1. /\ Step(id, [s EXCEPT !.consumer = "ended", !.shouldRun = FALSE])
        /\ ObjectsKept /\ UsersOutliveTheirUse'
    BY <1>2, <1>8, UnchangedKept DEF ConsumerEnds, UsersOutliveTheirUse
  <2> QED
    BY <1>1, <2>1, StepSafe DEF IsRecord
<1> QED
  BY <1>3, <1>4, <1>5, <1>6, <1>7, <1>8 DEF ConsumerSteps

LEMMA TimerSafe ==
  ASSUME NEW id \in ClientId, IInv, Ticks(id) \/ GivesUp(id) \/ TimerSteps(id)
  PROVE  IInv'
<1> DEFINE s == sessions[id]
<1>1. Exists(id) /\ IsRecord(s)
  BY DEF IInv, SessionsAreSafe, Ticks, GivesUp, TimerSteps, Pings, SendsChanges, StartsAgain,
         GivesUpOn, TimerEnds
<1>2. ObjectsKept /\ UsersOutliveTheirUse'
  BY UnchangedKept DEF IInv, UsersOutliveTheirUse, Ticks, GivesUp, TimerSteps, Pings, SendsChanges,
                       StartsAgain, GivesUpOn, TimerEnds
<1>3. CASE Ticks(id)
  <2>1. Step(id, [s EXCEPT !.timer = "connectedTick"])
    BY <1>3 DEF Ticks
  <2> QED
    BY <1>1, <1>2, <2>1, StepSafe DEF IsRecord
<1>4. CASE GivesUp(id)
  <2>1. Step(id, [s EXCEPT !.timer = "joinsConsumer", !.state = "error", !.timerRun = FALSE,
                           !.shouldRun = FALSE, !.selfStopped = TRUE])
    BY <1>4 DEF GivesUp
  <2> QED
    BY <1>1, <1>2, <2>1, StepSafe DEF IsRecord
<1>5. CASE Pings(id)
  <2>1. Step(id, [s EXCEPT !.timer = "loops", !.state = "settled", !.timerRun = TRUE])
    BY <1>5 DEF Pings
  <2> QED
    BY <1>1, <1>2, <2>1, StepSafe DEF IsRecord
<1>6. CASE SendsChanges(id)
  <2>1. Step(id, [s EXCEPT !.timer = "between", !.state = "settled", !.timerRun = FALSE,
                           !.selfStopped = TRUE])
    BY <1>6 DEF SendsChanges
  <2> QED
    BY <1>1, <1>2, <2>1, StepSafe DEF IsRecord
<1>7. CASE StartsAgain(id)
  <2>1. Step(id, [s EXCEPT !.timer = "loops", !.timerRun = TRUE])
    BY <1>7 DEF StartsAgain
  <2> QED
    BY <1>1, <1>2, <2>1, StepSafe DEF IsRecord
<1>8. CASE GivesUpOn(id)
  <2>1. Step(id, [s EXCEPT !.timer = "leaving"])
    BY <1>8 DEF GivesUpOn
  <2> QED
    BY <1>1, <1>2, <2>1, StepSafe DEF IsRecord
<1>9. CASE TimerEnds(id)
  <2>1. Step(id, [s EXCEPT !.timer = "ended"])
    BY <1>9 DEF TimerEnds
  <2> QED
    BY <1>1, <1>2, <2>1, StepSafe DEF IsRecord
<1> QED
  BY <1>3, <1>4, <1>5, <1>6, <1>7, <1>8, <1>9 DEF TimerSteps

-----------------------------------------------------------------------------
(* The deletion of a session *)

LEMMA Removed ==
  ASSUME NEW o \in DOMAIN objects, NEW r \in UserObject, Typed,
         objects' = [objects EXCEPT ![o] = r]
  PROVE  /\ objects' \in Seq(UserObject) /\ DOMAIN objects' = DOMAIN objects
         /\ objects'[o] = r /\ \A p \in DOMAIN objects : p # o => objects'[p] = objects[p]
BY DEF Typed

LEMMA FreesSafe ==
  ASSUME NEW id \in ClientId, IInv, Frees(id)
  PROVE  IInv'
<1> DEFINE o == sessions[id].user
           r == [objects[o] EXCEPT !.clients = @ \ {id}]
<1> USE DEF IInv
<1>1. Live(o) /\ id \in objects[o].clients
  BY DEF Frees, NextStep, IsDeleted, SessionsAreSafe
<1>2. id \in taken /\ (main.at \notin {"pop", "added", "ended"} => id # main.id)
  BY <1>1 DEF ClientsAreSessions, Live
<1>3. objects[o] \in UserObject
  BY <1>1 DEF Typed, Live
<1>4. r \in UserObject /\ r.live /\ r.clients = objects[o].clients \ {id}
  BY <1>1, <1>3 DEF UserObject, Live
<1>5. objects' = [objects EXCEPT ![o] = r]
  BY DEF Frees
<1>6. /\ objects' \in Seq(UserObject) /\ DOMAIN objects' = DOMAIN objects
      /\ objects'[o] = r /\ \A p \in DOMAIN objects : p # o => objects'[p] = objects[p]
  BY <1>1, <1>4, <1>5, Removed DEF Live
<1>7. /\ UNCHANGED <<taken, users, userMutex, main, cleaner, console, misuse>>
      /\ sessions' = [sessions EXCEPT ![id] = NoSession]
  BY DEF Frees, Step
<1> HIDE DEF o, r
<1>8. \A p : Live(p)' <=> Live(p)
  BY <1>1, <1>4, <1>6 DEF Live
<1>9. Typed'
  BY <1>6, <1>7 DEF Typed
<1>10. MapIsLive'
  BY <1>7, <1>8 DEF MapIsLive
<1>11. MainIsSafe'
  BY <1>2, <1>7, <1>8 DEF MainIsSafe, Typed
<1>12. CleanerIsSafe' /\ CleanerDeletes'
  <2>1. ASSUME console \notin {"deletes", "stopped"}
        PROVE  id \notin cleaner.ids
    BY <2>1 DEF CleanerDeletes, Frees, NextStep, IsDeleted
  <2>2. \A p \in DOMAIN objects : \A i \in objects[p].clients :
          i # id => i \in objects'[p].clients
    BY <1>4, <1>6
  <2>3. CleanerIsSafe'
    BY <1>6, <1>7, <2>1, <2>2 DEF CleanerIsSafe
  <2>4. \A i \in ClientId : Exists(i)' => i # id /\ Exists(i) /\ sessions'[i] = sessions[i]
    BY <1>7 DEF Exists, Typed
  <2>5. CleanerDeletes'
    BY <1>7, <2>2, <2>4 DEF CleanerDeletes, IsDeleted, CleanerIsSafe
  <2> QED
    BY <2>3, <2>5
<1>13. SessionsAreSafe'
  <2> SUFFICES ASSUME NEW i \in ClientId, Exists(i)'
               PROVE  (/\ IsRecord(sessions[i])
                       /\ Live(sessions[i].user)
                       /\ \/ i \in objects[sessions[i].user].clients
                          \/ /\ main.at \in {"clientHello", "addClient"} /\ main.id = i
                             /\ sessions[i].ending = <<>>)'
    BY DEF SessionsAreSafe
  <2>1. i # id /\ sessions'[i] = sessions[i] /\ Exists(i)
    BY <1>7 DEF Exists, Typed
  <2>2. Live(sessions[i].user)'
    BY <2>1, <1>8 DEF SessionsAreSafe
  <2>3. IsRecord(sessions[i])'
    BY <2>1 DEF SessionsAreSafe
  <2>4. i \in objects[sessions[i].user].clients =>
          i \in objects'[sessions[i].user].clients
    <3>1. sessions[i].user \in DOMAIN objects
      BY <2>1 DEF SessionsAreSafe, Live
    <3> QED
      BY <2>1, <3>1, <1>4, <1>6
  <2> QED
    BY <2>1, <2>2, <2>3, <2>4, <1>7 DEF SessionsAreSafe
<1>14. ClientsAreSessions'
  <2> SUFFICES ASSUME NEW p \in DOMAIN objects, NEW i \in objects'[p].clients
               PROVE  /\ Live(p)' /\ i \in taken'
                      /\ IsRecord(sessions'[i]) /\ sessions'[i].user = p
                      /\ main'.at \notin {"pop", "added", "ended"} => i # main'.id
    BY <1>6 DEF ClientsAreSessions
  <2>1. i \in objects[p].clients /\ i # id
    BY <1>4, <1>6 DEF ClientsAreSessions, o
  <2>2. sessions'[i] = sessions[i]
    BY <1>7, <2>1 DEF Typed
  <2> QED
    BY <1>7, <1>8, <2>1, <2>2 DEF ClientsAreSessions
<1> QED
  BY <1>7, <1>9, <1>10, <1>11, <1>12, <1>13, <1>14 DEF UsersOutliveTheirUse

LEMMA DeletionSafe ==
  ASSUME NEW id \in ClientId, IInv, DeletionSteps(id)
  PROVE  IInv'
<1> DEFINE s == sessions[id]
<1>1. Exists(id) /\ s.ending # <<>>
  BY DEF DeletionSteps, StopsTimer, JoinsTimer, StopsConsumer, JoinsConsumer, EntersError,
         DeletesUdp, Frees, NextStep, IsDeleted
<1>2. IsRecord(s)
  BY <1>1 DEF IInv, SessionsAreSafe
<1>4. CASE StopsTimer(id)
  <2>1. PICK first : Step(id, [Ending(s, first) EXCEPT !.timerRun = FALSE])
    BY <1>4 DEF StopsTimer
  <2>2. ObjectsKept /\ UsersOutliveTheirUse'
    BY <1>4, UnchangedKept DEF StopsTimer, IInv, UsersOutliveTheirUse
  <2> QED
    BY <1>1, <1>2, <2>1, <2>2, StepSafe DEF IsRecord, Ending
<1>5. CASE JoinsTimer(id) \/ JoinsConsumer(id)
  <2>1. Step(id, Ending(s, <<>>))
    BY <1>5 DEF JoinsTimer, JoinsConsumer
  <2>2. ObjectsKept /\ UsersOutliveTheirUse'
    BY <1>5, UnchangedKept DEF JoinsTimer, JoinsConsumer, IInv, UsersOutliveTheirUse
  <2> QED
    BY <1>1, <1>2, <2>1, <2>2, StepSafe DEF IsRecord, Ending
<1>6. CASE StopsConsumer(id)
  <2>1. PICK first : Step(id, [Ending(s, first) EXCEPT !.shouldRun = FALSE])
    BY <1>6 DEF StopsConsumer
  <2>2. ObjectsKept /\ UsersOutliveTheirUse'
    BY <1>6, UnchangedKept DEF StopsConsumer, IInv, UsersOutliveTheirUse
  <2> QED
    BY <1>1, <1>2, <2>1, <2>2, StepSafe DEF IsRecord, Ending
<1>7. CASE EntersError(id)
  <2>1. Step(id, SetState(Ending(s, <<>>), "error"))
    BY <1>7 DEF EntersError
  <2>2. ObjectsKept /\ UsersOutliveTheirUse'
    BY <1>7, UnchangedKept DEF EntersError, IInv, UsersOutliveTheirUse
  <2>3. LET t == SetState(Ending(s, <<>>), "error") IN IsRecord(t) /\ t.user = s.user
    BY <1>2 DEF IsRecord, Ending, SetState
  <2> QED
    BY <1>1, <2>1, <2>2, <2>3, StepSafe
<1>8. CASE DeletesUdp(id)
  <2>1. PICK e : Step(id, [s EXCEPT !.ending = e])
    BY <1>8 DEF DeletesUdp, Ending
  <2>2. ObjectsKept
    BY <1>8, UnchangedKept DEF DeletesUdp, IInv
  <2>3. UsersOutliveTheirUse'
    BY <1>8 DEF DeletesUdp, IInv, UsersOutliveTheirUse
  <2> QED
    BY <1>1, <1>2, <2>1, <2>2, <2>3, StepSafe DEF IsRecord
<1> QED
  BY <1>4, <1>5, <1>6, <1>7, <1>8, FreesSafe DEF DeletionSteps

-----------------------------------------------------------------------------
(* The consumer of FileServer2 *)

LEMMA MainSafe ==
  ASSUME IInv, ServerThreadsAssumption, MainSteps \/ \E id \in ClientId : Pops(id)
  PROVE  IInv'
<1> USE DEF IInv
<1>1. ASSUME NEW id \in ClientId, Pops(id) PROVE IInv'
  <2> USE <1>1 DEF Pops
  <2>1. Typed' /\ MapIsLive' /\ MainIsSafe' /\ CleanerIsSafe' /\ UsersOutliveTheirUse'
    BY DEF Typed, MapIsLive, Live, MainIsSafe, CleanerIsSafe, UsersOutliveTheirUse
  <2>2. SessionsAreSafe' /\ CleanerDeletes'
    BY DEF SessionsAreSafe, CleanerDeletes, IsDeleted, Exists, Live
  <2>3. /\ main'.id = id /\ taken \subseteq taken' /\ UNCHANGED <<objects, sessions>>
        /\ \A o \in DOMAIN objects : id \notin objects[o].clients
    BY DEF ClientsAreSessions, Live, Typed
  <2>4. ClientsAreSessions'
    <3> SUFFICES ASSUME NEW o \in DOMAIN objects, NEW i \in objects[o].clients
                 PROVE  /\ Live(o) /\ i \in taken' /\ IsRecord(sessions[i]) /\ sessions[i].user = o
                        /\ i # main'.id
      BY DEF ClientsAreSessions, Live
    <3> HIDE <1>1 DEF Pops
    <3> QED
      BY <2>3 DEF ClientsAreSessions
  <2> QED
    BY <2>1, <2>2, <2>4
<1>2. CASE MainEnds
  <2> USE <1>2 DEF MainEnds
  <2>1. Typed' /\ MapIsLive' /\ MainIsSafe' /\ CleanerIsSafe' /\ UsersOutliveTheirUse'
    BY DEF Typed, MapIsLive, Live, MainIsSafe, CleanerIsSafe, UsersOutliveTheirUse
  <2>2. SessionsAreSafe' /\ CleanerDeletes'
    BY DEF SessionsAreSafe, CleanerDeletes, IsDeleted, Exists, Live
  <2>3. ClientsAreSessions'
    BY DEF ClientsAreSessions, Live, Typed
  <2> QED
    BY <2>1, <2>2, <2>3
<1>3. CASE FindsUser
  <2> USE <1>3 DEF FindsUser
  <2>1. Typed' /\ MapIsLive' /\ MainIsSafe' /\ CleanerIsSafe' /\ UsersOutliveTheirUse'
    BY DEF Typed, MapIsLive, Live, MainIsSafe, CleanerIsSafe, UsersOutliveTheirUse
  <2>2. SessionsAreSafe' /\ CleanerDeletes'
    BY DEF SessionsAreSafe, CleanerDeletes, IsDeleted, Exists, Live
  <2>3. ClientsAreSessions'
    BY DEF ClientsAreSessions, Live, Typed
  <2> QED
    BY <2>1, <2>2, <2>3
<1>4. CASE ReadsUser
  <2> USE <1>4 DEF ReadsUser
  <2>1. main.id \in ClientId /\ UserOf[main.id] \in User
    BY DEF MainIsSafe, Typed, ServerThreadsAssumption
  <2>2. Live(main.user) /\ misuse' = misuse
    BY <2>1 DEF MainIsSafe, MapIsLive
  <2>3. Typed' /\ MapIsLive' /\ MainIsSafe' /\ CleanerIsSafe' /\ UsersOutliveTheirUse'
    BY <2>2 DEF Typed, MapIsLive, Live, MainIsSafe, CleanerIsSafe, UsersOutliveTheirUse
  <2>4. SessionsAreSafe' /\ CleanerDeletes'
    BY DEF SessionsAreSafe, CleanerDeletes, IsDeleted, Exists, Live
  <2>5. ClientsAreSessions'
    BY DEF ClientsAreSessions, Live, Typed
  <2> QED
    BY <2>3, <2>4, <2>5
<1>5. CASE AddsUser
  <2> DEFINE u == UserOf[main.id]
  <2>1. main.id \in ClientId /\ u \in User
    BY <1>5 DEF AddsUser, MainIsSafe, Typed, ServerThreadsAssumption
  <2>2. NewUser \in UserObject
    BY DEF NewUser, UserObject
  <2>3. PICK n : n = Len(objects) + 1
    OBVIOUS
  <2>4. /\ objects' \in Seq(UserObject) /\ DOMAIN objects' = DOMAIN objects \cup {n}
        /\ n \in Nat \ {0} /\ n \notin DOMAIN objects /\ objects'[n] = NewUser
        /\ \A o \in DOMAIN objects : objects'[o] = objects[o]
    BY <1>5, <2>2, <2>3 DEF AddsUser, Typed
  <2>5. /\ users' = [users EXCEPT ![u] = n] \/ users' = users
        /\ main' = [main EXCEPT !.at = "findClient", !.user = n] /\ main.at = "addUser"
        /\ UNCHANGED <<taken, sessions, userMutex, cleaner, console, misuse>>
    BY <1>5, <2>3 DEF AddsUser
  <2> HIDE DEF u
  <2>6. \A o : Live(o) => Live(o)'
    BY <2>4 DEF Live
  <2>7. Live(n)'
    BY <2>4 DEF Live, NewUser
  <2>8. Typed'
    BY <2>1, <2>4, <2>5 DEF Typed
  <2>9. MapIsLive'
    <3>1. \A v \in User : users[v] # n
      BY <2>4 DEF MapIsLive, Live
    <3>2. CASE users' = users
      BY <2>6, <3>2 DEF MapIsLive
    <3>3. CASE users' = [users EXCEPT ![u] = n]
      <4>1. users'[u] = n /\ \A v \in User : v # u => users'[v] = users[v]
        BY <2>1, <3>3 DEF Typed
      <4> QED
        BY <2>6, <2>7, <3>1, <4>1 DEF MapIsLive
    <3> QED
      BY <2>5, <3>2, <3>3
  <2>10. MainIsSafe'
    <3>1. main'.at = "findClient" /\ main'.id = main.id /\ main'.user = n
      BY <2>5 DEF Typed
    <3> QED
      BY <2>5, <2>7, <3>1 DEF MainIsSafe
  <2>11. CleanerIsSafe' /\ CleanerDeletes'
    BY <2>1, <2>4, <2>5 DEF CleanerIsSafe, CleanerDeletes, IsDeleted, Exists, Typed
  <2>12. SessionsAreSafe'
    BY <2>4, <2>5, <2>6 DEF SessionsAreSafe, Exists, Live
  <2>13. ClientsAreSessions'
    BY <2>4, <2>5 DEF ClientsAreSessions, NewUser, Live, Typed
  <2> QED
    BY <2>5, <2>8, <2>9, <2>10, <2>11, <2>12, <2>13 DEF UsersOutliveTheirUse
<1>6. CASE FindsClient
  <2>1. main.at = "findClient" /\ main.id \in taken /\ Live(main.user) /\ main.id \in ClientId
    BY <1>6 DEF FindsClient, MainIsSafe, Typed
  <2>2. UserObjects \subseteq DOMAIN objects /\ \A o \in UserObjects : Live(o)
    BY DEF UserObjects, MapIsLive, Live
  <2>3. \A o \in DOMAIN objects : main.id \notin objects[o].clients
    BY <2>1 DEF ClientsAreSessions
  <2>4. /\ main' = [main EXCEPT !.at = "clientHello"]
        /\ sessions' = [sessions EXCEPT ![main.id] = NewSession(main.user)]
        /\ UNCHANGED <<taken, users, objects, userMutex, cleaner, console>>
    BY <1>6, <2>2, <2>3 DEF FindsClient
  <2>5. UsersOutliveTheirUse'
    BY <1>6, <2>2, UsesLive DEF FindsClient
  <2>6. /\ sessions'[main.id].user = main.user /\ sessions'[main.id].ending = <<>>
        /\ IsRecord(sessions'[main.id])
        /\ \A id \in ClientId : id # main.id => sessions'[id] = sessions[id]
    BY <2>1, <2>4 DEF Typed, NewSession, IsRecord
  <2>7. Typed' /\ MapIsLive' /\ CleanerIsSafe' /\ CleanerDeletes'
    BY <2>1, <2>4, <2>6 DEF Typed, MapIsLive, Live, CleanerIsSafe, CleanerDeletes, IsDeleted, Exists
  <2>8. MainIsSafe'
    <3>1. main'.at = "clientHello" /\ main'.id = main.id /\ main'.user = main.user
      BY <2>4 DEF Typed
    <3>2. console' \in {"running", "joinsCleaner", "joinsMain"} /\ Live(main.user)'
      BY <2>1, <2>4 DEF MainIsSafe, Live
    <3> QED
      BY <2>1, <2>4, <2>6, <3>1, <3>2 DEF MainIsSafe
  <2>9. SessionsAreSafe'
    BY <2>1, <2>4, <2>6 DEF SessionsAreSafe, Exists, Live, Typed
  <2>10. ClientsAreSessions'
    BY <2>1, <2>3, <2>4, <2>6 DEF ClientsAreSessions, Live, Typed
  <2> QED
    BY <2>5, <2>7, <2>8, <2>9, <2>10
<1>7. CASE AddsClient
  <2> DEFINE o == main.user
             r == [objects[o] EXCEPT !.clients = @ \cup {main.id}, !.toDo = @ \cup {main.id}]
  <2>1. /\ main.at = "addClient" /\ main.id \in taken /\ main.id \in ClientId /\ Live(o)
        /\ IsRecord(sessions[main.id]) /\ sessions[main.id].user = o
    BY <1>7 DEF AddsClient, MainIsSafe, Typed
  <2>2. objects[o] \in UserObject
    BY <2>1 DEF Typed, Live
  <2>3. r \in UserObject /\ r.live /\ r.clients = objects[o].clients \cup {main.id}
    BY <2>1, <2>2 DEF UserObject, Live
  <2>4. /\ objects' = [objects EXCEPT ![o] = r]
        /\ main' = [main EXCEPT !.at = "added"]
        /\ UNCHANGED <<taken, users, sessions, userMutex, cleaner, console>>
    BY <1>7 DEF AddsClient
  <2>5. /\ objects' \in Seq(UserObject) /\ DOMAIN objects' = DOMAIN objects
        /\ objects'[o] = r /\ \A p \in DOMAIN objects : p # o => objects'[p] = objects[p]
    BY <2>1, <2>3, <2>4, Removed DEF Live
  <2>6. UsersOutliveTheirUse'
    BY <1>7, <2>1, UsesLive DEF AddsClient
  <2> HIDE DEF r
  <2>7. \A p : Live(p)' <=> Live(p)
    BY <2>1, <2>3, <2>5 DEF Live
  <2>8. /\ Typed' /\ MapIsLive' /\ MainIsSafe'
        /\ CleanerIsSafe' /\ CleanerDeletes'
    <3>1. \A p \in DOMAIN objects : objects[p].clients \subseteq objects'[p].clients
      BY <2>3, <2>5
    <3>2. Typed' /\ MapIsLive' /\ MainIsSafe'
      BY <2>1, <2>4, <2>5, <2>7 DEF Typed, MapIsLive, MainIsSafe
    <3>3. CleanerIsSafe' /\ CleanerDeletes'
      BY <2>4, <2>5, <3>1 DEF CleanerIsSafe, CleanerDeletes, IsDeleted, Exists
    <3> QED
      BY <3>2, <3>3
  <2>9. SessionsAreSafe'
    <3> SUFFICES ASSUME NEW i \in ClientId, Exists(i)
                 PROVE  (IsRecord(sessions[i]) /\ Live(sessions[i].user)
                          /\ i \in objects[sessions[i].user].clients)'
      BY <2>4 DEF SessionsAreSafe, Exists
    <3>1. IsRecord(sessions[i]) /\ Live(sessions[i].user)
      BY DEF SessionsAreSafe
    <3>2. i \in objects'[sessions[i].user].clients
      <4>1. CASE i = main.id
        BY <2>1, <2>3, <2>5, <4>1
      <4>2. CASE i # main.id
        BY <2>1, <2>3, <2>5, <4>2 DEF SessionsAreSafe, Live
      <4> QED
        BY <4>1, <4>2
    <3> QED
      BY <2>4, <2>7, <3>1, <3>2
  <2>10. ClientsAreSessions'
    <3> SUFFICES ASSUME NEW p \in DOMAIN objects, NEW i \in objects'[p].clients
                 PROVE  (Live(p) /\ i \in taken /\ IsRecord(sessions[i]) /\ sessions[i].user = p)'
      BY <2>4, <2>5 DEF ClientsAreSessions
    <3>1. i \in objects[p].clients \/ (p = o /\ i = main.id)
      BY <2>3, <2>5
    <3> QED
      BY <2>1, <2>4, <2>7, <3>1 DEF ClientsAreSessions
  <2> QED
    BY <2>6, <2>8, <2>9, <2>10
<1>8. CASE AwaitsClientAuth
  <2> DEFINE s == [sessions[main.id] EXCEPT !.state = "auth", !.timerRun = TRUE, !.timer = "loops"]
  <2>1. /\ main.at = "clientHello" /\ main.id \in taken /\ main.id \in ClientId /\ Live(main.user)
        /\ IsRecord(sessions[main.id]) /\ sessions[main.id].user = main.user
        /\ sessions[main.id].ending = <<>>
    BY <1>8 DEF AwaitsClientAuth, MainIsSafe, Typed
  <2>2. \A o \in DOMAIN objects : main.id \notin objects[o].clients
    BY <2>1 DEF ClientsAreSessions
  <2>3. /\ main' = [main EXCEPT !.at = "addClient"]
        /\ sessions' = [sessions EXCEPT ![main.id] = s]
        /\ UNCHANGED <<taken, users, objects, userMutex, cleaner, console, misuse>>
    BY <1>8 DEF AwaitsClientAuth
  <2>4. IsRecord(s) /\ s.user = main.user /\ s.ending = <<>>
    BY <2>1 DEF IsRecord
  <2>5. /\ main'.at = "addClient" /\ main'.id = main.id /\ main'.user = main.user
        /\ sessions'[main.id] = s /\ DOMAIN sessions' = ClientId
        /\ \A id \in ClientId : id # main.id => sessions'[id] = sessions[id]
    BY <2>1, <2>3 DEF Typed
  <2> HIDE DEF s
  <2>7. Typed' /\ MapIsLive' /\ CleanerIsSafe' /\ UsersOutliveTheirUse'
    BY <2>1, <2>3, <2>5 DEF Typed, MapIsLive, Live, CleanerIsSafe, UsersOutliveTheirUse
  <2>8. CleanerDeletes'
    <3> SUFFICES ASSUME NEW i \in ClientId, IsDeleted(i)', console \notin {"deletes", "stopped"}
                 PROVE  IsDeleted(i)
      BY <2>3 DEF CleanerDeletes
    <3>1. CASE i # main.id
      BY <2>5, <3>1 DEF IsDeleted, Exists
    <3>2. CASE i = main.id
      BY <2>4, <2>5, <3>2 DEF IsDeleted
    <3> QED
      BY <3>1, <3>2
  <2>9. MainIsSafe'
    <3>1. console' \in {"running", "joinsCleaner", "joinsMain"} /\ Live(main.user)'
      BY <2>1, <2>3 DEF MainIsSafe, Live
    <3> QED
      BY <2>1, <2>3, <2>4, <2>5, <3>1 DEF MainIsSafe
  <2>10. SessionsAreSafe'
    BY <2>1, <2>3, <2>4, <2>5 DEF SessionsAreSafe, Exists, Live, Typed
  <2>11. ClientsAreSessions'
    BY <2>1, <2>2, <2>3, <2>5 DEF ClientsAreSessions, Live, Typed
  <2> QED
    BY <2>7, <2>8, <2>9, <2>10, <2>11
<1>9. CASE PrintsClient
  <2> USE <1>9 DEF PrintsClient
  <2>1. Typed' /\ MapIsLive' /\ MainIsSafe' /\ CleanerIsSafe' /\ UsersOutliveTheirUse'
    BY DEF Typed, MapIsLive, Live, MainIsSafe, CleanerIsSafe, UsersOutliveTheirUse
  <2>2. SessionsAreSafe' /\ CleanerDeletes' /\ ClientsAreSessions'
    BY DEF SessionsAreSafe, CleanerDeletes, ClientsAreSessions, IsDeleted, Exists, Live
  <2> QED
    BY <2>1, <2>2
<1> QED
  BY <1>1, <1>2, <1>3, <1>4, <1>5, <1>6, <1>7, <1>8, <1>9 DEF MainSteps

-----------------------------------------------------------------------------
(* The cleanup *)

\* A step of the cleanup, or of the console, that changes only mutexes.
LEMMA QuietSafe ==
  ASSUME IInv, ObjectsKept, UsersOutliveTheirUse',
         UNCHANGED <<taken, users, sessions, main>>,
         main.at # "ended" => console' \in {"running", "joinsCleaner", "joinsMain"},
         cleaner'.at \in {"asleep", "users", "sessions", "session"},
         cleaner' = [at |-> cleaner'.at, users |-> cleaner'.users, user |-> cleaner'.user,
                     ids |-> cleaner'.ids],
         CleanerIsSafe', CleanerDeletes'
  PROVE  IInv'
<1> USE DEF IInv, ObjectsKept
<1>1. Typed' /\ MapIsLive' /\ MainIsSafe'
  BY DEF Typed, MapIsLive, Live, MainIsSafe
<1>2. SessionsAreSafe'
  BY DEF SessionsAreSafe, Live, Exists
<1>3. ClientsAreSessions'
  BY DEF ClientsAreSessions, Live
<1> QED
  BY <1>1, <1>2, <1>3

\* The session that the cleanup or the console starts to delete.
LEMMA EndsSafe ==
  ASSUME NEW id \in ClientId, NEW s, IInv, IsRecord(s), s.user = sessions[id].user,
         \E o \in DOMAIN objects : id \in objects[o].clients,
         sessions' = [sessions EXCEPT ![id] = s],
         UNCHANGED <<taken, users, objects, userMutex, main, console>>,
         cleaner'.at \in {"asleep", "users", "sessions", "session"},
         cleaner' = [at |-> cleaner'.at, users |-> cleaner'.users, user |-> cleaner'.user,
                     ids |-> cleaner'.ids],
         CleanerIsSafe', CleanerDeletes', UsersOutliveTheirUse'
  PROVE  IInv'
<1> USE DEF IInv
<1>1. PICK o \in DOMAIN objects : id \in objects[o].clients
  OBVIOUS
<1>2. /\ IsRecord(sessions[id]) /\ sessions[id].user = o
      /\ main.at \notin {"pop", "added", "ended"} => id # main.id
  BY <1>1 DEF ClientsAreSessions
<1>3. Typed' /\ MapIsLive'
  BY DEF Typed, MapIsLive, Live
<1>4. MainIsSafe'
  BY <1>2 DEF MainIsSafe, Typed, Live
<1>5. SessionsAreSafe'
  <2> SUFFICES ASSUME NEW i \in ClientId, Exists(i)'
               PROVE  (/\ IsRecord(sessions[i])
                       /\ Live(sessions[i].user)
                       /\ \/ i \in objects[sessions[i].user].clients
                          \/ /\ main.at \in {"clientHello", "addClient"} /\ main.id = i
                             /\ sessions[i].ending = <<>>)'
    BY DEF SessionsAreSafe
  <2>1. CASE i # id
    <3>1. sessions'[i] = sessions[i] /\ Exists(i)
      BY <2>1 DEF Typed, Exists
    <3> QED
      BY <3>1 DEF SessionsAreSafe, Live
  <2>2. CASE i = id
    <3>1. sessions'[i] = s
      BY <2>2 DEF Typed
    <3>2. Live(o)
      BY <1>1 DEF ClientsAreSessions
    <3> QED
      BY <1>1, <1>2, <2>2, <3>1, <3>2 DEF Live
  <2> QED
    BY <2>1, <2>2
<1>6. ClientsAreSessions'
  BY DEF ClientsAreSessions, Live, Typed
<1> QED
  BY <1>3, <1>4, <1>5, <1>6


LEMMA CleanerSafe ==
  ASSUME IInv, WakesUp \/ CleanerSteps
  PROVE  IInv'
<1> USE DEF IInv
<1>1. CASE WakesUp
  <2>1. ObjectsKept /\ UsersOutliveTheirUse' /\ UNCHANGED <<taken, users, objects, sessions, main, console>>
    BY <1>1, UnchangedKept DEF WakesUp, UsersOutliveTheirUse
  <2>2. cleaner' = [at |-> "users", users |-> {u \in User : users[u] # 0}, user |-> cleaner.user,
                    ids |-> cleaner.ids]
    BY <1>1 DEF WakesUp, Typed
  <2>3. CleanerIsSafe' /\ CleanerDeletes'
    <3>1. console = "running" /\ cleaner.at = "asleep"
      BY <1>1 DEF WakesUp
    <3>2. cleaner'.at = "users" /\ cleaner'.users = {u \in User : users[u] # 0}
      BY <2>2
    <3>3. CleanerIsSafe'
      BY <2>1, <3>1, <3>2 DEF CleanerIsSafe
    <3>4. CleanerDeletes'
      BY <2>1, <3>1 DEF CleanerDeletes, IsDeleted, Exists
    <3> QED
      BY <3>3, <3>4
  <2> QED
    BY <2>1, <2>2, <2>3, QuietSafe DEF MainIsSafe
<1>2. ASSUME NEW u \in User, VisitsUser(u) PROVE IInv'
  <2> DEFINE o == users[u]
             r == [objects[o] EXCEPT !.mutex = "cleaner"]
  <2>1. /\ cleaner.at = "users" /\ console \in {"running", "joinsCleaner"} /\ Live(o)
        /\ \A v \in cleaner.users : v \in User /\ users[v] # 0
    BY <1>2 DEF VisitsUser, CleanerIsSafe, MapIsLive
  <2>2. objects[o] \in UserObject
    BY <2>1 DEF Typed, Live
  <2>3. r \in UserObject /\ r.live = objects[o].live /\ r.clients = objects[o].clients
    BY <2>2 DEF UserObject
  <2>4. ObjectsKept
    BY <1>2, <2>1, <2>3, OneKept DEF VisitsUser
  <2>5. UsersOutliveTheirUse'
    BY <1>2, <2>1, UsesLive DEF VisitsUser
  <2>6. /\ cleaner' = [at |-> "sessions", users |-> cleaner.users \ {u}, user |-> o,
                       ids |-> objects[o].clients]
        /\ UNCHANGED <<taken, users, sessions, userMutex, main, console>>
    BY <1>2 DEF VisitsUser
  <2>7. CleanerIsSafe' /\ CleanerDeletes'
    BY <2>1, <2>4, <2>6 DEF CleanerIsSafe, CleanerDeletes, IsDeleted, Exists, ObjectsKept, Live
  <2> QED
    BY <2>4, <2>5, <2>6, <2>7, QuietSafe DEF MainIsSafe
<1>3. ASSUME NEW id \in ClientId, VisitsSession(id) PROVE IInv'
  <2> DEFINE s == SetState([sessions[id] EXCEPT !.ending = Destructors], "error")
  <2>1. /\ cleaner.at = "sessions" /\ id \in cleaner.ids /\ id \in objects[cleaner.user].clients
        /\ cleaner.user \in DOMAIN objects /\ console \in {"running", "joinsCleaner"}
    BY <1>3 DEF VisitsSession, CleanerIsSafe
  <2>2. /\ cleaner' = [at |-> "session", users |-> cleaner.users, user |-> cleaner.user,
                       ids |-> cleaner.ids \ {id}]
        /\ UNCHANGED <<taken, users, objects, userMutex, main, console, misuse>>
    BY <1>3 DEF VisitsSession, Typed
  <2>3. CleanerIsSafe' /\ UsersOutliveTheirUse'
    BY <2>1, <2>2 DEF CleanerIsSafe, UsersOutliveTheirUse
  <2>4. CASE UNCHANGED sessions
    <3>1. CleanerDeletes'
      BY <2>1, <2>2, <2>4 DEF CleanerDeletes, IsDeleted, Exists
    <3> QED
      BY <2>2, <2>3, <2>4, <3>1, UnchangedKept, QuietSafe DEF MainIsSafe
  <2>5. CASE sessions' = [sessions EXCEPT ![id] = s]
    <3>1. IsRecord(sessions[id])
      BY <2>1 DEF ClientsAreSessions
    <3>2. IsRecord(s) /\ s.user = sessions[id].user
      BY <3>1 DEF IsRecord, SetState
    <3> HIDE DEF s
    <3>3. CleanerDeletes'
      BY <2>1, <2>2, <2>5 DEF CleanerDeletes, IsDeleted, Exists, Typed
    <3> QED
      BY <2>1, <2>2, <2>3, <2>5, <3>2, <3>3, EndsSafe
  <2> QED
    BY <1>3, <2>4, <2>5 DEF VisitsSession
<1>4. CASE LeavesSession
  <2>1. /\ ObjectsKept /\ UsersOutliveTheirUse'
        /\ UNCHANGED <<taken, users, objects, sessions, main, console>>
    BY <1>4, UnchangedKept DEF LeavesSession, UsersOutliveTheirUse
  <2>2. /\ cleaner.at = "session"
        /\ cleaner' = [at |-> "sessions", users |-> cleaner.users, user |-> cleaner.user,
                       ids |-> cleaner.ids]
    BY <1>4 DEF LeavesSession, Typed
  <2>3. CleanerIsSafe'
    BY <2>1, <2>2 DEF CleanerIsSafe
  <2>4. ASSUME NEW id \in ClientId, Exists(id), sessions[id].ending # <<>>,
               console \notin {"deletes", "stopped"}
        PROVE  FALSE
    <3>1. id \in objects[cleaner.user].clients
      BY <2>4 DEF CleanerDeletes, IsDeleted
    <3> QED
      BY <1>4, <2>4, <3>1 DEF LeavesSession, IsDeleted
  <2>5. CleanerDeletes'
    BY <2>1, <2>4 DEF CleanerDeletes, IsDeleted, Exists
  <2> QED
    BY <2>1, <2>2, <2>3, <2>5, QuietSafe DEF MainIsSafe
<1>5. CASE LeavesUser
  <2> DEFINE o == cleaner.user
             r == [objects[o] EXCEPT !.mutex = "free"]
  <2>1. cleaner.at = "sessions" /\ console \in {"running", "joinsCleaner"} /\ o \in DOMAIN objects
    BY <1>5 DEF LeavesUser, CleanerIsSafe
  <2>2. objects[o] \in UserObject
    BY <2>1 DEF Typed
  <2>3. r \in UserObject /\ r.live = objects[o].live /\ r.clients = objects[o].clients
    BY <2>2 DEF UserObject
  <2>4. objects' = [objects EXCEPT ![o] = r]
    BY <1>5 DEF LeavesUser
  <2>5. ObjectsKept
    BY <2>1, <2>3, <2>4, Removed DEF ObjectsKept
  <2>6. /\ cleaner' = [at |-> "users", users |-> cleaner.users, user |-> 0, ids |-> cleaner.ids]
        /\ UNCHANGED <<taken, users, sessions, main, console, misuse>>
    BY <1>5 DEF LeavesUser, Typed
  <2>7. CleanerIsSafe' /\ CleanerDeletes' /\ UsersOutliveTheirUse'
    BY <2>1, <2>6 DEF CleanerIsSafe, CleanerDeletes, IsDeleted, Exists, UsersOutliveTheirUse
  <2> QED
    BY <2>5, <2>6, <2>7, QuietSafe DEF MainIsSafe
<1>6. CASE EndsTick
  <2>1. /\ ObjectsKept /\ UsersOutliveTheirUse'
        /\ UNCHANGED <<taken, users, objects, sessions, main, console>>
    BY <1>6, UnchangedKept DEF EndsTick, UsersOutliveTheirUse
  <2>2. /\ cleaner.at = "users"
        /\ cleaner' = [at |-> "asleep", users |-> cleaner.users, user |-> cleaner.user,
                       ids |-> cleaner.ids]
    BY <1>6 DEF EndsTick, Typed
  <2>3. CleanerIsSafe' /\ CleanerDeletes'
    BY <2>1, <2>2 DEF CleanerIsSafe, CleanerDeletes, IsDeleted, Exists
  <2> QED
    BY <2>1, <2>2, <2>3, QuietSafe DEF MainIsSafe
<1> QED
  BY <1>1, <1>2, <1>3, <1>4, <1>5, <1>6 DEF CleanerSteps


-----------------------------------------------------------------------------
(* FileServer2::stop *)

LEMMA ConsoleSafe ==
  ASSUME IInv, Stops \/ ConsoleSteps
  PROVE  IInv'
<1> USE DEF IInv
<1>1. CASE Stops \/ JoinsCleaner \/ JoinsMain \/ Locks
  <2>1. ObjectsKept /\ UsersOutliveTheirUse' /\ UNCHANGED <<taken, users, objects, sessions, main, cleaner>>
    BY <1>1, UnchangedKept DEF Stops, JoinsCleaner, JoinsMain, Locks, UsersOutliveTheirUse
  <2>2. /\ main.at # "ended" => console' \in {"running", "joinsCleaner", "joinsMain"}
        /\ cleaner.at # "asleep" => console' \in {"running", "joinsCleaner"}
        /\ console \notin {"deletes", "stopped"}
    BY <1>1 DEF Stops, JoinsCleaner, JoinsMain, Locks, MainIsSafe, CleanerIsSafe
  <2>3. CleanerIsSafe' /\ CleanerDeletes'
    BY <2>1, <2>2 DEF CleanerIsSafe, CleanerDeletes, IsDeleted, Exists
  <2>4. /\ cleaner'.at \in {"asleep", "users", "sessions", "session"}
        /\ cleaner' = [at |-> cleaner'.at, users |-> cleaner'.users, user |-> cleaner'.user,
                       ids |-> cleaner'.ids]
    BY <2>1 DEF Typed
  <2> QED
    BY <2>1, <2>2, <2>3, <2>4, QuietSafe
<1>2. ASSUME NEW id \in ClientId, DeletesSession(id) PROVE IInv'
  <2> DEFINE s == SetState([sessions[id] EXCEPT !.ending = <<"error">> \o Destructors], "disconnected")
  <2>1. PICK o \in UserObjects : id \in objects[o].clients
    BY <1>2 DEF DeletesSession
  <2>2. Live(o)
    BY <2>1 DEF UserObjects, MapIsLive
  <2>3. IsRecord(sessions[id]) /\ sessions[id].user = o
    BY <2>1, <2>2 DEF ClientsAreSessions, Live
  <2>4. IsRecord(s) /\ s.user = sessions[id].user
    BY <2>3 DEF IsRecord, SetState
  <2>5. UsersOutliveTheirUse'
    BY <1>2, <2>2, <2>3, UsesLive DEF DeletesSession
  <2>6. /\ sessions' = [sessions EXCEPT ![id] = s] /\ console = "deletes"
        /\ UNCHANGED <<taken, users, objects, userMutex, main, cleaner, console>>
    BY <1>2 DEF DeletesSession
  <2> HIDE DEF s
  <2>7. CleanerIsSafe' /\ CleanerDeletes'
    BY <2>6 DEF CleanerIsSafe, CleanerDeletes
  <2>8. /\ cleaner'.at \in {"asleep", "users", "sessions", "session"}
        /\ cleaner' = [at |-> cleaner'.at, users |-> cleaner'.users, user |-> cleaner'.user,
                       ids |-> cleaner'.ids]
    BY <2>6 DEF Typed
  <2> QED
    BY <2>1, <2>2, <2>4, <2>5, <2>6, <2>7, <2>8, EndsSafe DEF Live
<1>3. ASSUME NEW u \in User, DeletesUser(u) PROVE IInv'
  <2> DEFINE o == users[u]
             r == [objects[o] EXCEPT !.live = FALSE]
  <2>1. o # 0 /\ objects[o].clients = {} /\ console = "deletes" /\ Live(o)
    BY <1>3 DEF DeletesUser, MapIsLive
  <2>2. main.at = "ended" /\ cleaner.at = "asleep"
    BY <2>1 DEF MainIsSafe, CleanerIsSafe
  <2>3. objects[o] \in UserObject
    BY <2>1 DEF Typed, Live
  <2>4. r \in UserObject /\ r.clients = {}
    BY <2>1, <2>3 DEF UserObject
  <2>5. PICK p : p = o
    OBVIOUS
  <2>6. /\ objects' = [objects EXCEPT ![p] = r] /\ users' = [users EXCEPT ![u] = 0]
        /\ UNCHANGED <<taken, sessions, userMutex, main, cleaner, console>>
    BY <1>3, <2>5 DEF DeletesUser
  <2>7. UsersOutliveTheirUse'
    BY <1>3, <2>1, UsesLive DEF DeletesUser
  <2> HIDE DEF r
  <2>8. /\ objects' \in Seq(UserObject) /\ DOMAIN objects' = DOMAIN objects
        /\ objects'[p] = r /\ \A q \in DOMAIN objects : q # p => objects'[q] = objects[q]
    BY <2>1, <2>4, <2>5, <2>6, Removed DEF Live
  <2>9. \A q : Live(q) /\ q # p => Live(q)'
    BY <2>8 DEF Live
  <2>10. users'[u] = 0 /\ \A v \in User : v # u => users'[v] = users[v]
    BY <2>6 DEF Typed
  <2>11. Typed'
    BY <2>6, <2>8, <2>10 DEF Typed
  <2>12. MapIsLive'
    BY <2>1, <2>5, <2>9, <2>10 DEF MapIsLive
  <2>13. MainIsSafe' /\ CleanerIsSafe' /\ CleanerDeletes'
    BY <2>1, <2>2, <2>6 DEF MainIsSafe, CleanerIsSafe, CleanerDeletes
  <2>14. SessionsAreSafe'
    <3> SUFFICES ASSUME NEW i \in ClientId, Exists(i)'
                 PROVE  (/\ IsRecord(sessions[i])
                         /\ Live(sessions[i].user)
                         /\ i \in objects[sessions[i].user].clients)'
      BY DEF SessionsAreSafe
    <3>1. /\ IsRecord(sessions[i]) /\ Live(sessions[i].user)
          /\ i \in objects[sessions[i].user].clients
      BY <2>2, <2>6 DEF SessionsAreSafe, Exists
    <3>2. sessions[i].user # p
      BY <2>1, <2>5, <3>1
    <3> QED
      BY <2>6, <2>8, <2>9, <3>1, <3>2 DEF Live
  <2>15. ClientsAreSessions'
    <3> SUFFICES ASSUME NEW q \in DOMAIN objects, NEW i \in objects'[q].clients
                 PROVE  (/\ Live(q) /\ i \in taken /\ IsRecord(sessions[i]) /\ sessions[i].user = q
                         /\ main.at \notin {"pop", "added", "ended"} => i # main.id)'
      BY <2>8 DEF ClientsAreSessions
    <3>1. q # p /\ i \in objects[q].clients
      BY <2>4, <2>8
    <3> QED
      BY <2>6, <2>9, <3>1 DEF ClientsAreSessions
  <2> QED
    BY <2>7, <2>11, <2>12, <2>13, <2>14, <2>15
<1>4. CASE IsStopped
  <2>1. /\ ObjectsKept /\ UsersOutliveTheirUse' /\ console = "deletes" /\ console' = "stopped"
        /\ UNCHANGED <<taken, users, objects, sessions, main, cleaner>>
    BY <1>4, UnchangedKept DEF IsStopped, UsersOutliveTheirUse
  <2>2. main.at = "ended" /\ cleaner.at = "asleep"
    BY <2>1 DEF MainIsSafe, CleanerIsSafe
  <2>3. CleanerIsSafe' /\ CleanerDeletes'
    BY <2>1, <2>2 DEF CleanerIsSafe, CleanerDeletes
  <2>4. cleaner' = [at |-> cleaner'.at, users |-> cleaner'.users, user |-> cleaner'.user,
                    ids |-> cleaner'.ids]
    BY <2>1 DEF Typed
  <2> QED
    BY <2>1, <2>2, <2>3, <2>4, QuietSafe
<1> QED
  BY <1>1, <1>2, <1>3, <1>4 DEF ConsoleSteps

-----------------------------------------------------------------------------
LEMMA NextSafe == ServerThreadsAssumption /\ IInv /\ [Next]_vars => IInv'
<1> SUFFICES ASSUME ServerThreadsAssumption, IInv, [Next]_vars
             PROVE  IInv'
  OBVIOUS
<1>1. CASE UNCHANGED vars
  BY <1>1, UnchangedKept, QuietSafe
     DEF vars, IInv, Typed, MainIsSafe, CleanerIsSafe, CleanerDeletes, IsDeleted, Exists,
         UsersOutliveTheirUse
<1>2. CASE Next
  BY <1>2, ConsumerSafe, TimerSafe, DeletionSafe, MainSafe, CleanerSafe, ConsoleSafe DEF Next
<1> QED
  BY <1>1, <1>2

\* No thread uses a user after he is deleted, or a node of the map of users after
\* it is erased, for any number of clients, users and names in the UserStore: what
\* getUser and findClient give away outlives its use, because stop() deletes no
\* user before the consumer and the cleanup have ended.
THEOREM UsersOutlive == Spec => []UsersOutliveTheirUse
<1>1. IInv => UsersOutliveTheirUse
  BY DEF IInv
<1> QED
  BY InitSafe, NextSafe, ServerThreadsAssumption, <1>1, PTL DEF Spec

-----------------------------------------------------------------------------
(* The threads of a session: what its deletion has yet to do *)

IsSession(s) == s \in SessionObject

\* One of the steps comes before the i-th.
Before(i, steps, some) == \E j \in 1..(i - 1) : steps[j] \in some

\* Before udpServer is deleted, both threads have ended or will be waited for.
Awaits(s) ==
  \A i \in 1..Len(s.ending) : s.ending[i] = "udp" =>
    /\ s.timer = "ended" \/ Before(i, s.ending, {"stopTimer", "joinTimer"})
    /\ s.consumer = "ended" \/ Before(i, s.ending, {"stopConsumer", "joinConsumer"})

\* A timer that has been stopped has ended, or is what the deletion waits for.
TimerIsJoined(s) == s.timerRun \/ s.timer = "ended" \/ (s.ending # <<>> /\ s.ending[1] = "joinTimer")

\* The deletion ends with the memory; and who has not stopped himself is in
\* fsc_error or fsc_disconnected only by his deletion.
IsFreed(s) == s.ending # <<>> => s.ending[Len(s.ending)] = "free"
StoppedByDeletion(s) == s.state \in {"error", "disconnected"} => s.ending # <<>>

EndsWell(s) ==
  /\ IsSession(s)
  /\ IsFreed(s)
  /\ ~s.selfStopped => Awaits(s) /\ TimerIsJoined(s) /\ StoppedByDeletion(s)

SessionsEndWell == \A id \in ClientId : Exists(id) => EndsWell(sessions[id])

\* What is in a map of sessions, or about to be put there, is a session.
ClientsExist ==
  /\ \A o \in DOMAIN objects : \A id \in objects[o].clients : Exists(id)
  /\ main.at \in {"clientHello", "addClient"} => Exists(main.id)

-----------------------------------------------------------------------------
(* What stop() leaves behind *)

\* A live user is in the map; a hello adds none who is there already.
UsersAreHeld ==
  /\ \A o \in DOMAIN objects : objects[o].live => o \in UserObjects
  /\ main.at = "addUser" => users[UserOf[main.id]] = 0
  /\ console = "stopped" => UserObjects = {}

\* A step in front of what is left of a deletion, instead of the one that is done.
LEMMA Replaced ==
  ASSUME NEW e \in Seq(EndingSteps), e # <<>>, NEW x \in EndingSteps
  PROVE  LET new == <<x>> \o Tail(e)
         IN /\ new \in Seq(EndingSteps) /\ Len(new) = Len(e) /\ Len(e) \in Nat \ {0}
            /\ new[1] = x /\ \A i \in 2..Len(e) : new[i] = e[i]
OBVIOUS

LEMMA Dropped ==
  ASSUME NEW e \in Seq(EndingSteps), e # <<>>
  PROVE  LET new == <<>> \o Tail(e)
         IN /\ new \in Seq(EndingSteps) /\ Len(new) = Len(e) - 1 /\ Len(e) \in Nat \ {0}
            /\ \A i \in 1..(Len(e) - 1) : new[i] = e[i + 1]
            /\ e[1] = Head(e)
OBVIOUS

LEMMA EndingIs ==
  ASSUME NEW e \in Seq(EndingSteps), e # <<>>, NEW x \in EndingSteps
  PROVE  <<>> \o Tail(e) \in Seq(EndingSteps) /\ <<x>> \o Tail(e) \in Seq(EndingSteps)
BY Replaced, Dropped

\* What the threads of a session do to it while it is left alone, and while it
\* is deleted: they end or stop themselves.
ThreadStep(s, t) ==
  /\ IsSession(t) /\ t.ending = s.ending
  /\ s.selfStopped => t.selfStopped
  /\ s.timer = "ended" => t.timer = "ended"
  /\ s.consumer = "ended" => t.consumer = "ended"
  /\ t.selfStopped \/ (s.timerRun => t.timerRun)
  /\ t.selfStopped \/ (t.state \in {"error", "disconnected"} => s.state \in {"error", "disconnected"})

LEMMA ThreadKeeps ==
  ASSUME NEW s, NEW t, EndsWell(s), ThreadStep(s, t)
  PROVE  EndsWell(t)
<1> USE DEF ThreadStep
<1>1. IsFreed(t)
  BY DEF EndsWell, IsFreed
<1>2. CASE t.selfStopped
  BY <1>1, <1>2 DEF EndsWell
<1>3. CASE ~t.selfStopped
  <2>1. Awaits(s) /\ TimerIsJoined(s) /\ StoppedByDeletion(s)
    BY <1>3 DEF EndsWell
  <2>2. Awaits(t)
    BY <2>1 DEF Awaits
  <2>3. TimerIsJoined(t)
    BY <1>3, <2>1 DEF TimerIsJoined
  <2>4. StoppedByDeletion(t)
    BY <1>3, <2>1 DEF StoppedByDeletion
  <2>5. QED BY <1>1, <2>2, <2>3, <2>4 DEF EndsWell
<1>4. QED BY <1>2, <1>3

\* A step that is done leaves the others, and the last is another one.
LEMMA DropEnd ==
  ASSUME NEW e \in Seq(EndingSteps), e # <<>>, e[Len(e)] = "free", Head(e) # "free"
  PROVE  LET new == <<>> \o Tail(e) IN new # <<>> /\ new[Len(new)] = "free"
<1> DEFINE n == Len(e)
           d == <<>> \o Tail(e)
<1>1. /\ n \in Nat \ {0} /\ Len(d) = n - 1 /\ e[1] = Head(e)
      /\ \A i \in 1..(n - 1) : d[i] = e[i + 1]
  BY Dropped
<1>2. n >= 2 /\ e[n] = "free"
  BY <1>1
<1> HIDE DEF n, d
<1>3. Len(d) = n - 1 /\ n - 1 \in 1..(n - 1) /\ (n - 1) + 1 = n
  BY <1>1, <1>2
<1>4. d[n - 1] = e[n]
  BY <1>1, <1>3
<1>5. Len(<<>>) = 0 /\ Len(d) # 0
  BY <1>1, <1>2
<1>6. d # <<>> /\ d[Len(d)] = "free"
  BY <1>2, <1>3, <1>4, <1>5
<1>7. QED BY <1>6 DEF d

\* What a step of the deletion leaves as it is.
SameThreads(s, t) ==
  /\ IsSession(t)
  /\ t.timer = s.timer /\ t.consumer = s.consumer /\ t.selfStopped = s.selfStopped

\* A step is done: it was no stop of a thread, or its thread has ended.
LEMMA DropKeeps ==
  ASSUME NEW s, NEW t, EndsWell(s), s.ending # <<>>, Head(s.ending) \notin {"free", "udp"},
         SameThreads(s, t), t.ending = <<>> \o Tail(s.ending),
         ~s.selfStopped => /\ Head(s.ending) \in {"stopTimer", "joinTimer"} => s.timer = "ended"
                           /\ Head(s.ending) \in {"stopConsumer", "joinConsumer"} => s.consumer = "ended"
                           /\ t.timerRun = s.timerRun \/ s.timer = "ended"
  PROVE  EndsWell(t)
<1> DEFINE e == s.ending
           d == t.ending
           n == Len(e)
<1>1. /\ e \in Seq(EndingSteps) /\ e # <<>>
      /\ e[n] = "free"
  BY DEF EndsWell, IsSession, SessionObject, IsFreed
<1>2. /\ n \in Nat \ {0} /\ Len(d) = n - 1 /\ e[1] = Head(e)
      /\ \A i \in 1..(n - 1) : d[i] = e[i + 1]
  BY <1>1, Dropped
<1>3. n >= 2
  BY <1>1, <1>2
<1> HIDE DEF e, d, n
<1>4. d # <<>> /\ d[Len(d)] = "free"
  BY <1>1, DropEnd DEF d, e, n
<1>5. IsSession(t) /\ IsFreed(t)
  BY <1>4 DEF IsFreed, d, SameThreads
<1>6. ASSUME ~t.selfStopped PROVE Awaits(t) /\ TimerIsJoined(t) /\ StoppedByDeletion(t)
  <2>1. /\ Awaits(s) /\ TimerIsJoined(s) /\ t.timer = s.timer /\ t.consumer = s.consumer
        /\ e[1] \in {"stopTimer", "joinTimer"} => s.timer = "ended"
        /\ e[1] \in {"stopConsumer", "joinConsumer"} => s.consumer = "ended"
        /\ t.timerRun = s.timerRun \/ s.timer = "ended"
    BY <1>2, <1>6 DEF EndsWell, SameThreads, e
  <2>2. ASSUME NEW some, NEW i \in 1..(n - 1), Before(i + 1, e, some)
        PROVE  e[1] \in some \/ Before(i, d, some)
    <3>1. PICK j \in 1..((i + 1) - 1) : e[j] \in some
      BY <2>2 DEF Before
    <3>2. CASE j = 1
      BY <3>1, <3>2
    <3>3. CASE j # 1
      <4>1. j - 1 \in 1..(i - 1) /\ j - 1 \in 1..(n - 1) /\ (j - 1) + 1 = j
        BY <1>2, <3>1, <3>3
      <4>2. d[j - 1] = e[j]
        BY <1>2, <4>1
      <4>3. QED BY <3>1, <4>1, <4>2 DEF Before
    <3>4. QED BY <3>2, <3>3
  <2>3. ASSUME NEW i \in 1..Len(d), d[i] = "udp"
        PROVE  /\ t.timer = "ended" \/ Before(i, d, {"stopTimer", "joinTimer"})
               /\ t.consumer = "ended" \/ Before(i, d, {"stopConsumer", "joinConsumer"})
    <3>1. i \in 1..(n - 1) /\ i + 1 \in 1..n /\ e[i + 1] = "udp"
      BY <1>2, <2>3
    <3>2. /\ s.timer = "ended" \/ Before(i + 1, e, {"stopTimer", "joinTimer"})
          /\ s.consumer = "ended" \/ Before(i + 1, e, {"stopConsumer", "joinConsumer"})
      BY <2>1, <3>1 DEF Awaits, e, n
    <3>3. QED BY <2>1, <2>2, <3>1, <3>2
  <2>4. Awaits(t)
    BY <2>3 DEF Awaits, d
  <2>5. TimerIsJoined(t)
    BY <2>1 DEF TimerIsJoined, e
  <2>6. QED BY <1>4, <2>4, <2>5 DEF StoppedByDeletion, d
<1>7. QED BY <1>5, <1>6 DEF EndsWell

\* A stop of a thread becomes the wait for it.
LEMMA ReplaceKeeps ==
  ASSUME NEW s, NEW t, NEW x, EndsWell(s), s.ending # <<>>, SameThreads(s, t),
         t.ending = <<x>> \o Tail(s.ending),
         \/ Head(s.ending) = "stopTimer" /\ x = "joinTimer"
         \/ Head(s.ending) = "stopConsumer" /\ x = "joinConsumer" /\ t.timerRun = s.timerRun
  PROVE  EndsWell(t)
<1> DEFINE e == s.ending
           d == t.ending
           n == Len(e)
<1>1. /\ e \in Seq(EndingSteps) /\ e # <<>> /\ x \in EndingSteps
      /\ e[n] = "free"
  BY DEF EndsWell, IsSession, SessionObject, IsFreed, EndingSteps
<1>2. /\ n \in Nat \ {0} /\ Len(d) = n /\ e[1] = Head(e)
      /\ d[1] = x /\ \A i \in 2..n : d[i] = e[i]
  <2>1. e[1] = Head(e) /\ d = <<x>> \o Tail(e)
    BY <1>1, Dropped
  <2> HIDE DEF d, e
  <2>2. QED BY <1>1, <2>1, Replaced
<1>3. n >= 2
  BY <1>1, <1>2
<1> HIDE DEF e, d, n
<1>4. d # <<>> /\ d[Len(d)] = "free"
  <2>1. Len(<<>>) = 0 /\ Len(d) # 0
    BY <1>2, <1>3
  <2>2. QED BY <1>1, <1>2, <1>3, <2>1
<1>5. IsSession(t) /\ IsFreed(t)
  BY <1>4 DEF IsFreed, d, SameThreads
<1>6. ASSUME ~t.selfStopped PROVE Awaits(t) /\ TimerIsJoined(t) /\ StoppedByDeletion(t)
  <2>1. Awaits(s) /\ TimerIsJoined(s) /\ t.timer = s.timer /\ t.consumer = s.consumer
    BY <1>6 DEF EndsWell, SameThreads
  <2>2. \/ e[1] = "stopTimer" /\ x = "joinTimer"
        \/ e[1] = "stopConsumer" /\ x = "joinConsumer" /\ t.timerRun = s.timerRun
    BY <1>2 DEF e
  <2>3. ASSUME NEW i \in 1..n,
               NEW some \in {{"stopTimer", "joinTimer"}, {"stopConsumer", "joinConsumer"}},
               Before(i, e, some)
        PROVE  Before(i, d, some)
    <3>1. PICK j \in 1..(i - 1) : e[j] \in some
      BY <2>3 DEF Before
    <3>2. j = 1 \/ j \in 2..n
      BY <1>2, <3>1
    <3>3. d[j] \in some
      BY <1>2, <2>2, <3>1, <3>2
    <3>4. QED BY <3>1, <3>3 DEF Before
  <2>4. ASSUME NEW i \in 1..Len(d), d[i] = "udp"
        PROVE  /\ t.timer = "ended" \/ Before(i, d, {"stopTimer", "joinTimer"})
               /\ t.consumer = "ended" \/ Before(i, d, {"stopConsumer", "joinConsumer"})
    <3>1. i \in 1..n /\ e[i] = "udp"
      <4>1. i = 1 \/ i \in 2..n
        BY <1>2
      <4>2. QED BY <1>2, <2>2, <2>4, <4>1
    <3>2. /\ s.timer = "ended" \/ Before(i, e, {"stopTimer", "joinTimer"})
          /\ s.consumer = "ended" \/ Before(i, e, {"stopConsumer", "joinConsumer"})
      BY <2>1, <3>1 DEF Awaits, e, n
    <3>3. QED BY <2>1, <2>3, <3>1, <3>2
  <2>5. Awaits(t)
    BY <2>4 DEF Awaits, d
  <2>6. TimerIsJoined(t)
    BY <1>2, <1>4, <2>1, <2>2 DEF TimerIsJoined, e, d
  <2>7. QED BY <1>4, <2>5, <2>6 DEF StoppedByDeletion, d
<1>7. QED BY <1>5, <1>6 DEF EndsWell

\* setState puts the stops of both threads before the rest.
LEMMA StopsFirst ==
  ASSUME NEW s, NEW t, NEW d \in Seq(EndingSteps), d # <<>>, d[Len(d)] = "free",
         SameThreads(s, t), t.timerRun = s.timerRun, t.ending = <<"stopTimer", "stopConsumer">> \o d,
         ~s.selfStopped => s.timerRun \/ s.timer = "ended"
  PROVE  EndsWell(t)
<1> DEFINE two == <<"stopTimer", "stopConsumer">>
           f == two \o d
<1>1. Len(two) = 2 /\ two[1] = "stopTimer" /\ two[2] = "stopConsumer" /\ two \in Seq(EndingSteps)
  BY DEF EndingSteps
<1>2. Len(d) \in Nat \ {0}
  BY EmptySeq
<1> HIDE DEF two
<1>3. /\ f \in Seq(EndingSteps) /\ Len(f) = 2 + Len(d)
      /\ \A i \in 1..(2 + Len(d)) : f[i] = IF i <= 2 THEN two[i] ELSE d[i - 2]
  <2>1. /\ f \in Seq(EndingSteps) /\ Len(f) = Len(two) + Len(d)
        /\ \A i \in 1..(Len(two) + Len(d)) : f[i] = IF i <= Len(two) THEN two[i] ELSE d[i - Len(two)]
    BY <1>1, ConcatProperties
  <2> HIDE DEF f
  <2>2. QED BY <1>1, <2>1
<1>4. t.ending = f
  BY DEF two
<1> HIDE DEF f
<1>5. f[1] = "stopTimer" /\ f[2] = "stopConsumer" /\ f[Len(f)] = "free" /\ f # <<>>
  <2>1. 1 \in 1..(2 + Len(d)) /\ 2 \in 1..(2 + Len(d)) /\ 2 + Len(d) \in 1..(2 + Len(d))
        /\ (2 + Len(d)) - 2 = Len(d) /\ ~(2 + Len(d) <= 2) /\ Len(<<>>) = 0
    BY <1>2
  <2>2. f[1] = two[1] /\ f[2] = two[2] /\ f[2 + Len(d)] = d[(2 + Len(d)) - 2]
    BY <1>3, <2>1
  <2>3. QED BY <1>1, <1>2, <1>3, <2>1, <2>2
<1>6. ASSUME NEW i \in 1..Len(f), f[i] = "udp"
      PROVE  Before(i, f, {"stopTimer", "joinTimer"}) /\ Before(i, f, {"stopConsumer", "joinConsumer"})
  <2>1. i # 1 /\ i # 2
    BY <1>5, <1>6
  <2>2. 1 \in 1..(i - 1) /\ 2 \in 1..(i - 1)
    BY <1>2, <1>3, <2>1
  <2>3. QED BY <1>5, <2>2 DEF Before
<1>7. IsSession(t) /\ IsFreed(t) /\ Awaits(t)
  BY <1>4, <1>5, <1>6 DEF SameThreads, IsFreed, Awaits
<1>8. StoppedByDeletion(t) /\ (~t.selfStopped => TimerIsJoined(t))
  BY <1>4, <1>5 DEF SameThreads, StoppedByDeletion, TimerIsJoined
<1>9. QED BY <1>7, <1>8 DEF EndsWell

\* Only the last step of its deletion takes a session away.
StillExist == \A id \in ClientId : Exists(id) => Exists(id)'

LEMMA OneEndsWell ==
  ASSUME NEW id \in ClientId, NEW t, IInv, SessionsEndWell, EndsWell(t),
         sessions' = [sessions EXCEPT ![id] = t]
  PROVE  SessionsEndWell' /\ StillExist
<1>1. t # NoSession
  BY NoSessionAssumption DEF EndsWell, IsSession
<1>2. QED BY <1>1 DEF IInv, Typed, SessionsEndWell, StillExist, Exists

LEMMA NoSessionIsUsed ==
  ASSUME NEW os, SessionsOutliveTheirThreads, Uses(os)
  PROVE  SessionsOutliveTheirThreads'
BY DEF SessionsOutliveTheirThreads, Uses

LEMMA ConsumerEndsWell ==
  ASSUME NEW id \in ClientId, IInv, SessionsEndWell, SessionsOutliveTheirThreads,
         Handles(id) \/ ConsumerSteps(id)
  PROVE  SessionsEndWell' /\ SessionsOutliveTheirThreads' /\ StillExist
<1> DEFINE s == sessions[id]
<1>1. EndsWell(s) /\ IsSession(s)
  BY DEF SessionsEndWell, EndsWell, Handles, ConsumerSteps, Answers, Uploads, Fails, FailsOn, ConsumerEnds
<1>2. SUFFICES \E t : Step(id, t) /\ ThreadStep(s, t)
  <2>1. SessionsOutliveTheirThreads'
    BY NoSessionIsUsed
       DEF SessionsOutliveTheirThreads, Handles, ConsumerSteps, Answers, Uploads, Fails, FailsOn, ConsumerEnds
  <2>2. QED BY <1>1, <1>2, <2>1, ThreadKeeps, OneEndsWell DEF Step
<1>3. CASE Handles(id)
  <2> DEFINE t == [s EXCEPT !.consumer = "busy"]
  <2>1. Step(id, t) /\ s.consumer = "waiting"
    BY <1>3 DEF Handles
  <2>2. ThreadStep(s, t)
    BY <1>1, <2>1 DEF ThreadStep, IsSession, SessionObject
  <2>3. QED BY <2>1, <2>2
<1>4. CASE Answers(id)
  <2>1. PICK x \in {s.state, "connected"} :
          Step(id, [s EXCEPT !.consumer = "waiting", !.state = x])
    BY <1>4 DEF Answers
  <2>2. s.consumer = "busy"
    BY <1>4 DEF Answers
  <2>3. ThreadStep(s, [s EXCEPT !.consumer = "waiting", !.state = x])
    BY <1>1, <2>2 DEF ThreadStep, IsSession, SessionObject
  <2>4. QED BY <2>1, <2>3
<1>5. CASE \E isPart \in BOOLEAN : Uploads(id, isPart)
  <2>1. PICK x \in {"endless", "waiting"} : Step(id, [s EXCEPT !.consumer = x])
    BY <1>5 DEF Uploads
  <2>2. s.consumer = "busy"
    BY <1>5 DEF Uploads
  <2>3. ThreadStep(s, [s EXCEPT !.consumer = x])
    BY <1>1, <2>2 DEF ThreadStep, IsSession, SessionObject
  <2>4. QED BY <2>1, <2>3
<1>6. CASE Fails(id)
  <2>1. PICK x \in {"joinsTimer", "leaving"} :
          Step(id, [s EXCEPT !.state = "error", !.selfStopped = TRUE, !.timerRun = FALSE, !.consumer = x])
    BY <1>6 DEF Fails
  <2>2. s.consumer = "busy"
    BY <1>6 DEF Fails
  <2>3. ThreadStep(s, [s EXCEPT !.state = "error", !.selfStopped = TRUE, !.timerRun = FALSE,
                                !.consumer = x])
    BY <1>1, <2>2 DEF ThreadStep, IsSession, SessionObject
  <2>4. QED BY <2>1, <2>3
<1>7. CASE FailsOn(id)
  <2> DEFINE t == [s EXCEPT !.consumer = "leaving", !.shouldRun = FALSE]
  <2>1. Step(id, t) /\ s.consumer = "joinsTimer"
    BY <1>7 DEF FailsOn
  <2>2. ThreadStep(s, t)
    BY <1>1, <2>1 DEF ThreadStep, IsSession, SessionObject
  <2>3. QED BY <2>1, <2>2
<1>8. CASE ConsumerEnds(id)
  <2> DEFINE t == [s EXCEPT !.consumer = "ended", !.shouldRun = FALSE]
  <2>1. Step(id, t)
    BY <1>8 DEF ConsumerEnds
  <2>2. ThreadStep(s, t)
    BY <1>1 DEF ThreadStep, IsSession, SessionObject
  <2>3. QED BY <2>1, <2>2
<1>9. QED BY <1>3, <1>4, <1>5, <1>6, <1>7, <1>8 DEF ConsumerSteps

LEMMA TimerEndsWell ==
  ASSUME NEW id \in ClientId, IInv, SessionsEndWell, SessionsOutliveTheirThreads,
         Ticks(id) \/ GivesUp(id) \/ TimerSteps(id)
  PROVE  SessionsEndWell' /\ SessionsOutliveTheirThreads' /\ StillExist
<1> DEFINE s == sessions[id]
<1>1. EndsWell(s) /\ IsSession(s)
  BY DEF SessionsEndWell, EndsWell, Ticks, GivesUp, TimerSteps, Pings, SendsChanges, StartsAgain,
         GivesUpOn, TimerEnds
<1>2. SUFFICES \E t : Step(id, t) /\ ThreadStep(s, t)
  <2>1. SessionsOutliveTheirThreads'
    BY DEF SessionsOutliveTheirThreads, Ticks, GivesUp, TimerSteps, Pings, SendsChanges, StartsAgain,
           GivesUpOn, TimerEnds
  <2>2. QED BY <1>1, <1>2, <2>1, ThreadKeeps, OneEndsWell DEF Step
<1>3. CASE Ticks(id)
  <2> DEFINE t == [s EXCEPT !.timer = "connectedTick"]
  <2>1. Step(id, t) /\ s.timer = "loops"
    BY <1>3 DEF Ticks
  <2>2. ThreadStep(s, t)
    BY <1>1, <2>1 DEF ThreadStep, IsSession, SessionObject
  <2>3. QED BY <2>1, <2>2
<1>4. CASE GivesUp(id)
  <2> DEFINE t == [s EXCEPT !.timer = "joinsConsumer", !.state = "error", !.timerRun = FALSE,
                            !.shouldRun = FALSE, !.selfStopped = TRUE]
  <2>1. Step(id, t) /\ s.timer = "loops"
    BY <1>4 DEF GivesUp
  <2>2. ThreadStep(s, t)
    BY <1>1, <2>1 DEF ThreadStep, IsSession, SessionObject
  <2>3. QED BY <2>1, <2>2
<1>5. CASE Pings(id)
  <2> DEFINE t == [s EXCEPT !.timer = "loops", !.state = "settled", !.timerRun = TRUE]
  <2>1. Step(id, t) /\ s.timer = "connectedTick"
    BY <1>5 DEF Pings
  <2>2. ThreadStep(s, t)
    BY <1>1, <2>1 DEF ThreadStep, IsSession, SessionObject
  <2>3. QED BY <2>1, <2>2
<1>6. CASE SendsChanges(id)
  <2> DEFINE t == [s EXCEPT !.timer = "between", !.state = "settled", !.timerRun = FALSE,
                            !.selfStopped = TRUE]
  <2>1. Step(id, t) /\ s.timer = "connectedTick"
    BY <1>6 DEF SendsChanges
  <2>2. ThreadStep(s, t)
    BY <1>1, <2>1 DEF ThreadStep, IsSession, SessionObject
  <2>3. QED BY <2>1, <2>2
<1>7. CASE StartsAgain(id)
  <2> DEFINE t == [s EXCEPT !.timer = "loops", !.timerRun = TRUE]
  <2>1. Step(id, t) /\ s.timer = "between"
    BY <1>7 DEF StartsAgain
  <2>2. ThreadStep(s, t)
    BY <1>1, <2>1 DEF ThreadStep, IsSession, SessionObject
  <2>3. QED BY <2>1, <2>2
<1>8. CASE GivesUpOn(id)
  <2> DEFINE t == [s EXCEPT !.timer = "leaving"]
  <2>1. Step(id, t) /\ s.timer = "joinsConsumer"
    BY <1>8 DEF GivesUpOn
  <2>2. ThreadStep(s, t)
    BY <1>1, <2>1 DEF ThreadStep, IsSession, SessionObject
  <2>3. QED BY <2>1, <2>2
<1>9. CASE TimerEnds(id)
  <2> DEFINE t == [s EXCEPT !.timer = "ended"]
  <2>1. Step(id, t)
    BY <1>9 DEF TimerEnds
  <2>2. ThreadStep(s, t)
    BY <1>1 DEF ThreadStep, IsSession, SessionObject
  <2>3. QED BY <2>1, <2>2
<1>10. QED BY <1>3, <1>4, <1>5, <1>6, <1>7, <1>8, <1>9 DEF TimerSteps

LEMMA DeletionEndsWell ==
  ASSUME NEW id \in ClientId, IInv, SessionsEndWell, SessionsOutliveTheirThreads, DeletionSteps(id)
  PROVE  SessionsEndWell' /\ SessionsOutliveTheirThreads' /\ (StillExist \/ Frees(id))
<1> DEFINE s == sessions[id]
<1>1. /\ IsDeleted(id) /\ NextStep(id) = Head(s.ending) /\ s.ending # <<>>
      /\ EndsWell(s) /\ IsSession(s) /\ s.ending[1] = Head(s.ending)
  <2>1. IsDeleted(id)
    BY DEF DeletionSteps, StopsTimer, JoinsTimer, StopsConsumer, JoinsConsumer, EntersError, DeletesUdp,
           Frees, NextStep
  <2>2. EndsWell(s) /\ IsSession(s) /\ s.ending # <<>>
    BY <2>1 DEF SessionsEndWell, EndsWell, IsDeleted
  <2>3. s.ending[1] = Head(s.ending)
    BY <2>2, Dropped DEF IsSession, SessionObject
  <2>4. QED BY <2>1, <2>2, <2>3 DEF NextStep
<1>2. ~s.selfStopped => Awaits(s) /\ TimerIsJoined(s)
  BY <1>1 DEF EndsWell
<1>3. CASE StopsTimer(id)
  <2> DEFINE first == IF s.timerRun THEN <<"joinTimer">> ELSE <<>>
             t == [Ending(s, first) EXCEPT !.timerRun = FALSE]
  <2>1. Step(id, t) /\ Head(s.ending) = "stopTimer" /\ misuse' = misuse
    BY <1>1, <1>3 DEF StopsTimer
  <2>2. t.ending = first \o Tail(s.ending)
    BY <1>1 DEF IsSession, SessionObject, Ending
  <2>3. SameThreads(s, t)
    <3>1. "joinTimer" \in EndingSteps
      BY DEF EndingSteps
    <3>2. t.ending \in Seq(EndingSteps)
      <4>1. CASE s.timerRun
        BY <1>1, <2>2, <3>1, <4>1, EndingIs DEF IsSession, SessionObject
      <4>2. CASE ~(s.timerRun)
        BY <1>1, <2>2, <3>1, <4>2, EndingIs DEF IsSession, SessionObject
      <4>3. QED BY <4>1, <4>2
    <3>3. QED BY <1>1, <3>2 DEF IsSession, SessionObject, SameThreads, Ending
  <2>4. EndsWell(t)
    <3>1. CASE s.timerRun
      <4>1. t.ending = <<"joinTimer">> \o Tail(s.ending)
        BY <2>2, <3>1
      <4> HIDE DEF t
      <4>2. QED BY <1>1, <2>1, <2>3, <4>1, ReplaceKeeps
    <3>2. CASE ~s.timerRun
      <4>1. t.ending = <<>> \o Tail(s.ending)
        BY <2>2, <3>2
      <4>2. ~s.selfStopped => s.timer = "ended"
        BY <1>1, <1>2, <2>1, <3>2 DEF TimerIsJoined
      <4> HIDE DEF t
      <4>3. QED BY <1>1, <2>1, <2>3, <4>1, <4>2, DropKeeps
    <3>3. QED BY <3>1, <3>2
  <2> HIDE DEF t
  <2>5. QED BY <2>1, <2>4, OneEndsWell DEF Step, SessionsOutliveTheirThreads
<1>4. CASE JoinsTimer(id)
  <2> DEFINE t == Ending(s, <<>>)
  <2>1. Step(id, t) /\ Head(s.ending) = "joinTimer" /\ misuse' = misuse /\ s.timer = "ended"
    BY <1>1, <1>4 DEF JoinsTimer
  <2>2. t.ending = <<>> \o Tail(s.ending)
    BY <1>1 DEF IsSession, SessionObject, Ending
  <2>3. SameThreads(s, t)
    <3>1. t.ending \in Seq(EndingSteps)
      BY <1>1, <2>2, Dropped DEF IsSession, SessionObject
    <3>2. QED BY <1>1, <3>1 DEF IsSession, SessionObject, SameThreads, Ending
  <2> HIDE DEF t
  <2>4. EndsWell(t)
    BY <1>1, <2>1, <2>2, <2>3, DropKeeps
  <2>5. QED BY <2>1, <2>4, OneEndsWell DEF Step, SessionsOutliveTheirThreads
<1>5. CASE StopsConsumer(id)
  <2> DEFINE first == IF s.consumer = "ended" THEN <<>> ELSE <<"joinConsumer">>
             t == [Ending(s, first) EXCEPT !.shouldRun = FALSE]
  <2>1. Step(id, t) /\ Head(s.ending) = "stopConsumer" /\ misuse' = misuse
    BY <1>1, <1>5 DEF StopsConsumer
  <2>2. t.ending = first \o Tail(s.ending) /\ t.timerRun = s.timerRun
    BY <1>1 DEF IsSession, SessionObject, Ending
  <2>3. SameThreads(s, t)
    <3>1. "joinConsumer" \in EndingSteps
      BY DEF EndingSteps
    <3>2. t.ending \in Seq(EndingSteps)
      <4>1. CASE s.consumer = "ended"
        BY <1>1, <2>2, <3>1, <4>1, EndingIs DEF IsSession, SessionObject
      <4>2. CASE ~(s.consumer = "ended")
        BY <1>1, <2>2, <3>1, <4>2, EndingIs DEF IsSession, SessionObject
      <4>3. QED BY <4>1, <4>2
    <3>3. QED BY <1>1, <3>2 DEF IsSession, SessionObject, SameThreads, Ending
  <2>4. EndsWell(t)
    <3>1. CASE s.consumer # "ended"
      <4>1. t.ending = <<"joinConsumer">> \o Tail(s.ending)
        BY <2>2, <3>1
      <4>2. t.timerRun = s.timerRun
        BY <2>2
      <4> HIDE DEF t
      <4>3. QED BY <1>1, <2>1, <2>3, <4>1, <4>2, ReplaceKeeps
    <3>2. CASE s.consumer = "ended"
      <4>1. t.ending = <<>> \o Tail(s.ending)
        BY <2>2, <3>2
      <4>2. t.timerRun = s.timerRun
        BY <2>2
      <4> HIDE DEF t
      <4>3. QED BY <1>1, <2>1, <2>3, <3>2, <4>1, <4>2, DropKeeps
    <3>3. QED BY <3>1, <3>2
  <2> HIDE DEF t
  <2>5. QED BY <2>1, <2>4, OneEndsWell DEF Step, SessionsOutliveTheirThreads
<1>6. CASE JoinsConsumer(id)
  <2> DEFINE t == Ending(s, <<>>)
  <2>1. Step(id, t) /\ Head(s.ending) = "joinConsumer" /\ misuse' = misuse /\ s.consumer = "ended"
    BY <1>1, <1>6 DEF JoinsConsumer
  <2>2. t.ending = <<>> \o Tail(s.ending) /\ t.timerRun = s.timerRun
    BY <1>1 DEF IsSession, SessionObject, Ending
  <2>3. SameThreads(s, t)
    <3>1. t.ending \in Seq(EndingSteps)
      BY <1>1, <2>2, Dropped DEF IsSession, SessionObject
    <3>2. QED BY <1>1, <3>1 DEF IsSession, SessionObject, SameThreads, Ending
  <2> HIDE DEF t
  <2>4. EndsWell(t)
    BY <1>1, <2>1, <2>2, <2>3, DropKeeps
  <2>5. QED BY <2>1, <2>4, OneEndsWell DEF Step, SessionsOutliveTheirThreads
<1>7. CASE EntersError(id)
  <2> DEFINE d == <<>> \o Tail(s.ending)
             t == SetState(Ending(s, <<>>), "error")
  <2>1. Step(id, t) /\ Head(s.ending) = "error" /\ misuse' = misuse
    BY <1>1, <1>7 DEF EntersError
  <2>2. /\ t.ending = IF s.state = "error" THEN d ELSE <<"stopTimer", "stopConsumer">> \o d
        /\ t.timerRun = s.timerRun
    BY <1>1 DEF IsSession, SessionObject, Ending, SetState
  <2>3. d \in Seq(EndingSteps) /\ <<"stopTimer", "stopConsumer">> \o d \in Seq(EndingSteps)
    <3>1. d \in Seq(EndingSteps)
      BY <1>1, Dropped DEF IsSession, SessionObject
    <3>2. <<"stopTimer", "stopConsumer">> \in Seq(EndingSteps)
      BY DEF EndingSteps
    <3> HIDE DEF d
    <3>3. QED BY <3>1, <3>2, ConcatProperties
  <2>4. SameThreads(s, t)
    <3>1. t.ending \in Seq(EndingSteps)
      BY <2>2, <2>3
    <3>2. QED BY <1>1, <3>1 DEF IsSession, SessionObject, SameThreads, Ending, SetState
  <2>5. EndsWell(t)
    <3>1. CASE s.state = "error"
      <4>1. t.ending = <<>> \o Tail(s.ending) /\ t.timerRun = s.timerRun
        BY <2>2, <3>1
      <4> HIDE DEF t
      <4>2. QED BY <1>1, <2>1, <2>4, <4>1, DropKeeps
    <3>2. CASE s.state # "error"
      <4>1. t.ending = <<"stopTimer", "stopConsumer">> \o d /\ t.timerRun = s.timerRun
        BY <2>2, <3>2
      <4>2. ~s.selfStopped => s.timerRun \/ s.timer = "ended"
        BY <1>1, <1>2, <2>1 DEF TimerIsJoined
      <4>3. d # <<>> /\ d[Len(d)] = "free"
        BY <1>1, <2>1, DropEnd DEF IsSession, SessionObject, EndsWell, IsFreed
      <4> HIDE DEF t, d
      <4>4. QED BY <2>3, <2>4, <4>1, <4>2, <4>3, StopsFirst
    <3>3. QED BY <3>1, <3>2
  <2> HIDE DEF t
  <2>6. QED BY <2>1, <2>5, OneEndsWell DEF Step, SessionsOutliveTheirThreads
<1>8. CASE DeletesUdp(id)
  <2>1. Head(s.ending) = "udp"
    BY <1>1, <1>8 DEF DeletesUdp
  <2>2. ~s.selfStopped => ThreadsEnded(id)
    <3>1. 1 \in 1..Len(s.ending) /\ \A some : ~Before(1, s.ending, some)
      BY <1>1, Dropped DEF IsSession, SessionObject, Before
    <3>2. QED BY <1>1, <1>2, <2>1, <3>1 DEF Awaits, ThreadsEnded
  <2>3. SessionsOutliveTheirThreads'
    BY <1>8, <2>2 DEF DeletesUdp, SessionsOutliveTheirThreads
  <2>4. CASE ThreadsEnded(id)
    <3> DEFINE t == [s EXCEPT !.ending = <<"free">>]
    <3>1. Step(id, t)
      BY <1>8, <2>4 DEF DeletesUdp
    <3>2. /\ t.ending = <<"free">> /\ t.timer = "ended" /\ t.ending \in Seq(EndingSteps)
          /\ t.timerRun = s.timerRun
      BY <1>1, <2>4 DEF IsSession, SessionObject, ThreadsEnded, EndingSteps
    <3>3. IsSession(t)
      BY <1>1, <3>2 DEF IsSession, SessionObject
    <3>4. Len(<<"free">>) = 1 /\ <<"free">>[1] = "free" /\ <<"free">> # <<>> /\ \A i \in 1..1 : i = 1
      OBVIOUS
    <3> HIDE DEF t
    <3>5. EndsWell(t)
      BY <3>2, <3>3, <3>4 DEF EndsWell, IsFreed, Awaits, TimerIsJoined, StoppedByDeletion
    <3>6. QED BY <2>3, <3>1, <3>5, OneEndsWell DEF Step
  <2>5. CASE ~ThreadsEnded(id)
    <3> DEFINE t == Ending(s, <<>>)
    <3>1. Step(id, t) /\ s.selfStopped
      BY <1>8, <2>2, <2>5 DEF DeletesUdp
    <3>2. t.ending = <<>> \o Tail(s.ending) /\ t.timerRun = s.timerRun
      BY <1>1 DEF IsSession, SessionObject, Ending
    <3>3. IsSession(t) /\ t.selfStopped
      BY <1>1, <3>1, <3>2, EndingIs DEF IsSession, SessionObject, Ending
    <3>4. t.ending # <<>> /\ t.ending[Len(t.ending)] = "free"
      BY <1>1, <2>1, <3>2, DropEnd DEF IsSession, SessionObject, EndsWell, IsFreed
    <3> HIDE DEF t
    <3>5. EndsWell(t)
      BY <3>3, <3>4 DEF EndsWell, IsFreed
    <3>6. QED BY <2>3, <3>1, <3>5, OneEndsWell DEF Step
  <2>6. QED BY <2>4, <2>5
<1>9. CASE Frees(id)
  BY <1>9 DEF Frees, Step, SessionsEndWell, Exists, SessionsOutliveTheirThreads, IInv, Typed
<1>10. QED BY <1>3, <1>4, <1>5, <1>6, <1>7, <1>8, <1>9 DEF DeletionSteps

LEMMA DestructorSteps ==
  /\ Destructors \in Seq(EndingSteps) /\ Destructors # <<>> /\ Destructors[Len(Destructors)] = "free"
  /\ LET d == <<"error">> \o Destructors
     IN d \in Seq(EndingSteps) /\ d # <<>> /\ d[Len(d)] = "free"
<1> DEFINE d == <<"error">> \o Destructors
<1>1. /\ Destructors \in Seq(EndingSteps) /\ <<"error">> \in Seq(EndingSteps)
      /\ Len(Destructors) = 4 /\ Destructors[4] = "free" /\ Len(<<"error">>) = 1
  BY DEF Destructors, EndingSteps
<1>2. /\ d \in Seq(EndingSteps) /\ Len(d) = Len(<<"error">>) + Len(Destructors)
      /\ \A i \in 1..(Len(<<"error">>) + Len(Destructors)) :
           d[i] = IF i <= Len(<<"error">>) THEN <<"error">>[i] ELSE Destructors[i - Len(<<"error">>)]
  BY <1>1, ConcatProperties
<1> HIDE DEF d
<1>3. Len(d) = 5 /\ d[5] = "free" /\ Len(<<>>) = 0
  <2>1. \A i \in 1..5 : d[i] = IF i <= 1 THEN <<"error">>[i] ELSE Destructors[i - 1]
    BY <1>1, <1>2
  <2>2. 5 \in 1..5 /\ ~(5 <= 1) /\ 5 - 1 = 4
    OBVIOUS
  <2>3. QED BY <1>1, <1>2, <2>1, <2>2
<1>4. d # <<>>
  BY <1>3
<1>5. Destructors # <<>>
  BY DEF Destructors
<1>6. QED BY <1>1, <1>2, <1>3, <1>4, <1>5 DEF d

\* The deletion begins with a session that nobody deletes yet.
LEMMA BeginsWell ==
  ASSUME NEW s, NEW d \in Seq(EndingSteps), NEW state \in {"error", "disconnected"}, EndsWell(s), s.ending = <<>>,
         d # <<>>, d[Len(d)] = "free"
  PROVE  EndsWell(SetState([s EXCEPT !.ending = d], state))
<1> DEFINE t == SetState([s EXCEPT !.ending = d], state)
<1>1. ~s.selfStopped => (s.timerRun \/ s.timer = "ended") /\ s.state # state
  BY DEF EndsWell, TimerIsJoined, StoppedByDeletion
<1>2. <<"stopTimer", "stopConsumer">> \o d \in Seq(EndingSteps)
  <2>1. <<"stopTimer", "stopConsumer">> \in Seq(EndingSteps)
    BY DEF EndingSteps
  <2>2. QED BY <2>1, ConcatProperties
<1>3. /\ t.ending = IF s.state = state THEN d ELSE <<"stopTimer", "stopConsumer">> \o d
      /\ t.timerRun = s.timerRun
  BY DEF EndsWell, IsSession, SessionObject, SetState
<1>4. t.ending \in Seq(EndingSteps)
  BY <1>2, <1>3
<1>5. SameThreads(s, t)
  BY <1>4 DEF EndsWell, IsSession, SessionObject, SetState, SameThreads
<1> HIDE DEF t
<1>6. EndsWell(t)
  <2>1. CASE s.state = state
    <3>1. s.selfStopped /\ t.selfStopped /\ t.ending = d
      BY <1>1, <1>3, <1>5, <2>1 DEF SameThreads
    <3>2. QED BY <1>5, <3>1 DEF EndsWell, IsFreed, SameThreads
  <2>2. CASE s.state # state
    <3>1. t.ending = <<"stopTimer", "stopConsumer">> \o d
      BY <1>3, <2>2
    <3>2. QED BY <1>1, <1>3, <1>5, <3>1, StopsFirst
  <2>3. QED BY <2>1, <2>2
<1>7. QED BY <1>6 DEF t

\* The cleanup and the console begin deletions; a hello makes a session.
LEMMA OthersEndWell ==
  ASSUME IInv, SessionsEndWell, ClientsExist, SessionsOutliveTheirThreads,
         \/ \E id \in ClientId : Pops(id)
         \/ MainSteps \/ WakesUp \/ CleanerSteps \/ Stops \/ ConsoleSteps
  PROVE  SessionsEndWell' /\ SessionsOutliveTheirThreads' /\ StillExist
<1>1. CASE UNCHANGED sessions /\ SessionsOutliveTheirThreads'
  BY <1>1 DEF SessionsEndWell, StillExist, Exists
<1>2. ASSUME NEW id \in ClientId, VisitsSession(id), ~UNCHANGED sessions
      PROVE  SessionsEndWell' /\ SessionsOutliveTheirThreads' /\ StillExist
  <2>1. /\ sessions' = [sessions EXCEPT ![id] =
                          SetState([sessions[id] EXCEPT !.ending = Destructors], "error")]
        /\ misuse' = misuse
    BY <1>2 DEF VisitsSession
  <2>2. /\ console \notin {"deletes", "stopped"} /\ cleaner.at # "session"
        /\ id \in objects[cleaner.user].clients /\ cleaner.user \in DOMAIN objects
    BY <1>2 DEF VisitsSession, IInv, CleanerIsSafe
  <2>3. EndsWell(sessions[id]) /\ sessions[id].ending = <<>>
    <3>1. IsRecord(sessions[id]) /\ sessions[id].user = cleaner.user
      BY <2>2 DEF IInv, ClientsAreSessions
    <3>2. Exists(id)
      BY <2>2 DEF ClientsExist
    <3>3. QED BY <2>2, <3>2 DEF SessionsEndWell, IInv, CleanerDeletes, IsDeleted
  <2>4. EndsWell(SetState([sessions[id] EXCEPT !.ending = Destructors], "error"))
    BY <2>3, BeginsWell, DestructorSteps
  <2>5. QED BY <2>1, <2>4, OneEndsWell DEF SessionsOutliveTheirThreads
<1>3. ASSUME NEW id \in ClientId, DeletesSession(id)
      PROVE  SessionsEndWell' /\ SessionsOutliveTheirThreads' /\ StillExist
  <2> DEFINE d == <<"error">> \o Destructors
  <2>1. sessions' = [sessions EXCEPT ![id] = SetState([sessions[id] EXCEPT !.ending = d], "disconnected")]
    BY <1>3 DEF DeletesSession
  <2>2. Exists(id) /\ ~IsDeleted(id)
    <3>1. PICK o \in UserObjects : id \in objects[o].clients
      BY <1>3 DEF DeletesSession
    <3>2. o \in DOMAIN objects
      BY DEF UserObjects, IInv, MapIsLive, Live
    <3>3. QED BY <1>3, <3>1, <3>2 DEF DeletesSession, ClientsExist
  <2>3. EndsWell(sessions[id]) /\ sessions[id].ending = <<>>
    BY <2>2 DEF SessionsEndWell, IsDeleted
  <2>4. EndsWell(SetState([sessions[id] EXCEPT !.ending = d], "disconnected"))
    <3>1. d \in Seq(EndingSteps) /\ d # <<>> /\ d[Len(d)] = "free"
      BY DestructorSteps
    <3> HIDE DEF d
    <3>2. QED BY <2>3, <3>1, BeginsWell
  <2>5. SessionsOutliveTheirThreads'
    BY <1>3, NoSessionIsUsed DEF DeletesSession
  <2> HIDE DEF d
  <2>6. QED BY <2>1, <2>4, <2>5, OneEndsWell
<1>4. CASE FindsClient
  <2>1. SessionsOutliveTheirThreads'
    BY <1>4, NoSessionIsUsed DEF FindsClient
  <2>2. CASE UNCHANGED sessions
    BY <1>1, <2>1, <2>2
  <2>3. CASE sessions' = [sessions EXCEPT ![main.id] = NewSession(main.user)]
    <3>1. main.id \in ClientId
      BY <1>4 DEF FindsClient, IInv, MainIsSafe, Typed
    <3>2. EndsWell(NewSession(main.user))
      <4>1. main.user \in Nat
        BY <1>4 DEF FindsClient, IInv, MainIsSafe, Live, Typed
      <4>2. NewSession(main.user) \in SessionObject
        BY <4>1 DEF NewSession, SessionObject, EndingSteps
      <4>3. Len(<<>>) = 0 /\ \A i \in 1..0 : FALSE
        OBVIOUS
      <4>4. QED BY <4>2, <4>3 DEF NewSession, EndsWell, IsSession, IsFreed, Awaits, TimerIsJoined, StoppedByDeletion
    <3>3. QED BY <2>1, <2>3, <3>1, <3>2, OneEndsWell
  <2>4. QED BY <1>4, <2>2, <2>3 DEF FindsClient
<1>5. CASE WakesUp \/ Stops \/ (\E id \in ClientId : Pops(id))
  BY <1>1, <1>5 DEF WakesUp, Stops, Pops, SessionsOutliveTheirThreads
<1>6. CASE MainSteps /\ ~FindsClient /\ ~AwaitsClientAuth
  BY <1>1, <1>6, NoSessionIsUsed
     DEF MainSteps, MainEnds, FindsUser, ReadsUser, AddsUser, AddsClient, PrintsClient, SessionsOutliveTheirThreads
<1>7. CASE CleanerSteps /\ ~(\E id \in ClientId : VisitsSession(id))
  BY <1>1, <1>7, NoSessionIsUsed
     DEF CleanerSteps, VisitsUser, LeavesSession, LeavesUser, EndsTick, SessionsOutliveTheirThreads
<1>8. CASE ConsoleSteps /\ ~(\E id \in ClientId : DeletesSession(id))
  BY <1>1, <1>8, NoSessionIsUsed
     DEF ConsoleSteps, JoinsCleaner, JoinsMain, Locks, DeletesUser, IsStopped, SessionsOutliveTheirThreads
<1>9. CASE \E id \in ClientId : VisitsSession(id) /\ UNCHANGED sessions
  BY <1>1, <1>9 DEF VisitsSession, SessionsOutliveTheirThreads
<1>10. CASE AwaitsClientAuth
  <2> DEFINE s == sessions[main.id]
             t == [s EXCEPT !.state = "auth", !.timerRun = TRUE, !.timer = "loops"]
  <2>1. /\ main.id \in ClientId /\ Exists(main.id) /\ s.ending = <<>>
        /\ sessions' = [sessions EXCEPT ![main.id] = t] /\ UNCHANGED misuse
    BY <1>10 DEF AwaitsClientAuth, IInv, MainIsSafe, Typed, ClientsExist
  <2>2. EndsWell(s) /\ IsSession(s)
    BY <2>1 DEF SessionsEndWell, EndsWell
  <2>3. IsSession(t) /\ t.ending = <<>> /\ t.timerRun /\ t.state = "auth"
    BY <2>1, <2>2 DEF IsSession, SessionObject
  <2> HIDE DEF s, t
  <2>4. Len(<<>>) = 0 /\ \A i \in 1..0 : FALSE
    OBVIOUS
  <2>5. EndsWell(t)
    BY <2>3, <2>4 DEF EndsWell, IsFreed, Awaits, TimerIsJoined, StoppedByDeletion
  <2>6. QED BY <2>1, <2>5, OneEndsWell DEF SessionsOutliveTheirThreads
<1>11. QED BY <1>2, <1>3, <1>4, <1>5, <1>6, <1>7, <1>8, <1>9, <1>10

-----------------------------------------------------------------------------
(* The lists of sessions and the map of users *)

\* The steps that change who is alive and whose sessions a user has.
LEMMA ObjectChanges ==
  ASSUME IInv, Next
  PROVE  \/ ObjectsKept /\ UNCHANGED users
         \/ AddsUser \/ AddsClient
         \/ \E id \in ClientId : Frees(id)
         \/ \E u \in User : DeletesUser(u)
<1>1. Typed
  BY DEF IInv
<1>2. CASE UNCHANGED <<objects, users>>
  BY <1>1, <1>2, UnchangedKept
<1>3. ASSUME NEW id \in ClientId, NEW isPart \in BOOLEAN, Uploads(id, isPart)
      PROVE  ObjectsKept /\ UNCHANGED users
  <2> DEFINE o == sessions[id].user
             l == objects[o].listed \cup (objects[o].toDo \ {id})
             r == [objects[o] EXCEPT !.listed = l]
  <2>1. Live(o)
    BY <1>3 DEF IInv, SessionsAreSafe, Uploads
  <2>2. objects[o] \in UserObject
    BY <1>1, <2>1 DEF Typed, Live
  <2>3. r \in UserObject /\ r.live = objects[o].live /\ r.clients = objects[o].clients
    BY <2>2 DEF UserObject
  <2>4. objects' = [objects EXCEPT ![o] = r] /\ UNCHANGED users
    BY <1>3 DEF Uploads, Step
  <2>5. QED BY <1>1, <2>1, <2>3, <2>4, OneKept
<1>4. ASSUME NEW u \in User, VisitsUser(u) PROVE ObjectsKept /\ UNCHANGED users
  <2> DEFINE o == users[u]
             r == [objects[o] EXCEPT !.mutex = "cleaner"]
  <2>1. Live(o)
    BY <1>4 DEF IInv, CleanerIsSafe, MapIsLive, VisitsUser
  <2>2. objects[o] \in UserObject
    BY <1>1, <2>1 DEF Typed, Live
  <2>3. r \in UserObject /\ r.live = objects[o].live /\ r.clients = objects[o].clients
    BY <2>2 DEF UserObject
  <2>4. objects' = [objects EXCEPT ![o] = r] /\ UNCHANGED users
    BY <1>4 DEF VisitsUser
  <2>5. QED BY <1>1, <2>1, <2>3, <2>4, OneKept
<1>5. ASSUME LeavesUser PROVE ObjectsKept /\ UNCHANGED users
  <2> DEFINE o == cleaner.user
             r == [objects[o] EXCEPT !.mutex = "free"]
  <2>1. o \in DOMAIN objects
    BY <1>5 DEF IInv, CleanerIsSafe, LeavesUser
  <2>2. objects[o] \in UserObject
    BY <1>1, <2>1 DEF Typed
  <2>3. r \in UserObject /\ r.live = objects[o].live /\ r.clients = objects[o].clients
    BY <2>2 DEF UserObject
  <2>4. objects' = [objects EXCEPT ![o] = r] /\ UNCHANGED users
    BY <1>5 DEF LeavesUser
  <2>5. QED BY <1>1, <2>1, <2>3, <2>4, Removed DEF ObjectsKept
<1>6. ASSUME NEW id \in ClientId, DeletionSteps(id) PROVE UNCHANGED <<objects, users>> \/ Frees(id)
  BY <1>6 DEF DeletionSteps, StopsTimer, JoinsTimer, StopsConsumer, JoinsConsumer, EntersError, DeletesUdp, Step
<1>7. ASSUME NEW id \in ClientId, Handles(id) \/ ConsumerSteps(id)
      PROVE  UNCHANGED <<objects, users>> \/ \E isPart \in BOOLEAN : Uploads(id, isPart)
  BY <1>7 DEF Handles, ConsumerSteps, Answers, Fails, FailsOn, ConsumerEnds, Step
<1>8. ASSUME NEW id \in ClientId, Pops(id) \/ Ticks(id) \/ GivesUp(id) \/ TimerSteps(id)
      PROVE  UNCHANGED <<objects, users>>
  BY <1>8 DEF Pops, Ticks, GivesUp, TimerSteps, Pings, SendsChanges, StartsAgain, GivesUpOn, TimerEnds, Step
<1>9. ASSUME MainSteps PROVE UNCHANGED <<objects, users>> \/ AddsUser \/ AddsClient
  BY <1>9 DEF MainSteps, MainEnds, FindsUser, ReadsUser, FindsClient, AwaitsClientAuth, PrintsClient
<1>10. ASSUME WakesUp \/ Stops PROVE UNCHANGED <<objects, users>>
  BY <1>10 DEF WakesUp, Stops
<1>11. ASSUME CleanerSteps
       PROVE  UNCHANGED <<objects, users>> \/ (\E u \in User : VisitsUser(u)) \/ LeavesUser
  BY <1>11 DEF CleanerSteps, VisitsSession, LeavesSession, EndsTick
<1>12. ASSUME ConsoleSteps PROVE UNCHANGED <<objects, users>> \/ \E u \in User : DeletesUser(u)
  BY <1>12 DEF ConsoleSteps, JoinsCleaner, JoinsMain, Locks, DeletesSession, IsStopped
<1>13. QED BY <1>2, <1>3, <1>4, <1>5, <1>6, <1>7, <1>8, <1>9, <1>10, <1>11, <1>12 DEF Next

\* Where the consumer may get to in a step.
LEMMA MainGoesOn ==
  ASSUME IInv, Next
  PROVE  /\ main'.at \in {"clientHello", "addClient"} => UNCHANGED main \/ FindsClient \/ AwaitsClientAuth
         /\ main'.at = "addUser" => UNCHANGED main \/ FindsUser
         /\ console' = "stopped" => UNCHANGED console \/ IsStopped
<1>1. main = [at |-> main.at, id |-> main.id, user |-> main.user]
  BY DEF IInv, Typed
<1>2. CASE MainSteps
  <2>1. UNCHANGED console
    BY <1>2 DEF MainSteps, MainEnds, FindsUser, ReadsUser, AddsUser, FindsClient, AwaitsClientAuth,
                AddsClient, PrintsClient
  <2>2. CASE MainEnds
    <3>1. main'.at = "ended"
      BY <1>1, <2>2 DEF MainEnds
    <3>2. QED BY <2>1, <3>1
  <2>3. CASE FindsUser
    <3>1. main'.at \in {"addUser", "found"}
      BY <1>1, <2>3 DEF FindsUser
    <3>2. QED BY <2>1, <2>3, <3>1
  <2>4. CASE ReadsUser \/ AddsUser
    <3>1. main'.at = "findClient"
      BY <1>1, <2>4 DEF ReadsUser, AddsUser
    <3>2. QED BY <2>1, <3>1
  <2>5. CASE FindsClient
    <3>1. main'.at \in {"decline", "clientHello"}
      BY <1>1, <2>5 DEF FindsClient
    <3>2. QED BY <2>1, <2>5, <3>1
  <2>6. CASE AddsClient \/ PrintsClient
    <3>1. CASE AddsClient
      <4>1. main' = [main EXCEPT !.at = "added"]
        BY <3>1 DEF AddsClient
      <4>2. main'.at = "added"
        BY <1>1, <4>1
      <4>3. QED BY <2>1, <4>2
    <3>2. CASE PrintsClient
      <4>1. main'.at = "pop"
        BY <3>2 DEF PrintsClient
      <4>2. QED BY <2>1, <4>1
    <3>3. QED BY <2>6, <3>1, <3>2
  <2>7. CASE AwaitsClientAuth
    <3>1. main'.at = "addClient"
      BY <1>1, <2>7 DEF AwaitsClientAuth
    <3>2. QED BY <2>1, <2>7, <3>1
  <2>8. QED BY <1>2, <2>2, <2>3, <2>4, <2>5, <2>6, <2>7 DEF MainSteps
<1>3. CASE \E id \in ClientId : Pops(id)
  <2>1. main'.at = "getUser" /\ UNCHANGED console
    BY <1>1, <1>3 DEF Pops
  <2>2. QED BY <2>1
<1>4. CASE ConsoleSteps \/ Stops \/ WakesUp \/ CleanerSteps
  BY <1>4 DEF ConsoleSteps, JoinsCleaner, JoinsMain, Locks, DeletesSession, DeletesUser, IsStopped, Stops, WakesUp,
              CleanerSteps, VisitsUser, VisitsSession, LeavesSession, LeavesUser, EndsTick
<1>5. CASE \E id \in ClientId : Handles(id) \/ Ticks(id) \/ GivesUp(id) \/ ConsumerSteps(id) \/ TimerSteps(id)
                                  \/ DeletionSteps(id)
  <2>1. UNCHANGED <<main, console>>
    BY <1>5 DEF Handles, Ticks, GivesUp, ConsumerSteps, Answers, Uploads, Fails, FailsOn, ConsumerEnds,
                TimerSteps, Pings, SendsChanges, StartsAgain, GivesUpOn, TimerEnds, DeletionSteps, StopsTimer,
                JoinsTimer, StopsConsumer, JoinsConsumer, EntersError, DeletesUdp, Frees, Step
  <2>2. QED BY <2>1
<1>6. QED BY <1>2, <1>3, <1>4, <1>5 DEF Next

LEMMA UserAdded ==
  ASSUME IInv, AddsUser
  PROVE  LET n == Len(objects) + 1
         IN /\ DOMAIN objects' = DOMAIN objects \cup {n} /\ n # 0 /\ n \notin DOMAIN objects
            /\ objects'[n] = NewUser /\ \A o \in DOMAIN objects : objects'[o] = objects[o]
            /\ users' = IF UserOf[main.id] \in Known THEN [users EXCEPT ![UserOf[main.id]] = n] ELSE users
            /\ main.at = "addUser" /\ UNCHANGED <<sessions, console>>
BY DEF IInv, Typed, AddsUser

LEMMA ClientAdded ==
  ASSUME IInv, AddsClient
  PROVE  /\ main.at = "addClient" /\ main.user \in DOMAIN objects /\ DOMAIN objects' = DOMAIN objects
         /\ \A o \in DOMAIN objects :
              /\ objects'[o].live = objects[o].live
              /\ objects'[o].clients \subseteq objects[o].clients \cup {main.id}
         /\ UNCHANGED <<sessions, users, console>>
<1> DEFINE o == main.user
           r == [objects[o] EXCEPT !.clients = @ \cup {main.id}, !.toDo = @ \cup {main.id}]
<1>1. Live(o) /\ main.id \in ClientId /\ main.at = "addClient"
  BY DEF IInv, MainIsSafe, AddsClient, Typed
<1>2. objects[o] \in UserObject
  BY <1>1 DEF IInv, Typed, Live
<1>3. r \in UserObject /\ r.live = objects[o].live /\ r.clients = objects[o].clients \cup {main.id}
  BY <1>1, <1>2 DEF UserObject
<1>4. objects' = [objects EXCEPT ![o] = r] /\ UNCHANGED <<sessions, users, console>>
  BY DEF AddsClient
<1>5. /\ DOMAIN objects' = DOMAIN objects /\ objects'[o] = r
      /\ \A p \in DOMAIN objects : p # o => objects'[p] = objects[p]
  BY <1>1, <1>3, <1>4, Removed DEF IInv, Live
<1> HIDE DEF r
<1>6. QED BY <1>1, <1>3, <1>4, <1>5 DEF Live

LEMMA SessionFreed ==
  ASSUME NEW id \in ClientId, IInv, Frees(id)
  PROVE  /\ DOMAIN objects' = DOMAIN objects /\ UNCHANGED <<users, main, console>>
         /\ \A o \in DOMAIN objects :
              /\ objects'[o].live = objects[o].live
              /\ objects'[o].clients \subseteq objects[o].clients
              /\ id \notin objects'[o].clients
         /\ main.at \in {"clientHello", "addClient"} => main.id # id
         /\ \A i \in ClientId : i # id => sessions'[i] = sessions[i]
<1> DEFINE o == sessions[id].user
           r == [objects[o] EXCEPT !.clients = @ \ {id}]
<1>1. Live(o) /\ id \in objects[o].clients
  BY DEF Frees, NextStep, IsDeleted, IInv, SessionsAreSafe
<1>2. objects[o] \in UserObject
  BY <1>1 DEF IInv, Typed, Live
<1>3. r \in UserObject /\ r.live = objects[o].live /\ r.clients = objects[o].clients \ {id}
  BY <1>2 DEF UserObject
<1>4. /\ objects' = [objects EXCEPT ![o] = r] /\ UNCHANGED <<users, main, console>>
      /\ sessions' = [sessions EXCEPT ![id] = NoSession]
  BY DEF Frees, Step
<1>5. /\ DOMAIN objects' = DOMAIN objects /\ objects'[o] = r
      /\ \A p \in DOMAIN objects : p # o => objects'[p] = objects[p]
  BY <1>1, <1>3, <1>4, Removed DEF IInv, Live
<1>6. \A p \in DOMAIN objects : id \in objects[p].clients => p = o
  BY DEF IInv, ClientsAreSessions
<1>7. main.at \in {"clientHello", "addClient"} => main.id # id
  <2>1. sessions[id].ending # <<>>
    BY DEF Frees, NextStep, IsDeleted
  <2>2. QED BY <2>1 DEF IInv, MainIsSafe
<1>8. \A i \in ClientId : i # id => sessions'[i] = sessions[i]
  BY <1>4 DEF IInv, Typed
<1> HIDE DEF o, r
<1>9. QED BY <1>3, <1>4, <1>5, <1>6, <1>7, <1>8

LEMMA UserDeleted ==
  ASSUME NEW u \in User, IInv, DeletesUser(u)
  PROVE  /\ DOMAIN objects' = DOMAIN objects /\ users[u] \in DOMAIN objects
         /\ UNCHANGED <<sessions, main, console>> /\ console = "deletes" /\ main.at = "ended"
         /\ objects'[users[u]].live = FALSE
         /\ \A o \in DOMAIN objects : /\ objects'[o].clients = objects[o].clients
                                      /\ o # users[u] => objects'[o] = objects[o]
         /\ \A v \in User : v # u => users'[v] = users[v]
         /\ users'[u] = 0
<1> DEFINE o == users[u]
           r == [objects[o] EXCEPT !.live = FALSE]
<1>1. Live(o) /\ console = "deletes" /\ main.at = "ended"
  BY DEF DeletesUser, IInv, MapIsLive, MainIsSafe
<1>2. objects[o] \in UserObject
  BY <1>1 DEF IInv, Typed, Live
<1>3. r \in UserObject /\ r.live = FALSE /\ r.clients = objects[o].clients
  BY <1>2 DEF UserObject
<1>4. PICK p : p = o
  OBVIOUS
<1>5. /\ objects' = [objects EXCEPT ![p] = r] /\ users' = [users EXCEPT ![u] = 0]
      /\ UNCHANGED <<sessions, main, console>>
  BY <1>4 DEF DeletesUser
<1>6. /\ DOMAIN objects' = DOMAIN objects /\ objects'[p] = r
      /\ \A q \in DOMAIN objects : q # p => objects'[q] = objects[q]
  BY <1>1, <1>3, <1>4, <1>5, Removed DEF IInv, Live
<1>7. users'[u] = 0 /\ \A v \in User : v # u => users'[v] = users[v]
  BY <1>5 DEF IInv, Typed
<1> HIDE DEF r
<1>8. QED BY <1>1, <1>3, <1>4, <1>5, <1>6, <1>7 DEF Live

-----------------------------------------------------------------------------
LEMMA SessionSteps ==
  ASSUME IInv, SessionsEndWell, ClientsExist, SessionsOutliveTheirThreads, Next
  PROVE  /\ SessionsEndWell' /\ SessionsOutliveTheirThreads'
         /\ StillExist \/ \E id \in ClientId : Frees(id)
<1>1. CASE \E id \in ClientId : Handles(id) \/ ConsumerSteps(id)
  BY <1>1, ConsumerEndsWell
<1>2. CASE \E id \in ClientId : Ticks(id) \/ GivesUp(id) \/ TimerSteps(id)
  BY <1>2, TimerEndsWell
<1>3. CASE \E id \in ClientId : DeletionSteps(id)
  BY <1>3, DeletionEndsWell
<1>4. CASE \/ \E id \in ClientId : Pops(id)
           \/ MainSteps \/ WakesUp \/ CleanerSteps \/ Stops \/ ConsoleSteps
  BY <1>4, OthersEndWell
<1>5. QED BY <1>1, <1>2, <1>3, <1>4 DEF Next

LEMMA ClientsStillExist ==
  ASSUME IInv, SessionsEndWell, ClientsExist, SessionsOutliveTheirThreads, Next
  PROVE  ClientsExist'
<1>1. \A o \in DOMAIN objects : \A id \in objects[o].clients : id \in ClientId /\ Exists(id)
  BY DEF IInv, ClientsAreSessions, Typed, ClientsExist
<1>2. main.at \in {"clientHello", "addClient"} => main.id \in ClientId /\ Exists(main.id)
  BY DEF IInv, MainIsSafe, Typed, ClientsExist
<1>3. \/ \E id \in ClientId : Frees(id)
      \/ main'.at \in {"clientHello", "addClient"} => Exists(main.id)'
  <2>1. CASE FindsClient /\ main'.at \in {"clientHello", "addClient"}
    <3>1. main.id \in ClientId /\ main' = [main EXCEPT !.at = main'.at] /\ main.user \in Nat
      BY <2>1 DEF FindsClient, IInv, MainIsSafe, Typed, Live
    <3>2. main'.id = main.id
      BY <3>1 DEF IInv, Typed
    <3>3. sessions'[main.id] = NewSession(main.user)
      <4>1. main' # [main EXCEPT !.at = "decline"]
        BY <2>1 DEF IInv, Typed
      <4>2. QED BY <2>1, <3>1, <4>1 DEF FindsClient, IInv, Typed
    <3>4. NewSession(main.user) \in SessionObject
      BY <3>1 DEF NewSession, SessionObject, EndingSteps
    <3>5. QED BY <3>2, <3>3, <3>4, NoSessionAssumption DEF Exists
  <2>2. CASE UNCHANGED main
    BY <1>2, <2>2, SessionSteps DEF StillExist, Exists
  <2>3. CASE AwaitsClientAuth
    <3>1. main'.id = main.id /\ main.at = "clientHello"
      BY <2>3 DEF AwaitsClientAuth, IInv, Typed
    <3>2. QED BY <1>2, <3>1, SessionSteps DEF StillExist, Exists
  <2>4. QED BY <2>1, <2>2, <2>3, MainGoesOn
<1>4. CASE ObjectsKept /\ UNCHANGED users /\ ~(\E id \in ClientId : Frees(id))
  BY <1>1, <1>3, <1>4, SessionSteps DEF ObjectsKept, ClientsExist, StillExist, Exists
<1>5. CASE AddsUser /\ ~(\E id \in ClientId : Frees(id))
  BY <1>1, <1>3, <1>5, UserAdded DEF ClientsExist, Exists, NewUser
<1>6. CASE AddsClient /\ ~(\E id \in ClientId : Frees(id))
  <2>1. \A o \in DOMAIN objects' : \A id \in objects'[o].clients : sessions[id] # NoSession
    BY <1>1, <1>2, <1>6, ClientAdded DEF Exists
  <2>2. UNCHANGED sessions
    BY <1>6, ClientAdded
  <2>3. main'.at \in {"clientHello", "addClient"} => sessions'[main'.id] # NoSession
    BY <1>3, <1>6 DEF Exists
  <2>4. QED BY <2>1, <2>2, <2>3 DEF ClientsExist, Exists
<1>7. ASSUME NEW id \in ClientId, Frees(id) PROVE ClientsExist'
  <2>1. /\ DOMAIN objects' = DOMAIN objects /\ UNCHANGED main
        /\ \A o \in DOMAIN objects : /\ objects'[o].clients \subseteq objects[o].clients
                                      /\ id \notin objects'[o].clients
        /\ main.at \in {"clientHello", "addClient"} => main.id # id
        /\ \A i \in ClientId : i # id => sessions'[i] = sessions[i]
    BY <1>7, SessionFreed
  <2>2. ASSUME NEW o \in DOMAIN objects', NEW i \in objects'[o].clients
        PROVE  sessions'[i] # NoSession
    BY <1>1, <2>1, <2>2 DEF Exists
  <2>3. main'.at \in {"clientHello", "addClient"} => sessions'[main'.id] # NoSession
    BY <1>2, <2>1 DEF Exists
  <2>4. QED BY <2>2, <2>3 DEF ClientsExist, Exists
<1>8. CASE (\E u \in User : DeletesUser(u)) /\ ~(\E id \in ClientId : Frees(id))
  BY <1>1, <1>3, <1>8, UserDeleted DEF ClientsExist, Exists
<1>9. QED BY <1>4, <1>5, <1>6, <1>7, <1>8, ObjectChanges

\* With every name in the UserStore, each object is held by the map until its
\* user is deleted.
LEMMA UsersStillHeld ==
  ASSUME \A id \in ClientId : UserOf[id] \in Known, ServerThreadsAssumption, IInv, UsersAreHeld, Next
  PROVE  UsersAreHeld'
<1>1. \A o \in DOMAIN objects : objects[o].live => \E u \in User : users[u] = o /\ o # 0
  BY DEF UsersAreHeld, UserObjects
<1>2. ASSUME ObjectsKept, UNCHANGED users PROVE UsersAreHeld'
  <2>1. (\A o \in DOMAIN objects : objects[o].live => o \in UserObjects)'
    BY <1>2 DEF UsersAreHeld, UserObjects, ObjectsKept
  <2>2. main'.at = "addUser" => users'[UserOf[main'.id]] = 0
    <3>1. CASE UNCHANGED main
      BY <1>2, <3>1 DEF UsersAreHeld
    <3>2. CASE FindsUser
      <4>1. main'.id = main.id
        BY <3>2 DEF FindsUser, IInv, Typed
      <4>2. main'.at = IF users[UserOf[main.id]] = 0 THEN "addUser" ELSE "found"
        BY <3>2 DEF FindsUser, IInv, Typed
      <4>3. QED BY <1>2, <4>1, <4>2
    <3>3. QED BY <3>1, <3>2, MainGoesOn
  <2>3. console' = "stopped" => UserObjects' = {}
    <3>1. UserObjects' = UserObjects
      BY <1>2 DEF UserObjects
    <3>2. QED BY <3>1, MainGoesOn DEF UsersAreHeld, IsStopped
  <2>4. QED BY <2>1, <2>2, <2>3 DEF UsersAreHeld
<1>3. CASE AddsUser
  <2> DEFINE u == UserOf[main.id]
             n == Len(objects) + 1
  <2>1. /\ main.at = "addUser" /\ u \in User /\ users[u] = 0 /\ console # "stopped" /\ u \in Known
        /\ main.id \in ClientId
    BY <1>3, UserAdded DEF IInv, MainIsSafe, Typed, ServerThreadsAssumption, UsersAreHeld
  <2>2. /\ users' = [users EXCEPT ![u] = n] /\ UNCHANGED console
        /\ DOMAIN objects' = DOMAIN objects \cup {n} /\ n # 0
        /\ \A o \in DOMAIN objects : objects'[o] = objects[o]
    BY <1>3, <2>1, UserAdded
  <2>3. main'.at = "findClient"
    BY <1>3 DEF AddsUser, IInv, Typed
  <2> HIDE DEF u, n
  <2>4. users'[u] = n /\ \A v \in User : v # u => users'[v] = users[v]
    BY <2>1, <2>2 DEF IInv, Typed
  <2>5. \A o \in DOMAIN objects' : objects'[o].live => \E v \in User : users'[v] = o /\ o # 0
    BY <1>1, <2>1, <2>2, <2>4
  <2>6. QED BY <2>1, <2>2, <2>3, <2>5 DEF UsersAreHeld, UserObjects
<1>4. CASE AddsClient
  <2>1. main' = [main EXCEPT !.at = "added"] /\ UNCHANGED <<users, console>>
    BY <1>4 DEF AddsClient
  <2>2. main'.at = "added"
    BY <2>1 DEF IInv, Typed
  <2>3. /\ DOMAIN objects' = DOMAIN objects
        /\ \A o \in DOMAIN objects : objects'[o].live = objects[o].live
    BY <1>4, ClientAdded
  <2>4. UserObjects' = UserObjects
    BY <2>1 DEF UserObjects
  <2>5. QED BY <2>1, <2>2, <2>3, <2>4 DEF UsersAreHeld, IsStopped
<1>5. ASSUME NEW id \in ClientId, Frees(id) PROVE UsersAreHeld'
  <2>1. /\ DOMAIN objects' = DOMAIN objects /\ UNCHANGED <<users, main, console>>
        /\ \A o \in DOMAIN objects : objects'[o].live = objects[o].live
    BY <1>5, SessionFreed
  <2>2. UserObjects' = UserObjects
    BY <2>1 DEF UserObjects
  <2>3. QED BY <2>1, <2>2 DEF UsersAreHeld
<1>6. ASSUME NEW u \in User, DeletesUser(u) PROVE UsersAreHeld'
  <2>1. main'.at = "ended" /\ console' = "deletes"
    BY <1>6, UserDeleted
  <2>2. ASSUME NEW o \in DOMAIN objects', objects'[o].live
        PROVE  \E v \in User : users'[v] = o /\ o # 0
    <3>1. o \in DOMAIN objects /\ o # users[u] /\ objects[o].live
      BY <1>6, <2>2, UserDeleted
    <3>2. PICK v \in User : users[v] = o /\ o # 0
      BY <1>1, <3>1
    <3>3. v # u /\ users'[v] = users[v]
      BY <1>6, <3>1, <3>2, UserDeleted
    <3>4. QED BY <3>2, <3>3
  <2>3. QED BY <2>1, <2>2 DEF UsersAreHeld, UserObjects
<1>7. QED BY <1>2, <1>3, <1>4, <1>5, <1>6, ObjectChanges

-----------------------------------------------------------------------------
ThreadsInv == IInv /\ SessionsEndWell /\ ClientsExist /\ SessionsOutliveTheirThreads

LEMMA InitThreads == Init => ThreadsInv
BY InitSafe DEF Init, ThreadsInv, SessionsEndWell, ClientsExist, SessionsOutliveTheirThreads, Exists

LEMMA NextThreads == ServerThreadsAssumption /\ ThreadsInv /\ [Next]_vars => ThreadsInv'
<1> SUFFICES ASSUME ServerThreadsAssumption, ThreadsInv, [Next]_vars
             PROVE  ThreadsInv'
  OBVIOUS
<1>1. IInv'
  BY NextSafe DEF ThreadsInv
<1>2. CASE UNCHANGED vars
  BY <1>1, <1>2 DEF vars, ThreadsInv, SessionsEndWell, ClientsExist, SessionsOutliveTheirThreads, Exists
<1>3. CASE Next
  BY <1>1, <1>3, SessionSteps, ClientsStillExist DEF ThreadsInv
<1>4. QED BY <1>2, <1>3

\* The objects of a session outlive its two threads, for any number of clients and
\* users, if neither thread has stopped the session itself: whatever the cleanup
\* and stop() interrupt, each thread has ended when udpServer is deleted, or a stop
\* that waits for it comes first.
THEOREM ThreadsEndFirst == Spec => []SessionsOutliveTheirThreads
<1>1. ThreadsInv => SessionsOutliveTheirThreads
  BY DEF ThreadsInv
<1> QED
  BY InitThreads, NextThreads, ServerThreadsAssumption, <1>1, PTL DEF Spec

-----------------------------------------------------------------------------
LEMMA NothingIsLeft == IInv /\ UsersAreHeld => NothingLeftBehind
<1> SUFFICES ASSUME IInv, UsersAreHeld, console = "stopped"
             PROVE  /\ \A id \in ClientId : sessions[id] = NoSession
                    /\ \A o \in DOMAIN objects : ~objects[o].live
  BY DEF NothingLeftBehind
<1>1. \A o \in DOMAIN objects : ~objects[o].live
  BY DEF UsersAreHeld
<1>2. QED BY <1>1 DEF IInv, SessionsAreSafe, Exists, Live

\* When stop() has returned, no session and no user is left, for any number of
\* clients, if every name a client gives is in the UserStore.  Without that the
\* code does leave users behind: addUser makes an object for an unknown name, too,
\* and puts it into no map.
THEOREM StopLeavesNothing ==
  (\A id \in ClientId : UserOf[id] \in Known) => (Spec => []NothingLeftBehind)
<1> SUFFICES ASSUME \A id \in ClientId : UserOf[id] \in Known
             PROVE  Spec => []NothingLeftBehind
  OBVIOUS
<1> DEFINE StopInv == IInv /\ UsersAreHeld
<1>1. Init => StopInv
  BY InitSafe DEF Init, UsersAreHeld, UserObjects
<1>2. StopInv /\ [Next]_vars => StopInv'
  <2> SUFFICES ASSUME StopInv, [Next]_vars PROVE StopInv'
    OBVIOUS
  <2>1. IInv'
    BY NextSafe, ServerThreadsAssumption
  <2>2. CASE UNCHANGED vars
    BY <2>1, <2>2 DEF vars, UsersAreHeld, UserObjects
  <2>3. CASE Next
    BY <2>1, <2>3, UsersStillHeld, ServerThreadsAssumption
  <2>4. QED BY <2>2, <2>3
<1>3. StopInv => NothingLeftBehind
  BY NothingIsLeft
<1> QED
  BY <1>1, <1>2, <1>3, PTL DEF Spec

=============================================================================
