----------------------------- MODULE ServerThreads -----------------------------
(***************************************************************************)
(* The threads of the server and the objects they share: FileServer2 with  *)
(* its consumer ("main" below), its cleanup timer and the console, the      *)
(* FileServerUser objects, and the consumer and the timer of each session. *)
(* A step goes from one point where a thread can wait, or where another    *)
(* one can come between, to the next: a mutex, a join, a pointer that is   *)
(* used after an unlock.                                                   *)
(*                                                                         *)
(* FileServerUser objects are numbered in the order they are made; 0 is    *)
(* NULL.  Sessions are named by the client ID.  What their handlers do is  *)
(* in Session; here a handler is a time the consumer is busy, and what it  *)
(* does to the lists of the other clients (addToDoForAllExcept).           *)
(***************************************************************************)
EXTENDS Naturals, Sequences, FiniteSets

CONSTANTS
  ClientId,
  User,       \* names given in hellos
  Known,      \* names in the UserStore
  UserOf,     \* the name each client gives
  Uploader,   \* bound: the clients that upload
  NoSession   \* no session has this client ID

ASSUME ServerThreadsAssumption ==
  /\ Known \subseteq User
  /\ UserOf \in [ClientId -> User]
  /\ Uploader \subseteq ClientId

VARIABLES
  taken,      \* the clients whose hello was taken from cpQueue
  users,      \* the map of users: the object of each name
  objects,    \* the FileServerUser objects made so far
  sessions,   \* the FileServerClient objects
  userMutex,  \* who holds it
  main,       \* the consumer: where it is, whose hello, its user object
  cleaner,    \* the tick of cleanupTimer: where it is, users and sessions to visit
  console,    \* where FileServer2::stop is
  misuse      \* history: what was used after its deletion

vars == <<taken, users, objects, sessions, userMutex, main, cleaner, console, misuse>>

\* live: not deleted; clients: the map of sessions; toDo: the clients that have
\* a list in clientsToDo; listed: those whose list has an entry for the file.
UserObject ==
  [live : BOOLEAN, clients : SUBSET ClientId, toDo : SUBSET ClientId,
   listed : SUBSET ClientId, mutex : {"free", "cleaner"}]

NewUser == [live |-> TRUE, clients |-> {}, toDo |-> {}, listed |-> {}, mutex |-> "free"]

(***************************************************************************)
(* state: "auth" up to the acknowledged AuthResult, "connected" until the  *)
(* next tick, "settled" for fsc_ping and fsc_awaitingAck, which no session *)
(* leaves but by an error.  shouldRun and timerRun let the threads go on.  *)
(* The timer "loops" between ticks and in ticks that change nothing; it is *)
(* in a "connectedTick" if the state was fsc_connected when the tick       *)
(* looked, and "between" from a tick's own stop() to its start().          *)
(* selfStopped: a thread has stopped itself.  ending: what the thread that *)
(* deletes the session still has to do.                                    *)
(***************************************************************************)
EndingSteps ==
  {"stopTimer", "joinTimer", "stopConsumer", "joinConsumer", "error", "udp", "free"}

SessionObject ==
  [user : Nat, state : {"auth", "connected", "settled", "disconnected", "error"},
   shouldRun : BOOLEAN,
   consumer : {"waiting", "busy", "endless", "joinsTimer", "leaving", "ended"},
   timerRun : BOOLEAN,
   timer : {"loops", "connectedTick", "between", "joinsConsumer", "leaving", "ended"},
   selfStopped : BOOLEAN, ending : Seq(EndingSteps)]

\* What stands for "no session" is none.
ASSUME NoSessionAssumption == NoSession \notin SessionObject

\* Up to its first start() a timer has no thread.
NewSession(o) ==
  [user |-> o, state |-> "auth", shouldRun |-> TRUE, consumer |-> "waiting",
   timerRun |-> FALSE, timer |-> "ended", selfStopped |-> FALSE, ending |-> <<>>]

\* setState(fsc_error) or setState(fsc_disconnected), which does nothing in that
\* state; and what follows in ~FileServerClient and ~AbstractClient.
SetState(s, state) ==
  [s EXCEPT !.state = state,
            !.ending = IF s.state = state THEN @ ELSE <<"stopTimer", "stopConsumer">> \o @]

Destructors == <<"udp", "stopConsumer", "stopTimer", "free">>

Init ==
  /\ taken = {}
  /\ users = [u \in User |-> 0]
  /\ objects = <<>>
  /\ sessions = [id \in ClientId |-> NoSession]
  /\ userMutex = "free"
  /\ main = [at |-> "pop", id |-> NoSession, user |-> 0]
  /\ cleaner = [at |-> "asleep", users |-> {}, user |-> 0, ids |-> {}]
  /\ console = "running"
  /\ misuse = {}

UserObjects == {users[u] : u \in User} \ {0}

\* A dereference of pointers to user objects.
Uses(os) ==
  misuse' = misuse \cup (IF \A o \in os : objects[o].live THEN {} ELSE {"user"})

-----------------------------------------------------------------------------
(* onClientHelloMessage, on the consumer of FileServer2 *)

\* The clients say hello at any time, and the next in the queue is anyone's.
Pops(id) ==
  /\ main.at = "pop"
  /\ console \in {"running", "joinsCleaner"}
  /\ id \notin taken
  /\ taken' = taken \cup {id}
  /\ main' = [main EXCEPT !.at = "getUser", !.id = id]
  /\ UNCHANGED <<users, objects, sessions, userMutex, cleaner, console, misuse>>

\* shouldConsumerRun is FALSE, and a dummy message wakes the consumer.
MainEnds ==
  /\ main.at = "pop"
  /\ console \notin {"running", "joinsCleaner"}
  /\ main' = [main EXCEPT !.at = "ended"]
  /\ UNCHANGED <<taken, users, objects, sessions, userMutex, cleaner, console, misuse>>

\* getUser up to its unlock: the iterator is kept.
FindsUser ==
  /\ main.at = "getUser"
  /\ userMutex = "free"
  /\ main' = [main EXCEPT !.user = users[UserOf[main.id]],
                          !.at = IF users[UserOf[main.id]] = 0 THEN "addUser" ELSE "found"]
  /\ UNCHANGED <<taken, users, objects, sessions, userMutex, cleaner, console, misuse>>

\* The iterator is used after the unlock: its node must still be in the map.
ReadsUser ==
  /\ main.at = "found"
  /\ misuse' = misuse \cup (IF users[UserOf[main.id]] = main.user THEN {} ELSE {"node"})
  /\ main' = [main EXCEPT !.at = "findClient"]
  /\ UNCHANGED <<taken, users, objects, sessions, userMutex, cleaner, console>>

\* addUser for a name of the UserStore; else an object that no map ever holds.
AddsUser ==
  /\ main.at = "addUser"
  /\ LET u == UserOf[main.id]
     IN /\ u \in Known => userMutex = "free"
        /\ users' = IF u \in Known THEN [users EXCEPT ![u] = Len(objects) + 1] ELSE users
  /\ objects' = Append(objects, NewUser)
  /\ main' = [main EXCEPT !.at = "findClient", !.user = Len(objects) + 1]
  /\ UNCHANGED <<taken, sessions, userMutex, cleaner, console, misuse>>

\* findClient asks every user, each with the mutex of his own clients; then
\* setAccepted: the consumer of the session starts, and the hello is sent, before
\* the session is in any map.
FindsClient ==
  /\ main.at = "findClient"
  /\ userMutex = "free"
  /\ Uses(UserObjects)
  /\ IF \E o \in UserObjects : main.id \in objects[o].clients
     THEN main' = [main EXCEPT !.at = "decline"] /\ UNCHANGED sessions
     ELSE /\ main' = [main EXCEPT !.at = "clientHello"]
          /\ sessions' = [sessions EXCEPT ![main.id] = NewSession(main.user)]
  /\ UNCHANGED <<taken, users, objects, userMutex, cleaner, console>>

\* The end of setAccepted: fsc_awaitClientAuth starts the timer.  If the answer of
\* the client was handled before this, its state is overwritten, fsc_error too.
AwaitsClientAuth ==
  /\ main.at = "clientHello"
  /\ sessions' = [sessions EXCEPT ![main.id] =
                     [@ EXCEPT !.state = "auth", !.timerRun = TRUE, !.timer = "loops"]]
  /\ main' = [main EXCEPT !.at = "addClient"]
  /\ UNCHANGED <<taken, users, objects, userMutex, cleaner, console, misuse>>

AddsClient ==
  /\ main.at = "addClient"
  /\ objects[main.user].mutex = "free"
  /\ Uses({main.user})
  /\ objects' = [objects EXCEPT ![main.user].clients = @ \cup {main.id},
                                ![main.user].toDo = @ \cup {main.id}]
  /\ main' = [main EXCEPT !.at = "added"]
  /\ UNCHANGED <<taken, users, sessions, userMutex, cleaner, console>>

\* The line for the console reads the session after addClient has unlocked: the
\* cleanup may have deleted it.
PrintsClient ==
  /\ main.at = "added"
  /\ misuse' = misuse \cup (IF sessions[main.id] # NoSession THEN {} ELSE {"freed session"})
  /\ main' = [at |-> "pop", id |-> NoSession, user |-> 0]
  /\ UNCHANGED <<taken, users, objects, sessions, userMutex, cleaner, console>>

MainSteps ==
  \/ MainEnds \/ FindsUser \/ ReadsUser \/ AddsUser \/ FindsClient
  \/ AwaitsClientAuth \/ AddsClient \/ PrintsClient

\* A hello sent again, and its answer "client ID taken", which deletes the user
\* with his sessions although the map still holds him.
PopsAgain(id) ==
  /\ main.at = "pop"
  /\ console \in {"running", "joinsCleaner"}
  /\ id \in taken
  /\ main' = [main EXCEPT !.at = "getUser", !.id = id]
  /\ UNCHANGED <<taken, users, objects, sessions, userMutex, cleaner, console, misuse>>

Declines ==
  /\ main.at = "decline"
  /\ objects' = [objects EXCEPT ![main.user].live = FALSE]
  /\ sessions' = [id \in ClientId |->
                    IF id \in objects[main.user].clients THEN NoSession ELSE sessions[id]]
  /\ main' = [main EXCEPT !.at = "pop"]
  /\ UNCHANGED <<taken, users, userMutex, cleaner, console, misuse>>

-----------------------------------------------------------------------------
(* The threads of a session.  "Step" changes its record. *)

Exists(id) == sessions[id] # NoSession

Step(id, s) ==
  /\ sessions' = [sessions EXCEPT ![id] = s]
  /\ UNCHANGED <<taken, users, userMutex, main, cleaner, console>>

Handles(id) ==
  /\ Exists(id)
  /\ sessions[id].shouldRun
  /\ sessions[id].consumer = "waiting"
  /\ Step(id, [sessions[id] EXCEPT !.consumer = "busy"])
  /\ UNCHANGED <<objects, misuse>>

\* A handler that changes nothing for other clients.  The acknowledgement of
\* the AuthResult connects.
Answers(id) ==
  /\ Exists(id)
  /\ sessions[id].consumer = "busy"
  /\ Uses({sessions[id].user})
  /\ \E s \in {sessions[id].state}
             \cup (IF sessions[id].state = "auth" THEN {"connected"} ELSE {}) :
       Step(id, [sessions[id] EXCEPT !.consumer = "waiting", !.state = s])
  /\ UNCHANGED objects

(***************************************************************************)
(* genFile and writeFilePart.  addToDo makes an entry in the list of every *)
(* other client, or adds the part to the one that is there.  That loop     *)
(* takes the part from an entry it does not shorten, and does not end.     *)
(***************************************************************************)
Uploads(id, isPart) ==
  /\ id \in Uploader
  /\ Exists(id)
  /\ sessions[id].consumer = "busy"
  /\ sessions[id].state # "auth"
  /\ LET o == sessions[id].user
         others == objects[o].toDo \ {id}
         endless == isPart /\ others \cap objects[o].listed # {}
     IN /\ Uses({o})
        /\ objects' = [objects EXCEPT ![o].listed = @ \cup others]
        /\ Step(id, [sessions[id] EXCEPT !.consumer = IF endless THEN "endless" ELSE "waiting"])

\* A wrong password: setState(fsc_error), which stops the timer first ...
Fails(id) ==
  /\ Exists(id)
  /\ sessions[id].consumer = "busy"
  /\ sessions[id].state = "auth"
  /\ Step(id, [sessions[id] EXCEPT !.state = "error", !.selfStopped = TRUE, !.timerRun = FALSE,
                                   !.consumer = IF sessions[id].timerRun THEN "joinsTimer"
                                                ELSE "leaving"])
  /\ UNCHANGED <<objects, misuse>>

\* ... and then lets its own thread run out, which still stops udpServer.
FailsOn(id) ==
  /\ Exists(id)
  /\ sessions[id].consumer = "joinsTimer"
  /\ sessions[id].timer = "ended"
  /\ Step(id, [sessions[id] EXCEPT !.consumer = "leaving", !.shouldRun = FALSE])
  /\ UNCHANGED <<objects, misuse>>

ConsumerEnds(id) ==
  /\ Exists(id)
  /\ \/ sessions[id].consumer = "waiting" /\ ~sessions[id].shouldRun
     \/ sessions[id].consumer = "leaving"
  /\ Step(id, [sessions[id] EXCEPT !.consumer = "ended", !.shouldRun = FALSE])
  /\ UNCHANGED <<objects, misuse>>

ConsumerSteps(id) ==
  \/ Answers(id)
  \/ \E isPart \in BOOLEAN : Uploads(id, isPart)
  \/ Fails(id)
  \/ FailsOn(id)
  \/ ConsumerEnds(id)

Ticks(id) ==
  /\ Exists(id)
  /\ sessions[id].timer = "loops"
  /\ sessions[id].timerRun
  /\ sessions[id].state = "connected"
  /\ Step(id, [sessions[id] EXCEPT !.timer = "connectedTick"])
  /\ UNCHANGED <<objects, misuse>>

\* Nothing to do: fsc_ping starts the timer, also one that was stopped meanwhile.
Pings(id) ==
  /\ Exists(id)
  /\ sessions[id].timer = "connectedTick"
  /\ id \notin objects[sessions[id].user].listed
  /\ Step(id, [sessions[id] EXCEPT !.timer = "loops", !.state = "settled", !.timerRun = TRUE])
  /\ UNCHANGED <<objects, misuse>>

\* fsc_sendingChanges stops the timer, fsc_awaitingAck starts it again.
SendsChanges(id) ==
  /\ Exists(id)
  /\ sessions[id].timer = "connectedTick"
  /\ id \in objects[sessions[id].user].listed
  /\ Step(id, [sessions[id] EXCEPT !.timer = "between", !.state = "settled",
                                   !.timerRun = FALSE, !.selfStopped = TRUE])
  /\ UNCHANGED <<objects, misuse>>

StartsAgain(id) ==
  /\ Exists(id)
  /\ sessions[id].timer = "between"
  /\ Step(id, [sessions[id] EXCEPT !.timer = "loops", !.timerRun = TRUE])
  /\ UNCHANGED <<objects, misuse>>

\* A message was sent too often: fsc_error on the timer thread, which joins the
\* consumer and stops udpServer.  The tick may have begun before a stop(), or
\* in an earlier state.
GivesUp(id) ==
  /\ Exists(id)
  /\ sessions[id].timer = "loops"
  /\ sessions[id].state # "error"
  /\ Step(id, [sessions[id] EXCEPT !.timer = "joinsConsumer", !.state = "error",
                                   !.timerRun = FALSE, !.shouldRun = FALSE,
                                   !.selfStopped = TRUE])
  /\ UNCHANGED <<objects, misuse>>

GivesUpOn(id) ==
  /\ Exists(id)
  /\ sessions[id].timer = "joinsConsumer"
  /\ sessions[id].consumer = "ended"
  /\ Step(id, [sessions[id] EXCEPT !.timer = "leaving"])
  /\ UNCHANGED <<objects, misuse>>

TimerEnds(id) ==
  /\ Exists(id)
  /\ \/ sessions[id].timer = "loops" /\ ~sessions[id].timerRun
     \/ sessions[id].timer = "leaving"
  /\ Step(id, [sessions[id] EXCEPT !.timer = "ended"])
  /\ UNCHANGED <<objects, misuse>>

TimerSteps(id) ==
  \/ Pings(id) \/ SendsChanges(id) \/ StartsAgain(id)
  \/ GivesUpOn(id) \/ TimerEnds(id)

-----------------------------------------------------------------------------
(* The deletion of a session, by the cleanup or by the console *)

IsDeleted(id) == Exists(id) /\ sessions[id].ending # <<>>

NextStep(id) == IF IsDeleted(id) THEN Head(sessions[id].ending) ELSE "none"

\* The session with its next steps replaced by "first".
Ending(s, first) == [s EXCEPT !.ending = first \o Tail(@)]

\* Mutant: the destructor does not wait for the timer.
StopsTimerOnly(id) ==
  /\ NextStep(id) = "stopTimer"
  /\ Step(id, [Ending(sessions[id], <<>>) EXCEPT !.timerRun = FALSE])
  /\ UNCHANGED <<objects, misuse>>

\* Timer::stop joins only a timer whose state is not t_stop yet.
StopsTimer(id) ==
  /\ NextStep(id) = "stopTimer"
  /\ Step(id, [Ending(sessions[id], IF sessions[id].timerRun THEN <<"joinTimer">> ELSE <<>>)
                 EXCEPT !.timerRun = FALSE])
  /\ UNCHANGED <<objects, misuse>>

JoinsTimer(id) ==
  /\ NextStep(id) = "joinTimer"
  /\ sessions[id].timer = "ended"
  /\ Step(id, Ending(sessions[id], <<>>))
  /\ UNCHANGED <<objects, misuse>>

StopsConsumer(id) ==
  /\ NextStep(id) = "stopConsumer"
  /\ Step(id, [Ending(sessions[id],
                       IF sessions[id].consumer = "ended" THEN <<>> ELSE <<"joinConsumer">>)
                 EXCEPT !.shouldRun = FALSE])
  /\ UNCHANGED <<objects, misuse>>

JoinsConsumer(id) ==
  /\ NextStep(id) = "joinConsumer"
  /\ sessions[id].consumer = "ended"
  /\ Step(id, Ending(sessions[id], <<>>))
  /\ UNCHANGED <<objects, misuse>>

\* disconnect() has left fsc_error, if it was that: ~FileServerClient enters it.
EntersError(id) ==
  /\ NextStep(id) = "error"
  /\ Step(id, SetState(Ending(sessions[id], <<>>), "error"))
  /\ UNCHANGED <<objects, misuse>>

ThreadsEnded(id) == sessions[id].consumer = "ended" /\ sessions[id].timer = "ended"

\* udpClient and udpServer are deleted, and ~FileServerClient is done.  Threads
\* that have ended leave nothing to stop to ~AbstractClient.
DeletesUdp(id) ==
  /\ NextStep(id) = "udp"
  /\ Step(id, IF ThreadsEnded(id) THEN [sessions[id] EXCEPT !.ending = <<"free">>]
              ELSE Ending(sessions[id], <<>>))
  /\ misuse' = misuse \cup
       (IF ThreadsEnded(id) THEN {}
        ELSE IF sessions[id].selfStopped THEN {"self-stopped session"} ELSE {"session"})
  /\ UNCHANGED objects

\* The memory is freed, and the node of the map erased.
Frees(id) ==
  /\ NextStep(id) = "free"
  /\ Step(id, NoSession)
  /\ objects' = [objects EXCEPT ![sessions[id].user].clients = @ \ {id}]
  /\ UNCHANGED misuse

DeletionSteps(id) ==
  \/ StopsTimer(id) \/ JoinsTimer(id) \/ StopsConsumer(id) \/ JoinsConsumer(id)
  \/ EntersError(id) \/ DeletesUdp(id) \/ Frees(id)

-----------------------------------------------------------------------------
(* onTimerTick of FileServer2: clanupClients of every user, under userMutex *)

WakesUp ==
  /\ console = "running"
  /\ cleaner.at = "asleep"
  /\ userMutex = "free"
  /\ UserObjects # {}
  /\ userMutex' = "cleaner"
  /\ cleaner' = [cleaner EXCEPT !.at = "users", !.users = {u \in User : users[u] # 0}]
  /\ UNCHANGED <<taken, users, objects, sessions, main, console, misuse>>

VisitsUser(u) ==
  /\ cleaner.at = "users"
  /\ u \in cleaner.users
  /\ Uses({users[u]})
  /\ objects' = [objects EXCEPT ![users[u]].mutex = "cleaner"]
  /\ cleaner' = [at |-> "sessions", users |-> cleaner.users \ {u}, user |-> users[u],
                 ids |-> objects[users[u]].clients]
  /\ UNCHANGED <<taken, users, sessions, userMutex, main, console>>

\* A session in use is passed over; one in fsc_error, and one whose last message
\* is older than 10 seconds, is deleted before the next is looked at.
VisitsSession(id) ==
  /\ cleaner.at = "sessions"
  /\ id \in cleaner.ids
  /\ \/ sessions[id].state # "error" /\ UNCHANGED sessions
     \/ sessions' = [sessions EXCEPT ![id] = SetState([@ EXCEPT !.ending = Destructors], "error")]
  /\ cleaner' = [cleaner EXCEPT !.at = "session", !.ids = @ \ {id}]
  /\ UNCHANGED <<taken, users, objects, userMutex, main, console, misuse>>

LeavesSession ==
  /\ cleaner.at = "session"
  /\ \A id \in objects[cleaner.user].clients : ~IsDeleted(id)
  /\ cleaner' = [cleaner EXCEPT !.at = "sessions"]
  /\ UNCHANGED <<taken, users, objects, sessions, userMutex, main, console, misuse>>

\* Mutant: a user without sessions is deleted (the code that "ToDo: fix crash
\* #12" has commented out).
LeavesAndDeletesUser ==
  /\ cleaner.at = "sessions"
  /\ cleaner.ids = {}
  /\ LET empty == objects[cleaner.user].clients = {}
     IN /\ objects' = [objects EXCEPT ![cleaner.user].mutex = "free",
                                      ![cleaner.user].live = ~empty]
        /\ users' = [u \in User |-> IF empty /\ users[u] = cleaner.user THEN 0 ELSE users[u]]
  /\ cleaner' = [cleaner EXCEPT !.at = "users", !.user = 0]
  /\ UNCHANGED <<taken, sessions, userMutex, main, console, misuse>>

\* Mutant: the mutex of the clients is not unlocked.
LeavesUserLocked ==
  /\ cleaner.at = "sessions"
  /\ cleaner.ids = {}
  /\ cleaner' = [cleaner EXCEPT !.at = "users", !.user = 0]
  /\ UNCHANGED <<taken, users, objects, sessions, userMutex, main, console, misuse>>

LeavesUser ==
  /\ cleaner.at = "sessions"
  /\ cleaner.ids = {}
  /\ objects' = [objects EXCEPT ![cleaner.user].mutex = "free"]
  /\ cleaner' = [cleaner EXCEPT !.at = "users", !.user = 0]
  /\ UNCHANGED <<taken, users, sessions, userMutex, main, console, misuse>>

\* Mutant: the unlock is forgotten.
EndsTickLocked ==
  /\ cleaner.at = "users"
  /\ cleaner.users = {}
  /\ cleaner' = [cleaner EXCEPT !.at = "asleep"]
  /\ UNCHANGED <<taken, users, objects, sessions, userMutex, main, console, misuse>>

EndsTick ==
  /\ cleaner.at = "users"
  /\ cleaner.users = {}
  /\ userMutex' = "free"
  /\ cleaner' = [cleaner EXCEPT !.at = "asleep"]
  /\ UNCHANGED <<taken, users, objects, sessions, main, console, misuse>>

CleanerSteps ==
  \/ \E u \in User : VisitsUser(u)
  \/ \E id \in ClientId : VisitsSession(id)
  \/ LeavesSession
  \/ LeavesUser
  \/ EndsTick

-----------------------------------------------------------------------------
(* FileServer2::stop, from the console *)

Stops ==
  /\ console = "running"
  /\ console' = "joinsCleaner"
  /\ UNCHANGED <<taken, users, objects, sessions, userMutex, main, cleaner, misuse>>

\* Mutant: the users are deleted before the consumer has ended.
JoinsCleanerOnly ==
  /\ console = "joinsCleaner"
  /\ cleaner.at = "asleep"
  /\ console' = "locks"
  /\ UNCHANGED <<taken, users, objects, sessions, userMutex, main, cleaner, misuse>>

\* cleanupTimer->stop() and udpServer->stop(), then stopConsumerThread.
JoinsCleaner ==
  /\ console = "joinsCleaner"
  /\ cleaner.at = "asleep"
  /\ console' = "joinsMain"
  /\ UNCHANGED <<taken, users, objects, sessions, userMutex, main, cleaner, misuse>>

JoinsMain ==
  /\ console = "joinsMain"
  /\ main.at = "ended"
  /\ console' = "locks"
  /\ UNCHANGED <<taken, users, objects, sessions, userMutex, main, cleaner, misuse>>

\* deleteAllUsers.
Locks ==
  /\ console = "locks"
  /\ userMutex = "free"
  /\ userMutex' = "console"
  /\ console' = "deletes"
  /\ UNCHANGED <<taken, users, objects, sessions, main, cleaner, misuse>>

\* deleteAllClients: disconnect(), and the destructors, one session at a time.
DeletesSession(id) ==
  /\ console = "deletes"
  /\ \E o \in UserObjects : id \in objects[o].clients
  /\ \A other \in ClientId : ~IsDeleted(other)
  /\ Uses({sessions[id].user})
  /\ sessions' = [sessions EXCEPT ![id] =
       SetState([@ EXCEPT !.ending = <<"error">> \o Destructors], "disconnected")]
  /\ UNCHANGED <<taken, users, objects, userMutex, main, cleaner, console>>

DeletesUser(u) ==
  /\ console = "deletes"
  /\ users[u] # 0
  /\ objects[users[u]].clients = {}
  /\ Uses({users[u]})
  /\ objects' = [objects EXCEPT ![users[u]].live = FALSE]
  /\ users' = [users EXCEPT ![u] = 0]
  /\ UNCHANGED <<taken, sessions, userMutex, main, cleaner, console>>

IsStopped ==
  /\ console = "deletes"
  /\ UserObjects = {}
  /\ userMutex' = "free"
  /\ console' = "stopped"
  /\ UNCHANGED <<taken, users, objects, sessions, main, cleaner, misuse>>

ConsoleSteps ==
  \/ JoinsCleaner
  \/ JoinsMain
  \/ Locks
  \/ \E id \in ClientId : DeletesSession(id)
  \/ \E u \in User : DeletesUser(u)
  \/ IsStopped

-----------------------------------------------------------------------------
Next ==
  \/ \E id \in ClientId : Pops(id) \/ Handles(id) \/ Ticks(id) \/ GivesUp(id)
                            \/ ConsumerSteps(id) \/ TimerSteps(id) \/ DeletionSteps(id)
  \/ MainSteps
  \/ WakesUp
  \/ CleanerSteps
  \/ Stops
  \/ ConsoleSteps

Spec == Init /\ [][Next]_vars

\* Every thread goes on.  The cleanup holds the mutex of the users for a moment
\* in every second: a thread that wants it gets it between two ticks.
Fairness ==
  /\ SF_vars(MainSteps)
  /\ WF_vars(CleanerSteps)
  /\ SF_vars(ConsoleSteps)
  /\ \A id \in ClientId : /\ WF_vars(ConsumerSteps(id))
                          /\ WF_vars(TimerSteps(id))
                          /\ WF_vars(DeletionSteps(id))

FairSpec == Spec /\ Fairness

\* With hellos that are sent twice.
SpecRepeated ==
  Init /\ [][Next \/ (\E id \in ClientId : PopsAgain(id)) \/ Declines]_vars

-----------------------------------------------------------------------------
TypeOK ==
  /\ taken \subseteq ClientId
  /\ users \in [User -> Nat]
  /\ objects \in Seq(UserObject)
  /\ sessions \in [ClientId -> SessionObject \cup {NoSession}]
  /\ userMutex \in {"free", "cleaner", "console"}
  /\ main \in [at : {"pop", "getUser", "found", "addUser", "findClient", "decline",
                      "clientHello", "addClient", "added", "ended"},
               id : ClientId \cup {NoSession}, user : Nat]
  /\ cleaner \in [at : {"asleep", "users", "sessions", "session"},
                  users : SUBSET User, user : Nat, ids : SUBSET ClientId]
  /\ console \in {"running", "joinsCleaner", "joinsMain", "locks", "deletes", "stopped"}
  /\ misuse \subseteq {"user", "node", "session", "self-stopped session", "freed session"}

(***************************************************************************)
(* No thread uses a user after he is deleted, or a node of the map of users *)
(* after it is erased, although getUser and findClient give pointers and   *)
(* iterators away that are used when the mutex is free again.              *)
(***************************************************************************)
UsersOutliveTheirUse == misuse \cap {"user", "node"} = {}

(***************************************************************************)
(* The objects of a session outlive its consumer and its timer, but for a  *)
(* session whose own thread has stopped itself: Timer::stop and            *)
(* stopConsumerThread do not wait for the thread that calls them.          *)
(***************************************************************************)
SessionsOutliveTheirThreads == "session" \notin misuse

(***************************************************************************)
(* The code as it is does not keep this: see the exception above, and what  *)
(* onClientHelloMessage reads of a session it has just added.              *)
(***************************************************************************)
NoUseAtAll == misuse = {}

(***************************************************************************)
(* When stop() has returned, no session has been left behind by a hello    *)
(* that was being handled, and no user is left in memory.                  *)
(***************************************************************************)
NothingLeftBehind ==
  console = "stopped" =>
    /\ \A id \in ClientId : sessions[id] = NoSession
    /\ \A o \in DOMAIN objects : ~objects[o].live

(***************************************************************************)
(* What holds a join for ever: the part of an upload that addToDo never    *)
(* finishes; a timer that its own tick, entering fsc_ping or               *)
(* fsc_awaitingAck, has started again after the stop() that joins it; and  *)
(* the two threads of a session that give it up at the same time, one for a *)
(* wrong password and one for its timeouts, and join each other, because   *)
(* disconnect() has overwritten the fsc_error of one.                      *)
(***************************************************************************)
Held ==
  \E id \in ClientId :
    /\ Exists(id)
    /\ \/ sessions[id].consumer = "endless"
       \/ NextStep(id) = "joinTimer" /\ sessions[id].timerRun
       \/ sessions[id].consumer = "joinsTimer" /\ sessions[id].timer = "joinsConsumer"

(***************************************************************************)
(* stop() returns: the threads that it and the cleanup join, with mutexes  *)
(* in their hands, come to their ends, if nothing holds them.              *)
(***************************************************************************)
StopReturns == (console = "joinsCleaner") ~> (console = "stopped" \/ Held)

\* A hello that was taken from the queue is dealt with, whatever the cleanup does.
HellosAreHandled == (main.at = "getUser") ~> (main.at \in {"pop", "ended"} \/ Held)

\* The code as it is does not keep this.
StopAlwaysReturns == (console = "joinsCleaner") ~> (console = "stopped")

=============================================================================
