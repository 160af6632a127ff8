------------------------------- MODULE Network -------------------------------
(***************************************************************************)
(* The datagrams between one client and the server.  UDP is external: it   *)
(* may lose a datagram or deliver it twice (a bounded number of times) and, *)
(* with Reorder, deliver in any order.  Client2::send drops messages too   *)
(* (CLIENT_MESSAGE_DROP_CHANCE), which looks the same to the peer.         *)
(*                                                                         *)
(* A ClientHello goes to the port of FileServer2, every other upward       *)
(* datagram to the session port, which is a function of the client ID      *)
(* ("to").  A downward datagram goes to the listen port ("dst") the client *)
(* had when its hello was accepted: every connect() picks a new one.       *)
(***************************************************************************)
EXTENDS Naturals, Sequences, SequencesExt

CONSTANTS
  LossyUp,        \* types of the messages to the server the network may lose
  LossyDown,      \* types of the messages to the client the network may lose
  MaxLosses,      \* bound: datagrams lost in a behaviour
  MaxDuplicates,  \* bound: datagrams delivered twice in a behaviour
  Reorder         \* datagrams to the same port may overtake each other

UpTypes == {"ClientHello", "AuthRequest", "Ack", "Ping", "FileStatus",
            "FileCreation", "FileTransfer", "TransferEnded"}
DownTypes == {"ServerHello", "AuthResult", "Ack", "FileStatus", "FileCreation"}

ASSUME NetworkAssumption ==
  /\ LossyUp \subseteq UpTypes
  /\ LossyDown \subseteq DownTypes
  /\ MaxLosses \in Nat
  /\ MaxDuplicates \in Nat
  /\ Reorder \in BOOLEAN

VARIABLES
  up,          \* datagrams on their way to the server, in the order they were sent
  down,        \* datagrams on their way to the client
  losses,      \* datagrams lost so far
  duplicates   \* datagrams duplicated so far

netVars == <<up, down, losses, duplicates>>

NetworkInit ==
  /\ up = <<>>
  /\ down = <<>>
  /\ losses = 0
  /\ duplicates = 0

\* Datagrams with different destination ports are read from different sockets.
UpPort(m) == IF m.type = "ClientHello" THEN 0 ELSE m.to
DownPort(m) == m.dst

\* The places of the channel that may be delivered next.
Deliverable(ch, Port(_)) ==
  {i \in DOMAIN ch : Reorder \/ \A j \in 1..(i - 1) : Port(ch[j]) # Port(ch[i])}

LoseUp ==
  /\ losses < MaxLosses
  /\ \E i \in DOMAIN up : up[i].type \in LossyUp /\ up' = RemoveAt(up, i)
  /\ losses' = losses + 1
  /\ UNCHANGED <<down, duplicates>>

LoseDown ==
  /\ losses < MaxLosses
  /\ \E i \in DOMAIN down : down[i].type \in LossyDown /\ down' = RemoveAt(down, i)
  /\ losses' = losses + 1
  /\ UNCHANGED <<up, duplicates>>

DuplicateUp ==
  /\ duplicates < MaxDuplicates
  /\ \E i \in DOMAIN up : up' = InsertAt(up, i, up[i])
  /\ duplicates' = duplicates + 1
  /\ UNCHANGED <<down, losses>>

DuplicateDown ==
  /\ duplicates < MaxDuplicates
  /\ \E i \in DOMAIN down : down' = InsertAt(down, i, down[i])
  /\ duplicates' = duplicates + 1
  /\ UNCHANGED <<up, losses>>

NetworkFault == LoseUp \/ LoseDown \/ DuplicateUp \/ DuplicateDown

=============================================================================
