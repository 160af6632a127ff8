------------------------------ MODULE MCReceiver ------------------------------
(* Messages for model checking Receiver: a part of a file, a status of the
   same size, whose checksum lies where that of a part does, and a hello. *)
EXTENDS Receiver

M(kind, body, size) == [kind |-> kind, body |-> body, size |-> size]

SomeMessages ==
  {M("ClientHello", 1, 1000), M("FileTransfer", 1, 30), M("FileStatus", 1, 30)}

SomeBounds == [FileServer2 |-> 3, FileServerClient |-> 3, FileClient2 |-> 2]

=============================================================================
