---------------------------- MODULE MCActAfterAck ----------------------------
(* Instances of ActAfterAck for TLC, with the directories of MCSession.    *)
EXTENDS ActAfterAck, MCSession
=============================================================================
