---------------------------- MODULE MCServerThreads ----------------------------
(* Instances of ServerThreads: clients that share a user, or do not. *)
EXTENDS ServerThreads

OneUser == [id \in ClientId |-> "user0"]
ManyUsers == [id \in ClientId |-> IF id = 1 THEN "user0" ELSE "user1"]

=============================================================================
