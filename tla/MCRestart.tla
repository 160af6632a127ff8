------------------------------- MODULE MCRestart -------------------------------
(***************************************************************************)
(* Instances of Restart: a file "f", and the name "junk" of no file.       *)
(***************************************************************************)
EXTENDS Restart

CONSTANT absent

AllInRoot == [f \in File |-> {}]
NoFolders == <<>>

OneFile == {<<[f \in File |-> IF f = "f" THEN <<"a">> ELSE absent], {}>>}

=============================================================================
