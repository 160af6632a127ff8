------------------------------ MODULE MCSession ------------------------------
(***************************************************************************)
(* Instances of Session for TLC.  "d" is a subfolder and holds the file    *)
(* "g"; "e", where there is one, is a subfolder of "d".  The others lie in *)
(* the synchronised directory itself.                                      *)
(***************************************************************************)
EXTENDS Session

CONSTANT absent

SomeAbove == [x \in File \cup Folder |-> IF x \in {"g", "e"} THEN {"d"} \cap Folder ELSE {}]
SomeOrder == SetToSeq(Folder \cap {"d"}) \o SetToSeq(Folder \cap {"e"})

\* Start directories: contents of the files, existing folders.
EmptyDirectory == {<<[f \in File |-> absent], {}>>}
OneFileOnePart == {<<[f \in File |-> IF f = "f" THEN <<"a">> ELSE absent], {}>>}
OneFileTwoParts == {<<[f \in File |-> IF f = "f" THEN <<"a", "b">> ELSE absent], {}>>}

\* A folder that holds a file.
NestedFile == {<<[f \in File |-> IF f = "g" THEN <<"a">> ELSE absent], {"d"}>>}

\* A folder in a folder.
NestedFolders == {<<[f \in File |-> absent], {"d", "e"}>>}

\* Every directory with a file "f" and a folder, which may hold a file "g".
SomeTrees ==
  {<<[f \in File |-> IF f = "f" THEN c ELSE e], {"d"}>> :
     c \in Content, e \in Content \cup {absent}}

=============================================================================
