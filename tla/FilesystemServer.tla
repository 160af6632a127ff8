--------------------------- MODULE FilesystemServer ---------------------------
(***************************************************************************)
(* The directory the server keeps for one user (class FilesystemServer of   *)
(* Filesystem.cpp).  The entry of a file holds last_part only: a missing   *)
(* entry answers and behaves like last_part = 0, so the two are one here.  *)
(***************************************************************************)
EXTENDS FilesystemClient

VARIABLES
  sDisk,  \* what the files on the server hold; a part that was skipped is a Hole
  sDirs,  \* the subfolders that exist on the server
  sLast   \* last_part of the files

fsServerVars == <<sDisk, sDirs, sLast>>

FsServerTypeOK ==
  /\ sDisk \in [File -> Seq(Data) \cup {Absent}]
  /\ sDirs \subseteq Folder
  /\ sLast \in [File -> Part]

FilesystemServerInit ==
  /\ sDisk = [f \in File |-> Absent]
  /\ sDirs = {}
  /\ sLast = [f \in File |-> 0]

\* create_directories: the folders above are created too.  Nothing that is
\* modelled changes for the directory itself and for a name of something else.
GenFolder(path) ==
  /\ sDirs' = IF path \in Folder THEN sDirs \cup {path} \cup Above[path] ELSE sDirs
  /\ UNCHANGED <<sDisk, sLast>>

\* The stream is opened for writing: the file is created or emptied, but
\* not when a folder above it is missing or it is not one of the user's.
\* last_part of a known file is kept.
GenFile(f) ==
  /\ sDisk' = IF f # NoFile /\ Above[f] \subseteq sDirs THEN [sDisk EXCEPT ![f] = <<>>] ELSE sDisk
  /\ UNCHANGED <<sDirs, sLast>>

\* Mutant: a file that does not exist is not deleted, and not answered for.
DelExistingFile(f) ==
  /\ sDisk[f] # Absent
  /\ sDisk' = [sDisk EXCEPT ![f] = Absent]
  /\ UNCHANGED <<sDirs, sLast>>

\* delFile erases the entry under the wrong key (path + FID), so last_part
\* survives.  A folder is deleted with the same call.
DelFile(f) ==
  /\ sDisk' = [sDisk EXCEPT ![f] = Absent]
  /\ UNCHANGED <<sDirs, sLast>>

FolderIsEmpty(d) ==
  /\ \A f \in File : d \in Above[f] => sDisk[f] = Absent
  /\ \A e \in sDirs : d \notin Above[e]

RemoveEmptyFolder(d) ==
  /\ sDirs' = sDirs \ {d}
  /\ UNCHANGED <<sDisk, sLast>>

\* A part written at its place; what lies between the end and it is a hole.
WithPart(c, p, v) ==
  IF v = Hole THEN c
  ELSE [i \in 1..(IF p < Len(c) THEN Len(c) ELSE p + 1) |->
          IF i = p + 1 THEN v ELSE IF i <= Len(c) THEN c[i] ELSE Hole]

\* Mutant: last_part counts the parts instead of naming the last one.
WriteAndCountParts(f, p, v) ==
  IF f = NoFile \/ sDisk[f] = Absent THEN UNCHANGED fsServerVars
  ELSE /\ sDisk' = [sDisk EXCEPT ![f] = WithPart(@, p, v)]
       /\ sLast' = [sLast EXCEPT ![f] = p + 1]
       /\ UNCHANGED sDirs

(***************************************************************************)
(* writeFilePart on the file curFID of the session.  With no current file   *)
(* the path is the directory itself and cannot be opened.  A file that is  *)
(* not on the disk gets a new entry and cannot be opened either.           *)
(***************************************************************************)
WriteFilePart(f, p, v) ==
  IF f = NoFile THEN UNCHANGED fsServerVars
  ELSE IF sDisk[f] = Absent
  THEN sLast' = [sLast EXCEPT ![f] = 0] /\ UNCHANGED <<sDisk, sDirs>>
  ELSE /\ sDisk' = [sDisk EXCEPT ![f] = WithPart(@, p, v)]
       /\ sLast' = [sLast EXCEPT ![f] = IF @ + 1 = p THEN p ELSE @]
       /\ UNCHANGED sDirs

=============================================================================
