--------------------------- MODULE FilesystemClient ---------------------------
(***************************************************************************)
(* The synchronised directory of a client and what FilesystemClient knows  *)
(* about it (Filesystem.cpp, Filestructures.h, WorkingSet.h).              *)
(*                                                                         *)
(* A file is the sequence of its parts (partLength bytes each); a part is   *)
(* a member of Version.  A hash is the sequence itself and a CRC is the    *)
(* part itself: neither collides.  No file has a size that is a multiple   *)
(* of partLength, so the read of a last part closes the stream.  A change  *)
(* by the user replaces the file, a stream that is already open keeps      *)
(* reading the replaced one.                                               *)
(***************************************************************************)
EXTENDS Integers, Sequences, FiniteSets, SequencesExt

CONSTANTS
  File,         \* names of files (FIDs)
  Folder,       \* names of the subfolders of the synchronised directory
  Root,         \* the synchronised directory itself
  Above,        \* the folders a file or a folder lies in, all on its path
  FolderOrder,  \* the folders as an indexing comes across them, each before what it holds
  Version,      \* what a part can hold
  MaxParts,     \* bound: parts of a file
  Absent,       \* the content of a file that does not exist
  NoFile,       \* no current file, or a name under which there is nothing
  InitialTrees, \* the directories to start from: <<files, folders>>
  MaxChanges    \* bound: changes the user makes

Path == Folder \cup {Root}
Part == 0..(MaxParts - 1)
Content == UNION {[1..n -> Version] : n \in 0..MaxParts}

\* A read of nothing, bytes of an uninitialised buffer, and no CRC yet.
\* BadPath is a name that the file system refuses (too long, empty, in a file).
Hole == "hole"
Garbage == "garbage"
NoCRC == "no CRC"
BadPath == "bad path"
Data == Version \cup {Hole, Garbage}

ASSUME FilesystemAssumption ==
  /\ Root \notin Folder
  /\ Above \in [File \cup Folder -> SUBSET Folder]
  /\ \A x \in File \cup Folder : x \notin Above[x] /\ \A d \in Above[x] : Above[d] \subseteq Above[x]
  /\ FolderOrder \in Seq(Folder)
  /\ \A d \in Folder : \E i \in DOMAIN FolderOrder : FolderOrder[i] = d
  /\ \A i, j \in DOMAIN FolderOrder :
       /\ FolderOrder[i] = FolderOrder[j] => i = j
       /\ FolderOrder[i] \in Above[FolderOrder[j]] => i < j
  /\ MaxParts \in Nat \ {0}
  /\ MaxChanges \in Nat
  /\ NoFile \notin File
  /\ Absent \notin Content
  /\ {Hole, Garbage, NoCRC} \cap Version = {}
  /\ BadPath \notin File \cup Path \cup {NoFile}
  /\ IsFiniteSet(Folder)
  /\ File \cap Path = {} /\ NoFile \notin Path
  /\ InitialTrees \subseteq [File -> Content \cup {Absent}] \X SUBSET Folder

\* What a file or a folder lies in exists.
ASSUME TreesAssumption ==
  \A tree \in InitialTrees :
    /\ \A f \in File : tree[1][f] # Absent => Above[f] \subseteq tree[2]
    /\ \A d \in tree[2] : Above[d] \subseteq tree[2]

VARIABLES
  disk,     \* what the files of the user hold
  dirs,     \* the subfolders that exist
  changes,  \* changes the user made so far
  lib,      \* the state of FilesystemClient: its File objects and its Folder list
  ws        \* the working set that is being transferred

fsClientVars == <<disk, dirs, changes, lib, ws>>

-----------------------------------------------------------------------------
(* Types *)

FileKey == File \cup {NoFile}

FileObject ==
  [known : {"no", "null", "yes"}, hash : Content, size : 0..MaxParts, np : SUBSET Part,
   crc : [Part -> Data \cup {NoCRC}],
   fd : [open : BOOLEAN, data : Content, pos : 0..MaxParts]]

FolderObject == [path : Path, created : BOOLEAN, pending : BOOLEAN]

Library == [file : [File -> FileObject], folders : Seq(FolderObject)]

WorkingSet ==
  [files : SUBSET File, delFiles : SUBSET File, delFolders : SUBSET Folder, cur : FileKey]

FilesTypeOK ==
  /\ disk \in [File -> Content \cup {Absent}]
  /\ dirs \subseteq Folder
  /\ changes \in 0..MaxChanges
  /\ lib \in Library
  /\ ws \in WorkingSet

-----------------------------------------------------------------------------
(***************************************************************************)
(* File objects.  "known": the key is not in the map, is in it with a null *)
(* pointer, or has an object.  np: the parts still to be sent.  fd: the    *)
(* stream, with the file it reads and the number of parts it is past.      *)
(***************************************************************************)
ClosedFd == [open |-> FALSE, data |-> <<>>, pos |-> 0]

NoObject == [known |-> "no", hash |-> <<>>, size |-> 0, np |-> {},
             crc |-> [p \in Part |-> NoCRC], fd |-> ClosedFd]

\* genFileOBJ and compareFiles on a file seen for the first time.
NewObject(c) ==
  [known |-> "yes", hash |-> c, size |-> Len(c), np |-> 0..(Len(c) - 1),
   crc |-> [p \in Part |-> IF p < Len(c) THEN c[p + 1] ELSE NoCRC],
   fd |-> ClosedFd]

PartOf(c, p, else) == IF p < Len(c) THEN c[p + 1] ELSE else

(***************************************************************************)
(* genMap on a file whose hash has changed.  The old size is taken from    *)
(* tellg() of the stream: -1, so larger than any size, when it is closed.  *)
(* A file that seems to have shrunk loses its CRCs, is compared in full    *)
(* and is also put on the delete list, so that its object is dropped.      *)
(***************************************************************************)
SeemsShrunk(o, c) == ~o.fd.open \/ o.fd.pos >= Len(c)

ChangedObject(o, c) ==
  LET crc   == IF SeemsShrunk(o, c) THEN [p \in Part |-> NoCRC] ELSE o.crc
      read  == [p \in Part |-> PartOf(IF o.fd.open THEN o.fd.data ELSE c, p, Garbage)]
      delta == {p \in 0..(Len(c) - 1) : crc[p] # read[p]}
  IN [known |-> IF SeemsShrunk(o, c) THEN "no" ELSE "yes",
      hash  |-> c,
      size  |-> Len(c),
      np    |-> o.np \cup delta,
      crc   |-> [p \in Part |-> IF p < Len(c) THEN read[p] ELSE crc[p]],
      fd    |-> ClosedFd]

\* Mutant: sizes are compared instead of hashes.
HasOtherSize(o, c) == o.known = "yes" /\ o.size # Len(c)

IsChanged(o, c) == o.known = "yes" /\ o.hash # c

\* The object of a file after an indexing that found content c (or no file).
IndexedObject(o, c) ==
  IF c = Absent THEN NoObject
  ELSE IF o.known # "yes" THEN NewObject(c)
  ELSE IF IsChanged(o, c) THEN ChangedObject(o, c)
  ELSE o

(***************************************************************************)
(* Folder objects, in the order they were found.  "created": its creation   *)
(* message was sent; "pending": it is in the current working set.  The     *)
(* loop in genMap takes the first known folder with ANOTHER path and       *)
(* treats the folder as known if that one was created.                     *)
(***************************************************************************)
TreatedAsKnown(folders, path) ==
  \E i \in DOMAIN folders :
    /\ folders[i].path # path
    /\ folders[i].created
    /\ \A j \in 1..(i - 1) : folders[j].path = path

\* What stands at these places, in its order.
Picked(s, places) ==
  LET Place(i) == Cardinality({j \in places : j <= i})
  IN [k \in 1..Cardinality(places) |-> s[CHOOSE i \in places : Place(i) = k]]

FoundFolders(folders, ds) ==
  LET new == {i \in DOMAIN FolderOrder :
                FolderOrder[i] \in ds /\ ~TreatedAsKnown(folders, FolderOrder[i])}
      All == [i \in DOMAIN FolderOrder |->
                [path |-> FolderOrder[i], created |-> FALSE, pending |-> TRUE]]
  IN Picked(All, new)

\* The loop of getWorkingSet that drops missing folders: erasing an element
\* moves the iterator twice, so the element after an erased one is skipped, and
\* of missing folders in a row every second one is erased, from the first on.
Erased(folders, ds) ==
  LET missing == {i \in DOMAIN folders : folders[i].path \notin ds \cup {Root}}
  IN {i \in missing : \E first \in missing :
        /\ first <= i /\ first..i \subseteq missing /\ first - 1 \notin missing
        /\ (i - first) % 2 = 0}

KeptFolders(folders, ds) == Picked(folders, DOMAIN folders \ Erased(folders, ds))

(***************************************************************************)
(* getWorkingSet: the new state of the library and the new working set.    *)
(* The previous working set is forgotten, whatever is left of it.          *)
(***************************************************************************)
Index(l, d, ds) ==
  LET fresh  == {f \in File : d[f] # Absent /\ (l.file[f].known # "yes" \/ IsChanged(l.file[f], d[f]))}
      resend == {f \in fresh : IsChanged(l.file[f], d[f]) /\ SeemsShrunk(l.file[f], d[f])}
      gone   == {f \in File : d[f] = Absent /\ l.file[f].known # "no"}
      old    == [i \in DOMAIN l.folders |-> [l.folders[i] EXCEPT !.pending = FALSE]]
      found  == FoundFolders(old, ds)
      root   == IF fresh # {} \/ found # <<>>
                THEN <<[path |-> Root, created |-> FALSE, pending |-> TRUE]>> ELSE <<>>
      all    == old \o found \o root
  IN [lib |-> [file    |-> [f \in File |-> IndexedObject(l.file[f], d[f])],
               folders |-> KeptFolders(all, ds)],
      ws  |-> [files      |-> fresh,
               delFiles   |-> resend \cup gone,
               delFolders |-> {all[i].path : i \in Erased(all, ds)},
               cur        |-> NoFile]]

EmptyWorkingSet == [files |-> {}, delFiles |-> {}, delFolders |-> {}, cur |-> NoFile]

PendingFolders(l) == {i \in DOMAIN l.folders : l.folders[i].pending}

\* WorkingSet::isEmpty looks at the four lists and not at the current file.
WorkingSetIsEmpty(w, l) ==
  w.files = {} /\ w.delFiles = {} /\ w.delFolders = {} /\ PendingFolders(l) = {}

\* The current file still has parts to be sent.
CurFileHasParts(w, l) == w.cur # NoFile /\ l.file[w.cur].np # {}

\* deleteCurFile, for a current file all of whose parts were sent.
DropSentCurFile(w, l) ==
  IF w.cur # NoFile /\ l.file[w.cur].np = {}
  THEN [w EXCEPT !.files = @ \ {w.cur}, !.cur = NoFile] ELSE w

\* getNextPart and acknowledgePart: the parts leave in increasing order.
NextPartOf(o) == Min(o.np)

(***************************************************************************)
(* readFile.  A known file is read through its stream, opened if need be,   *)
(* up to the size found by the indexing; a file whose object was dropped   *)
(* is read directly, which leaves a null pointer in the map.  "missing" is  *)
(* the result -2.                                                          *)
(***************************************************************************)
ReadFile(o, c, p) ==
  IF o.known # "yes"
  THEN [missing |-> c = Absent,
        data    |-> IF c = Absent THEN Hole ELSE PartOf(c, p, Hole),
        object  |-> [o EXCEPT !.known = "null"]]
  ELSE IF ~o.fd.open /\ c = Absent
  THEN [missing |-> TRUE, data |-> Hole, object |-> [o EXCEPT !.known = "no"]]
  ELSE LET file == IF o.fd.open THEN o.fd.data ELSE c
           pos  == IF p < Len(file) THEN p + 1 ELSE MaxParts
       IN [missing |-> FALSE,
           data    |-> IF p < o.size THEN PartOf(file, p, Garbage) ELSE Hole,
           object  |-> [o EXCEPT !.fd = IF p + 1 >= o.size THEN ClosedFd
                                        ELSE [open |-> TRUE, data |-> file, pos |-> pos]]]

-----------------------------------------------------------------------------
(* The user changes the directory behind the back of the program. *)

Change == changes < MaxChanges /\ changes' = changes + 1

SaveFile(f) ==
  /\ Change
  /\ Above[f] \subseteq dirs
  /\ \E c \in Content : c # disk[f] /\ disk' = [disk EXCEPT ![f] = c]
  /\ UNCHANGED <<dirs, lib, ws>>

RemoveFile(f) ==
  /\ Change
  /\ disk[f] # Absent
  /\ disk' = [disk EXCEPT ![f] = Absent]
  /\ UNCHANGED <<dirs, lib, ws>>

MakeFolder(d) ==
  /\ Change
  /\ d \notin dirs
  /\ Above[d] \subseteq dirs
  /\ dirs' = dirs \cup {d}
  /\ UNCHANGED <<disk, lib, ws>>

\* With everything in it.
RemoveFolder(d) ==
  /\ Change
  /\ d \in dirs
  /\ dirs' = {e \in dirs : e # d /\ d \notin Above[e]}
  /\ disk' = [f \in File |-> IF d \in Above[f] THEN Absent ELSE disk[f]]
  /\ UNCHANGED <<lib, ws>>

UserChange ==
  \/ \E f \in File : SaveFile(f) \/ RemoveFile(f)
  \/ \E d \in Folder : MakeFolder(d) \/ RemoveFolder(d)

FilesystemClientInit ==
  /\ \E tree \in InitialTrees : disk = tree[1] /\ dirs = tree[2]
  /\ changes = 0
  /\ lib = [file |-> [f \in File |-> NoObject], folders |-> <<>>]
  /\ ws = EmptyWorkingSet

=============================================================================
