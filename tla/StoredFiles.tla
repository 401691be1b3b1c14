----------------------------- MODULE StoredFiles -----------------------------
(***************************************************************************)
(* Files and the rows that name them: the drawings' revisions with a file  *)
(* of each kind, and the photos and plate data that are stored first and   *)
(* named by a later request.  Storage and database have no transaction in  *)
(* common: a request saves its files, commits its rows, and only then      *)
(* removes the file it has replaced.  The server may die in between.       *)
(*                                                                         *)
(* One drawing; a file is <<where it is stored, number>>, the number being *)
(* new (the code's is random).                                             *)
(***************************************************************************)
EXTENDS Integers, FiniteSets

CONSTANTS
  Uploaders,     \* sessions
  Revisions,     \* revision numbers of the drawing
  FileKinds,     \* DRAWING and others
  NoFile, NoRevision, NoUpload,
  MaxFiles       \* bound of the model: files saved

ASSUME FileAssumption ==
  /\ "DRAWING" \in FileKinds /\ "PHOTO" \notin FileKinds
  /\ IsFiniteSet(Revisions)
  /\ NoFile \notin (FileKinds \cup {"PHOTO"}) \X Nat
  /\ MaxFiles \in Nat

VARIABLES
  serverUp,
  stored,        \* the files in storage
  saved,         \* how many were ever saved
  revisions,     \* [known, legacy, files]: legacy is the old column of the revision
  current,       \* the drawing's current revision
  attached,      \* the files named by the attachments
  upload         \* what each request is doing

fileVars == <<serverUp, stored, saved, revisions, current, attached, upload>>

NewName(kind) == <<kind, saved + 1>>
NoFiles == [k \in FileKinds |-> NoFile]
FilesOf(files) == {files[k] : k \in FileKinds} \ {NoFile}

\* What the committed rows name.
NamedFiles ==
  attached \cup UNION {(FilesOf(revisions[r].files) \cup {revisions[r].legacy}) \ {NoFile} : r \in Revisions}
------------------------------------------------------------------------------
\* A revision of the time before it had files of several kinds names one file
\* in its own column.
FileInit ==
  /\ serverUp = TRUE
  /\ saved \in {0, 1}
  /\ stored = IF saved = 1 THEN {<<"DRAWING", 1>>} ELSE {}
  /\ revisions \in
       {[r \in Revisions |->
           [known |-> r \in old, legacy |-> IF r \in old THEN <<"DRAWING", 1>> ELSE NoFile, files |-> NoFiles]] :
        old \in {R \in SUBSET Revisions : Cardinality(R) = saved}}
  /\ current = NoRevision
  /\ attached = {}
  /\ upload = [s \in Uploaders |-> NoUpload]

\* A request that is going to save files of these kinds.
Begin(s, op, r, kinds, old, asCurrent) ==
  /\ serverUp /\ upload[s] = NoUpload
  /\ upload' = [upload EXCEPT ![s] =
       [op |-> op, revision |-> r, left |-> kinds, new |-> NoFiles, old |-> old,
        asCurrent |-> asCurrent, step |-> "SAVE"]]
  /\ UNCHANGED <<serverUp, stored, saved, revisions, current, attached>>

\* With no file, one, or a bundle of them.
CreateRevision(s, r, kinds, asCurrent) == Begin(s, "CREATE", r, kinds, NoFile, asCurrent)

UploadRevisionFile(s, r, k) ==
  /\ revisions[r].known
  /\ revisions[r].files[k] = NoFile
  /\ Begin(s, "ADD", r, {k}, NoFile, FALSE)

ReplaceFileByKind(s, r, k) ==
  /\ revisions[r].files[k] # NoFile
  /\ Begin(s, "REPLACE", r, {k}, revisions[r].files[k], FALSE)

\* The row of the drawing, or none yet.
ReplaceFileLegacy(s, r, asCurrent) ==
  /\ revisions[r].known
  /\ IF revisions[r].files["DRAWING"] = NoFile
     THEN Begin(s, "ADD", r, {"DRAWING"}, revisions[r].legacy, asCurrent)
     ELSE Begin(s, "REPLACE", r, {"DRAWING"}, revisions[r].files["DRAWING"], asCurrent)

SaveFile(s) ==
  /\ upload[s] # NoUpload /\ upload[s].step = "SAVE"
  /\ saved < MaxFiles
  /\ \E k \in upload[s].left :
       /\ stored' = stored \cup {NewName(k)}
       /\ upload' = [upload EXCEPT ![s].left = @ \ {k}, ![s].new[k] = NewName(k)]
  /\ saved' = saved + 1
  /\ UNCHANGED <<serverUp, revisions, current, attached>>

\* Mutant: the file to be replaced goes too.
GiveUpAll(s) ==
  /\ stored' = stored \ (FilesOf(upload[s].new) \cup {upload[s].old})
  /\ upload' = [upload EXCEPT ![s] = NoUpload]
  /\ UNCHANGED <<serverUp, saved, revisions, current, attached>>

\* Too large, empty, or refused by the database: its own files are removed.
GiveUp(s) ==
  /\ stored' = stored \ FilesOf(upload[s].new)
  /\ upload' = [upload EXCEPT ![s] = NoUpload]
  /\ UNCHANGED <<serverUp, saved, revisions, current, attached>>

Fail(s) == upload[s] # NoUpload /\ upload[s].step = "SAVE" /\ GiveUp(s)

\* A revision number is taken once, and a kind has one row in a revision.
Conflicts(u) ==
  CASE u.op = "CREATE" -> revisions[u.revision].known
    [] u.op = "ADD" -> \E k \in FileKinds : u.new[k] # NoFile /\ revisions[u.revision].files[k] # NoFile
    [] OTHER -> FALSE

\* Mutant: a replacement leaves the old column.
RowsAfterOfKind(u, row) ==
  [known |-> TRUE,
   legacy |-> IF u.op = "CREATE" \/ (u.op = "ADD" /\ u.new["DRAWING"] # NoFile) THEN u.new["DRAWING"] ELSE row.legacy,
   files |-> [k \in FileKinds |-> IF u.new[k] # NoFile THEN u.new[k] ELSE row.files[k]]]

\* A new file goes into the row of its kind; the drawing's also into the old column.
RowsAfter(u, row) ==
  [known |-> TRUE,
   legacy |-> IF u.op = "CREATE" \/ u.new["DRAWING"] # NoFile THEN u.new["DRAWING"] ELSE row.legacy,
   files |-> [k \in FileKinds |-> IF u.new[k] # NoFile THEN u.new[k] ELSE row.files[k]]]

CommitFiles(s) ==
  LET u == upload[s] IN
  /\ u # NoUpload /\ u.step = "SAVE" /\ u.left = {}
  /\ ~Conflicts(u)
  /\ revisions' = [revisions EXCEPT ![u.revision] = RowsAfter(u, @)]
  /\ current' = IF u.asCurrent THEN u.revision ELSE current
  /\ upload' = [upload EXCEPT ![s] = IF u.old = NoFile THEN NoUpload ELSE [u EXCEPT !.step = "REMOVE"]]
  /\ UNCHANGED <<serverUp, stored, saved, attached>>

Refuse(s) ==
  /\ upload[s] # NoUpload /\ upload[s].step = "SAVE" /\ upload[s].left = {}
  /\ Conflicts(upload[s])
  /\ GiveUp(s)

\* Best effort: a file that cannot be removed stays.
RemoveOld(s, removed) ==
  /\ upload[s] # NoUpload /\ upload[s].step = "REMOVE"
  /\ stored' = IF removed THEN stored \ {upload[s].old} ELSE stored
  /\ upload' = [upload EXCEPT ![s] = NoUpload]
  /\ UNCHANGED <<serverUp, saved, revisions, current, attached>>

SetCurrentRevision(r) ==
  /\ serverUp
  /\ revisions[r].known
  /\ current' = r
  /\ UNCHANGED <<serverUp, stored, saved, revisions, attached, upload>>

\* A photo or plate data: the answer tells the client the name.
StorePhoto ==
  /\ serverUp
  /\ saved < MaxFiles
  /\ stored' = stored \cup {NewName("PHOTO")}
  /\ saved' = saved + 1
  /\ UNCHANGED <<serverUp, revisions, current, attached, upload>>

\* A result is saved with the photos the client names: all rows are written
\* anew, no file is ever removed.
AttachPhotos(photos) ==
  /\ serverUp
  /\ attached' = photos
  /\ UNCHANGED <<serverUp, stored, saved, revisions, current, upload>>

\* The server process stops or crashes: what was not committed is rolled back,
\* what was saved stays in storage.
StopServer ==
  /\ serverUp' = FALSE
  /\ upload' = [s \in Uploaders |-> NoUpload]
  /\ UNCHANGED <<stored, saved, revisions, current, attached>>

StartServer ==
  /\ serverUp' = TRUE
  /\ UNCHANGED <<stored, saved, revisions, current, attached, upload>>

Photos == {f \in stored : f[1] = "PHOTO"}

FileStep ==
  \/ \E s \in Uploaders :
       \/ \E r \in Revisions :
            \/ \E kinds \in SUBSET FileKinds, c \in BOOLEAN : CreateRevision(s, r, kinds, c)
            \/ \E k \in FileKinds : UploadRevisionFile(s, r, k) \/ ReplaceFileByKind(s, r, k)
            \/ \E c \in BOOLEAN : ReplaceFileLegacy(s, r, c)
       \/ SaveFile(s) \/ Fail(s) \/ CommitFiles(s) \/ Refuse(s)
       \/ \E removed \in BOOLEAN : RemoveOld(s, removed)
  \/ \E r \in Revisions : SetCurrentRevision(r)
  \/ StorePhoto
  \/ \E photos \in SUBSET Photos : AttachPhotos(photos)
  \/ StopServer

FilesNext == FileStep \/ StartServer

FileSpec == FileInit /\ [][FilesNext]_fileVars
------------------------------------------------------------------------------
\* The download of a file, by its row.
Opens(f) == f # NoFile /\ f \in stored

\* The list of drawings that still need one.
PendingNew == current = NoRevision \/ revisions[current].files["DRAWING"] = NoFile

(* Properties.                                                             *)

FileTypeOK ==
  LET Files == (FileKinds \cup {"PHOTO"}) \X (1..saved) IN
  /\ stored \subseteq Files /\ attached \subseteq Files
  /\ \A r \in Revisions : /\ revisions[r].legacy \in Files \cup {NoFile}
                          /\ FilesOf(revisions[r].files) \subseteq Files
  /\ current \in Revisions \cup {NoRevision}

\* Whatever overlaps and wherever the server dies, no row is left without its
\* file (files that no row names do remain): a drawing is on the list of those
\* that need one, or it opens, and the old column, which older clients read,
\* names the same file as the new row.
RowsHaveFiles ==
  /\ NamedFiles \subseteq stored
  /\ ~PendingNew => Opens(revisions[current].files["DRAWING"])
  /\ \A r \in Revisions :
       revisions[r].files["DRAWING"] # NoFile => revisions[r].legacy = revisions[r].files["DRAWING"]
=============================================================================
