---------------------------- MODULE Backups_proofs ----------------------------
(***************************************************************************)
(* Theorems about StoredFiles and Backups, for any number of sessions,     *)
(* revisions, kinds of file, backups and rehearsals.                       *)
(***************************************************************************)
EXTENDS Backups, FiniteSetTheorems, TLAPS

USE FileAssumption
------------------------------------------------------------------------------
(* The invariant of the files and their rows.                              *)

Names == Directories \X Nat

Revision == [known : BOOLEAN, legacy : Names \cup {NoFile}, files : [FileKinds -> Names \cup {NoFile}]]

Request ==
  [op : {"CREATE", "ADD", "REPLACE"}, revision : Revisions, left : SUBSET FileKinds,
   new : [FileKinds -> Names \cup {NoFile}], old : Names \cup {NoFile},
   asCurrent : BOOLEAN, step : {"SAVE", "REMOVE"}]

FilesTyped ==
  /\ serverUp \in BOOLEAN /\ saved \in Nat
  /\ stored \subseteq Names /\ attached \subseteq stored
  /\ revisions \in [Revisions -> Revision]
  /\ current \in Revisions \cup {NoRevision}
  /\ DOMAIN upload = Uploaders
  /\ \A s \in Uploaders : upload[s] # NoUpload => upload[s] \in Request

\* Numbers of files are given out one after the other, and what the rows of
\* attachments name are photos.
NumbersGiven ==
  /\ \A f \in stored : f[2] \in 1..saved
  /\ \A f \in attached : f[1] = "PHOTO"

RowFiles(row) == (FilesOf(row.files) \cup {row.legacy}) \ {NoFile}

\* A file has one row: that of its kind in its revision; the old column names
\* the drawing's file; a revision that is not known yet names nothing.
OneRow ==
  /\ \A r \in Revisions : RowFiles(revisions[r]) \subseteq stored
  /\ \A r, q \in Revisions : r # q => RowFiles(revisions[r]) \cap RowFiles(revisions[q]) = {}
  /\ \A r \in Revisions :
       /\ \A k \in FileKinds : revisions[r].files[k] # NoFile => revisions[r].files[k][1] = k
       /\ revisions[r].legacy # NoFile => revisions[r].legacy[1] = "DRAWING"
       /\ revisions[r].files["DRAWING"] # NoFile => revisions[r].legacy = revisions[r].files["DRAWING"]
       /\ ~revisions[r].known => RowFiles(revisions[r]) = {}

\* What a request has saved is its own until it commits: no row and no other
\* request has it.
NewIsOwn ==
  \A s \in Uploaders : upload[s] # NoUpload /\ upload[s].step = "SAVE" =>
    /\ FilesOf(upload[s].new) \subseteq stored
    /\ \A k \in FileKinds : upload[s].new[k] # NoFile => upload[s].new[k][1] = k
    /\ \A r \in Revisions : FilesOf(upload[s].new) \cap RowFiles(revisions[r]) = {}
    /\ \A t \in Uploaders : upload[t] # NoUpload =>
         /\ upload[t].old \notin FilesOf(upload[s].new)
         /\ t # s /\ upload[t].step = "SAVE" => FilesOf(upload[t].new) \cap FilesOf(upload[s].new) = {}

\* The file that a request replaces is of a kind it has a new file for, and is
\* named by no row but the one it is going to write; afterwards by none.
OldIsReplaced ==
  \A s \in Uploaders : upload[s] # NoUpload /\ upload[s].old # NoFile =>
    LET u == upload[s] IN
    /\ u.old[1] \in FileKinds
    /\ u.old[2] <= saved
    /\ u.step = "SAVE" => (u.old[1] \in u.left \/ u.new[u.old[1]] # NoFile) /\ u.op # "CREATE"
    /\ \A r \in Revisions : u.old \in RowFiles(revisions[r]) => u.step = "SAVE" /\ r = u.revision

\* While the server is down there is no request.
DownIsIdle == ~serverUp => \A s \in Uploaders : upload[s] = NoUpload

FilesInv == FilesTyped /\ NumbersGiven /\ OneRow /\ NewIsOwn /\ OldIsReplaced /\ DownIsIdle
------------------------------------------------------------------------------
(* The steps of the server.                                                *)

\* At the start at most one revision has a file, the one that is stored.
LEMMA InitFiles == FileInit => FilesInv
<1> SUFFICES ASSUME FileInit PROVE FilesInv
  OBVIOUS
<1>1. /\ serverUp = TRUE /\ saved \in {0, 1} /\ attached = {} /\ current = NoRevision
      /\ stored = IF saved = 1 THEN {<<"DRAWING", 1>>} ELSE {}
      /\ upload = [s \in Uploaders |-> NoUpload]
  BY DEF FileInit
<1>2. PICK old \in SUBSET Revisions :
        /\ Cardinality(old) = saved
        /\ revisions = [r \in Revisions |->
             [known |-> r \in old, legacy |-> IF r \in old THEN <<"DRAWING", 1>> ELSE NoFile, files |-> NoFiles]]
  BY DEF FileInit
<1>3. \/ old = {} 
      \/ saved = 1 /\ \E r : old = {r}
  <2>1. IsFiniteSet(old)
    BY FS_Subset
  <2> QED BY <1>1, <1>2, <2>1, FS_EmptySet, FS_Singleton
<1>4. <<"DRAWING", 1>> \in Names /\ <<"DRAWING", 1>> # NoFile /\ <<"DRAWING", 1>>[1] = "DRAWING"
  BY DEF Names, Directories
<1>5. /\ NoFiles \in [FileKinds -> Names \cup {NoFile}]
      /\ \A k \in FileKinds : NoFiles[k] = NoFile
      /\ FilesOf(NoFiles) = {}
  BY DEF NoFiles, FilesOf
<1>6. \A r \in Revisions :
        /\ revisions[r].known = (r \in old)
        /\ revisions[r].legacy = IF r \in old THEN <<"DRAWING", 1>> ELSE NoFile
        /\ revisions[r].files = NoFiles
        /\ RowFiles(revisions[r]) = IF r \in old THEN {<<"DRAWING", 1>>} ELSE {}
  BY <1>2, <1>4, <1>5 DEF RowFiles
<1>7. FilesTyped
  <2>1. revisions \in [Revisions -> Revision]
    BY <1>2, <1>4, <1>5 DEF Revision
  <2> QED BY <1>1, <1>4, <2>1 DEF FilesTyped
<1>8. NumbersGiven
  BY <1>1 DEF NumbersGiven
<1>9. OneRow
  <2>1. \A r \in Revisions : RowFiles(revisions[r]) \subseteq stored
    BY <1>1, <1>3, <1>6
  <2>2. \A r, q \in Revisions : r # q => RowFiles(revisions[r]) \cap RowFiles(revisions[q]) = {}
    BY <1>3, <1>6
  <2>3. \A r \in Revisions :
          /\ \A k \in FileKinds : revisions[r].files[k] = NoFile
          /\ revisions[r].legacy # NoFile => revisions[r].legacy = <<"DRAWING", 1>>
          /\ ~revisions[r].known => RowFiles(revisions[r]) = {}
    BY <1>5, <1>6
  <2> QED BY <1>4, <2>1, <2>2, <2>3 DEF OneRow
<1>10. NewIsOwn /\ OldIsReplaced /\ DownIsIdle
  BY <1>1 DEF NewIsOwn, OldIsReplaced, DownIsIdle
<1> QED BY <1>7, <1>8, <1>9, <1>10 DEF FilesInv

\* A request that begins has no file yet; what it is to replace is the file of
\* a row of its revision.
LEMMA BeginFiles ==
  ASSUME FilesInv, NEW s \in Uploaders, NEW op \in {"CREATE", "ADD", "REPLACE"}, NEW r \in Revisions,
         NEW kinds \in SUBSET FileKinds, NEW old \in Names \cup {NoFile}, NEW asCurrent \in BOOLEAN,
         old # NoFile => op # "CREATE" /\ old[1] \in kinds /\ old \in RowFiles(revisions[r]),
         Begin(s, op, r, kinds, old, asCurrent)
  PROVE  FilesInv'
<1> DEFINE new == [op |-> op, revision |-> r, left |-> kinds, new |-> NoFiles, old |-> old,
                   asCurrent |-> asCurrent, step |-> "SAVE"]
<1>1. /\ serverUp /\ upload' = [upload EXCEPT ![s] = new]
      /\ UNCHANGED <<serverUp, stored, saved, revisions, current, attached>>
  BY Zenon DEF Begin
<1>2. NoFiles \in [FileKinds -> Names \cup {NoFile}] /\ FilesOf(NoFiles) = {}
      /\ \A k \in FileKinds : NoFiles[k] = NoFile
  BY DEF NoFiles, FilesOf
<1>3. /\ DOMAIN upload' = Uploaders
      /\ upload'[s] = new
      /\ \A t \in Uploaders \ {s} : upload'[t] = upload[t]
  BY <1>1 DEF FilesInv, FilesTyped
<1>4. FilesTyped'
  <2>1. new \in Request
    BY <1>2 DEF Request
  <2> HIDE DEF new
  <2> QED BY <1>1, <1>3, <2>1 DEF FilesInv, FilesTyped
<1>5. NumbersGiven' /\ OneRow'
  <2>1. stored' = stored /\ saved' = saved /\ revisions' = revisions /\ attached' = attached
    BY <1>1
  <2>2. NumbersGiven'
    BY <2>1 DEF FilesInv, NumbersGiven
  <2>3. OneRow'
    BY <2>1, Zenon DEF FilesInv, OneRow
  <2> QED BY <2>2, <2>3
<1>6. old # NoFile => /\ old \in stored
                      /\ old[2] <= saved
                      /\ \A q \in Revisions : old \in RowFiles(revisions[q]) => q = r
                      /\ \A t \in Uploaders : upload[t] # NoUpload /\ upload[t].step = "SAVE" =>
                            old \notin FilesOf(upload[t].new)
  BY DEF FilesInv, OneRow, NewIsOwn, NumbersGiven
<1>7. NewIsOwn'
  <2>1. \A t \in Uploaders : NoFile \notin FilesOf(upload[t].new)
    BY DEF FilesOf
  <2> QED BY <1>1, <1>2, <1>3, <1>6, <2>1 DEF FilesInv, NewIsOwn
<1>8. OldIsReplaced'
  BY <1>1, <1>2, <1>3, <1>6 DEF FilesInv, OldIsReplaced
<1>9. DownIsIdle'
  BY <1>1 DEF DownIsIdle
<1> QED BY <1>4, <1>5, <1>7, <1>8, <1>9 DEF FilesInv

\* The rows of the revisions keep their files as long as these stay in storage.
LEMMA SameRows ==
  ASSUME OneRow, revisions' = revisions, \A r \in Revisions : RowFiles(revisions[r]) \subseteq stored'
  PROVE  OneRow'
BY DEF OneRow

\* A file that is saved gets a number of its own: nobody has it yet.
LEMMA SaveFiles ==
  ASSUME FilesInv, NEW s \in Uploaders, SaveFile(s)
  PROVE  FilesInv'
<1>1. PICK k \in upload[s].left :
        /\ stored' = stored \cup {NewName(k)}
        /\ upload' = [upload EXCEPT ![s].left = @ \ {k}, ![s].new[k] = NewName(k)]
  BY Zenon DEF SaveFile
<1>2. /\ upload[s] # NoUpload /\ upload[s].step = "SAVE"
      /\ saved' = saved + 1
      /\ UNCHANGED <<serverUp, revisions, current, attached>>
  BY Zenon DEF SaveFile
<1>3. /\ upload[s] \in Request /\ k \in FileKinds /\ saved \in Nat /\ DOMAIN upload = Uploaders
  BY <1>2 DEF FilesInv, FilesTyped, Request
<1> DEFINE f == <<k, saved + 1>>
           new == [upload[s].new EXCEPT ![k] = f]
           u == [[upload[s] EXCEPT !.left = @ \ {k}] EXCEPT !.new = new]
<1>4. NewName(k) = f /\ f \in Names /\ f # NoFile /\ f[1] = k /\ f[2] = saved + 1
  BY <1>3 DEF NewName, Names, Directories
<1>5. /\ upload'[s] = u
      /\ DOMAIN upload' = Uploaders
      /\ \A t \in Uploaders \ {s} : upload'[t] = upload[t]
  BY <1>1, <1>3, <1>4
<1>6. /\ new \in [FileKinds -> Names \cup {NoFile}]
      /\ new[k] = f
      /\ \A j \in FileKinds \ {k} : new[j] = upload[s].new[j]
      /\ FilesOf(new) \subseteq FilesOf(upload[s].new) \cup {f}
  BY <1>3, <1>4 DEF Request, FilesOf
<1>7. /\ u \in Request
      /\ u.op = upload[s].op /\ u.revision = upload[s].revision /\ u.left = upload[s].left \ {k} /\ u.new = new
      /\ u.old = upload[s].old /\ u.asCurrent = upload[s].asCurrent /\ u.step = upload[s].step
  <2> HIDE DEF new
  <2> QED BY <1>3, <1>6 DEF Request
<1> HIDE DEF u, new, f
<1>8. FilesTyped'
  BY <1>1, <1>2, <1>3, <1>4, <1>5, <1>7 DEF FilesInv, FilesTyped
<1>9. NumbersGiven'
  BY <1>1, <1>2, <1>3, <1>4 DEF FilesInv, NumbersGiven
<1>10. OneRow'
  <2>1. \A r \in Revisions : RowFiles(revisions[r]) \subseteq stored'
    BY <1>1 DEF FilesInv, OneRow
  <2> QED BY <1>2, <2>1, SameRows DEF FilesInv
<1>11. f \notin stored
  BY <1>3, <1>4 DEF FilesInv, NumbersGiven
<1>12. \A t \in Uploaders : upload[t] # NoUpload => f # upload[t].old
  BY <1>3, <1>4 DEF FilesInv, FilesTyped, OldIsReplaced, Request
<1>13. NewIsOwn'
  <2>1. ASSUME NEW t \in Uploaders, upload'[t] # NoUpload, upload'[t].step = "SAVE"
        PROVE  /\ upload[t] # NoUpload /\ upload[t].step = "SAVE"
               /\ FilesOf(upload'[t].new) \subseteq FilesOf(upload[t].new) \cup (IF t = s THEN {f} ELSE {})
    BY <1>2, <1>5, <1>6, <1>7, <2>1
  <2>2. \A t \in Uploaders : upload'[t] # NoUpload => upload[t] # NoUpload /\ upload'[t].old = upload[t].old
    BY <1>2, <1>5, <1>7
  <2>3. ASSUME NEW t \in Uploaders, upload'[t] # NoUpload, upload'[t].step = "SAVE"
        PROVE  FilesOf(upload'[t].new) \subseteq stored'
    BY <1>1, <1>4, <2>1, <2>3 DEF FilesInv, NewIsOwn
  <2>4. ASSUME NEW t \in Uploaders, upload'[t] # NoUpload, upload'[t].step = "SAVE", NEW j \in FileKinds,
               upload'[t].new[j] # NoFile
        PROVE  upload'[t].new[j][1] = j
    <3>1. upload[t].new[j] # NoFile => upload[t].new[j][1] = j
      BY <2>1, <2>4 DEF FilesInv, NewIsOwn
    <3> QED BY <1>4, <1>5, <1>6, <1>7, <2>4, <3>1
  <2>5. ASSUME NEW t \in Uploaders, upload'[t] # NoUpload, upload'[t].step = "SAVE", NEW r \in Revisions
        PROVE  FilesOf(upload'[t].new) \cap RowFiles(revisions[r]) = {}
    BY <1>11, <2>1, <2>5 DEF FilesInv, NewIsOwn, OneRow
  <2>6. ASSUME NEW t \in Uploaders, upload'[t] # NoUpload, upload'[t].step = "SAVE",
               NEW v \in Uploaders, upload'[v] # NoUpload
        PROVE  upload'[v].old \notin FilesOf(upload'[t].new)
    BY <1>12, <2>1, <2>2, <2>6 DEF FilesInv, NewIsOwn
  <2>7. ASSUME NEW t \in Uploaders, upload'[t] # NoUpload, upload'[t].step = "SAVE",
               NEW v \in Uploaders, v # t, upload'[v] # NoUpload, upload'[v].step = "SAVE"
        PROVE  FilesOf(upload'[v].new) \cap FilesOf(upload'[t].new) = {}
    <3>1. FilesOf(upload[v].new) \cap FilesOf(upload[t].new) = {}
      BY <2>1, <2>7 DEF FilesInv, NewIsOwn
    <3>2. f \notin FilesOf(upload[v].new) /\ f \notin FilesOf(upload[t].new)
      BY <1>11, <2>1, <2>7 DEF FilesInv, NewIsOwn
    <3> QED BY <2>1, <2>7, <3>1, <3>2
  <2> QED BY <1>2, <2>3, <2>4, <2>5, <2>6, <2>7 DEF NewIsOwn
<1>14. OldIsReplaced'
  <2> SUFFICES ASSUME NEW t \in Uploaders, upload'[t] # NoUpload, upload'[t].old # NoFile
               PROVE  /\ upload'[t].old[1] \in FileKinds
                      /\ upload'[t].old[2] <= saved'
                      /\ upload'[t].step = "SAVE" => /\ \/ upload'[t].old[1] \in upload'[t].left
                                                        \/ upload'[t].new[upload'[t].old[1]] # NoFile
                                                        /\ upload'[t].op # "CREATE"
                      /\ \A r \in Revisions : upload'[t].old \in RowFiles(revisions[r]) =>
                             upload'[t].step = "SAVE" /\ r = upload'[t].revision
    BY <1>2 DEF OldIsReplaced
  <2>1. /\ upload[t] # NoUpload /\ upload'[t].old = upload[t].old /\ upload'[t].step = upload[t].step
        /\ upload'[t].op = upload[t].op /\ upload'[t].revision = upload[t].revision
    BY <1>2, <1>5, <1>7
  <2>2. upload[t].old[1] \in FileKinds /\ upload[t].old[2] <= saved /\ upload[t].old[2] \in Nat
    BY <2>1 DEF FilesInv, FilesTyped, OldIsReplaced, Request, Names
  <2>3. \A j \in FileKinds : \/ j \in upload[t].left => j \in upload'[t].left
                             \/ upload'[t].new[j] # NoFile
    BY <1>4, <1>5, <1>6, <1>7
  <2>4. \A j \in FileKinds : upload[t].new[j] # NoFile => upload'[t].new[j] # NoFile
    BY <1>4, <1>5, <1>6, <1>7
  <2> QED BY <1>2, <1>3, <2>1, <2>2, <2>3, <2>4 DEF FilesInv, OldIsReplaced
<1>15. DownIsIdle'
  BY <1>2, <1>3, <1>5 DEF FilesInv, DownIsIdle
<1> QED BY <1>8, <1>9, <1>10, <1>13, <1>14, <1>15 DEF FilesInv

\* A request that gives up removes what it has saved, and nothing else.
LEMMA GiveUpFiles ==
  ASSUME FilesInv, NEW s \in Uploaders, upload[s] # NoUpload, upload[s].step = "SAVE", GiveUp(s)
  PROVE  FilesInv'
<1>1. /\ stored' = stored \ FilesOf(upload[s].new)
      /\ upload' = [upload EXCEPT ![s] = NoUpload]
      /\ UNCHANGED <<serverUp, saved, revisions, current, attached>>
  BY DEF GiveUp
<1>2. \A t \in Uploaders : upload'[t] # NoUpload => t # s /\ upload'[t] = upload[t]
  BY <1>1 DEF FilesInv, FilesTyped
<1>3. FilesTyped'
  <2>1. attached \cap FilesOf(upload[s].new) = {}
    BY DEF FilesInv, NumbersGiven, NewIsOwn, FilesOf
  <2> QED BY <1>1, <1>2, <2>1 DEF FilesInv, FilesTyped
<1>4. NumbersGiven'
  BY <1>1 DEF FilesInv, NumbersGiven
<1>5. OneRow'
  <2>1. \A r \in Revisions : RowFiles(revisions[r]) \subseteq stored'
    BY <1>1 DEF FilesInv, OneRow, NewIsOwn
  <2> QED BY <1>1, <2>1, SameRows DEF FilesInv
<1>6. NewIsOwn'
  <2>1. \A t \in Uploaders : t # s /\ upload[t] # NoUpload /\ upload[t].step = "SAVE" =>
          FilesOf(upload[t].new) \subseteq stored'
    BY <1>1 DEF FilesInv, NewIsOwn
  <2> QED BY <1>1, <1>2, <2>1 DEF FilesInv, NewIsOwn
<1>7. OldIsReplaced'
  BY <1>1, <1>2 DEF FilesInv, OldIsReplaced
<1>8. DownIsIdle'
  BY <1>1, <1>2 DEF FilesInv, DownIsIdle
<1> QED BY <1>3, <1>4, <1>5, <1>6, <1>7, <1>8 DEF FilesInv

\* The file that was replaced is named by no row any more.
LEMMA RemoveFiles ==
  ASSUME FilesInv, NEW s \in Uploaders, NEW removed \in BOOLEAN, RemoveOld(s, removed)
  PROVE  FilesInv'
<1>1. /\ upload[s] # NoUpload /\ upload[s].step = "REMOVE"
      /\ stored' = stored \/ stored' = stored \ {upload[s].old}
      /\ upload' = [upload EXCEPT ![s] = NoUpload]
      /\ UNCHANGED <<serverUp, saved, revisions, current, attached>>
  BY DEF RemoveOld
<1>2. \A t \in Uploaders : upload'[t] # NoUpload => t # s /\ upload'[t] = upload[t]
  BY <1>1 DEF FilesInv, FilesTyped
<1>3. FilesTyped'
  <2>1. upload[s].old \notin attached
    BY <1>1 DEF FilesInv, FilesTyped, NumbersGiven, OldIsReplaced, Names, Directories
  <2> QED BY <1>1, <1>2, <2>1 DEF FilesInv, FilesTyped
<1>4. NumbersGiven'
  BY <1>1 DEF FilesInv, NumbersGiven
<1>5. OneRow'
  <2>1. \A r \in Revisions : upload[s].old \notin RowFiles(revisions[r])
    BY <1>1 DEF FilesInv, OldIsReplaced, RowFiles
  <2>2. \A r \in Revisions : RowFiles(revisions[r]) \subseteq stored'
    BY <1>1, <2>1 DEF FilesInv, OneRow
  <2> QED BY <1>1, <2>2, SameRows DEF FilesInv
<1>6. NewIsOwn'
  <2>1. \A t \in Uploaders : upload[t] # NoUpload /\ upload[t].step = "SAVE" =>
          upload[s].old \notin FilesOf(upload[t].new) /\ FilesOf(upload[t].new) \subseteq stored
    BY <1>1 DEF FilesInv, NewIsOwn
  <2>2. \A t \in Uploaders : upload[t] # NoUpload /\ upload[t].step = "SAVE" =>
          FilesOf(upload[t].new) \subseteq stored'
    BY <1>1, <2>1
  <2> QED BY <1>1, <1>2, <2>2 DEF FilesInv, NewIsOwn
<1>7. OldIsReplaced'
  BY <1>1, <1>2 DEF FilesInv, OldIsReplaced
<1>8. DownIsIdle'
  BY <1>1, <1>2 DEF FilesInv, DownIsIdle
<1> QED BY <1>3, <1>4, <1>5, <1>6, <1>7, <1>8 DEF FilesInv

\* The rows a request commits name its new files in the place of the old ones.
LEMMA CommitRows ==
  ASSUME FilesInv, NEW s \in Uploaders, CommitFiles(s)
  PROVE  LET u == upload[s]
             row == revisions[u.revision]
             new == RowsAfter(u, row)
         IN  /\ u \in Request /\ u.left = {} /\ u.step = "SAVE"
             /\ new \in Revision /\ new.known
             /\ RowFiles(new) \subseteq RowFiles(row) \cup FilesOf(u.new)
             /\ \A k \in FileKinds : new.files[k] # NoFile => new.files[k][1] = k
             /\ new.legacy # NoFile => new.legacy[1] = "DRAWING"
             /\ new.files["DRAWING"] # NoFile => new.legacy = new.files["DRAWING"]
             /\ u.old # NoFile => u.old \notin RowFiles(new)
<1> DEFINE u == upload[s]
           row == revisions[u.revision]
           new == RowsAfter(u, row)
<1>1. u # NoUpload /\ u.step = "SAVE" /\ u.left = {} /\ ~Conflicts(u)
  BY DEF CommitFiles
<1>2. u \in Request /\ row \in Revision /\ u.revision \in Revisions
  BY <1>1 DEF FilesInv, FilesTyped, Request
<1>3. /\ new.known = TRUE
      /\ new.legacy = IF u.op = "CREATE" \/ u.new["DRAWING"] # NoFile THEN u.new["DRAWING"] ELSE row.legacy
      /\ new.files = [k \in FileKinds |-> IF u.new[k] # NoFile THEN u.new[k] ELSE row.files[k]]
      /\ new = [known |-> new.known, legacy |-> new.legacy, files |-> new.files]
  BY DEF RowsAfter
<1>4. u.new \in [FileKinds -> Names \cup {NoFile}] /\ row.files \in [FileKinds -> Names \cup {NoFile}]
      /\ row.legacy \in Names \cup {NoFile}
  BY <1>2 DEF Request, Revision
<1>5. u.op = "CREATE" => RowFiles(row) = {}
  BY <1>1, <1>2 DEF Conflicts, FilesInv, OneRow
<1>6. \A k \in FileKinds : row.files[k] # NoFile => row.files[k] \in RowFiles(row)
  BY DEF RowFiles, FilesOf
<1>7. /\ \A k \in FileKinds : row.files[k] # NoFile => row.files[k][1] = k
      /\ row.legacy # NoFile => row.legacy[1] = "DRAWING"
      /\ row.files["DRAWING"] # NoFile => row.legacy = row.files["DRAWING"]
  BY <1>2 DEF FilesInv, OneRow
<1>8. \A k \in FileKinds : u.new[k] # NoFile => u.new[k][1] = k /\ u.new[k] \in FilesOf(u.new)
  BY <1>1 DEF FilesInv, NewIsOwn, FilesOf
<1>9. u.old # NoFile => /\ u.old[1] \in FileKinds /\ u.new[u.old[1]] # NoFile /\ u.op # "CREATE"
                        /\ u.old \notin FilesOf(u.new)
  BY <1>1 DEF FilesInv, OldIsReplaced, NewIsOwn
<1> HIDE DEF u, row, new
<1>10. new \in Revision
  <2>1. new.files \in [FileKinds -> Names \cup {NoFile}]
    BY <1>3, <1>4
  <2>2. new.legacy \in Names \cup {NoFile}
    BY <1>3, <1>4
  <2> QED BY <1>3, <2>1, <2>2 DEF Revision
<1>11. \A k \in FileKinds : new.files[k] = IF u.new[k] # NoFile THEN u.new[k] ELSE row.files[k]
  BY <1>3
<1>12. RowFiles(new) \subseteq RowFiles(row) \cup FilesOf(u.new)
  BY <1>3, <1>8, <1>11 DEF RowFiles, FilesOf
<1>13. \A k \in FileKinds : new.files[k] # NoFile => new.files[k][1] = k
  BY <1>7, <1>8, <1>11
<1>14. new.legacy # NoFile => new.legacy[1] = "DRAWING"
  BY <1>3, <1>7, <1>8
<1>15. new.files["DRAWING"] # NoFile => new.legacy = new.files["DRAWING"]
  BY <1>3, <1>5, <1>6, <1>7, <1>11
<1>16. ASSUME u.old # NoFile PROVE u.old \notin RowFiles(new)
  <2>1. ASSUME NEW k \in FileKinds PROVE new.files[k] # u.old
    BY <1>7, <1>8, <1>9, <1>11, <1>16
  <2>2. new.legacy # u.old
    BY <1>3, <1>7, <1>8, <1>9, <1>16
  <2> QED BY <2>1, <2>2 DEF RowFiles, FilesOf
<1> QED BY <1>1, <1>2, <1>3, <1>10, <1>12, <1>13, <1>14, <1>15, <1>16 DEF u, row, new

\* A commit: what was the request's own is now its row's.
LEMMA CommitInv ==
  ASSUME FilesInv, NEW s \in Uploaders, CommitFiles(s)
  PROVE  FilesInv'
<1> DEFINE u == upload[s]
           row == revisions[u.revision]
           new == RowsAfter(u, row)
           after == IF u.old = NoFile THEN NoUpload ELSE [u EXCEPT !.step = "REMOVE"]
<1>1. /\ u # NoUpload /\ u.step = "SAVE"
      /\ revisions' = [revisions EXCEPT ![u.revision] = new]
      /\ current' = IF u.asCurrent THEN u.revision ELSE current
      /\ upload' = [upload EXCEPT ![s] = after]
      /\ UNCHANGED <<serverUp, stored, saved, attached>>
  BY DEF CommitFiles
<1>2. /\ u \in Request /\ u.left = {}
      /\ new \in Revision /\ new.known
      /\ RowFiles(new) \subseteq RowFiles(row) \cup FilesOf(u.new)
      /\ \A k \in FileKinds : new.files[k] # NoFile => new.files[k][1] = k
      /\ new.legacy # NoFile => new.legacy[1] = "DRAWING"
      /\ new.files["DRAWING"] # NoFile => new.legacy = new.files["DRAWING"]
      /\ u.old # NoFile => u.old \notin RowFiles(new)
  BY CommitRows
<1>3. u.revision \in Revisions
  BY <1>2 DEF Request
<1>4. /\ DOMAIN upload' = Uploaders
      /\ \A t \in Uploaders \ {s} : upload'[t] = upload[t]
      /\ upload'[s] # NoUpload => /\ u.old # NoFile
                                  /\ upload'[s] = [u EXCEPT !.step = "REMOVE"]
                                  /\ upload'[s] \in Request
                                  /\ upload'[s].step = "REMOVE" /\ upload'[s].old = u.old
  <2>1. [u EXCEPT !.step = "REMOVE"] \in Request /\ [u EXCEPT !.step = "REMOVE"].step = "REMOVE"
        /\ [u EXCEPT !.step = "REMOVE"].old = u.old
    BY <1>2 DEF Request
  <2> HIDE DEF u
  <2>2. DOMAIN upload = Uploaders
    BY DEF FilesInv, FilesTyped
  <2> QED BY <1>1, <2>1, <2>2
<1>5. /\ revisions' \in [Revisions -> Revision]
      /\ revisions'[u.revision] = new
      /\ \A r \in Revisions \ {u.revision} : revisions'[r] = revisions[r]
  BY <1>1, <1>2, <1>3 DEF FilesInv, FilesTyped
<1> HIDE DEF new, after
<1>6. FilesTyped'
  BY <1>1, <1>3, <1>4, <1>5 DEF FilesInv, FilesTyped
<1>7. NumbersGiven'
  BY <1>1 DEF FilesInv, NumbersGiven
<1>8. /\ FilesOf(u.new) \subseteq stored
      /\ \A r \in Revisions : FilesOf(u.new) \cap RowFiles(revisions[r]) = {}
      /\ \A t \in Uploaders : upload[t] # NoUpload =>
           /\ upload[t].old \notin FilesOf(u.new)
           /\ t # s /\ upload[t].step = "SAVE" => FilesOf(upload[t].new) \cap FilesOf(u.new) = {}
  BY <1>1 DEF FilesInv, NewIsOwn
<1> HIDE DEF u, row
<1>9. \A r \in Revisions :
        \/ RowFiles(revisions'[r]) \subseteq RowFiles(revisions[r])
        \/ r = u.revision /\ RowFiles(revisions'[r]) \subseteq RowFiles(revisions[r]) \cup FilesOf(u.new)
  BY <1>2, <1>5 DEF row
<1>10. OneRow'
  <2>1. \A r \in Revisions : RowFiles(revisions'[r]) \subseteq stored'
    BY <1>1, <1>8, <1>9 DEF FilesInv, OneRow
  <2>2. ASSUME NEW r \in Revisions, NEW q \in Revisions, r # q
        PROVE  RowFiles(revisions'[r]) \cap RowFiles(revisions'[q]) = {}
    <3>1. RowFiles(revisions[r]) \cap RowFiles(revisions[q]) = {}
      BY <2>2 DEF FilesInv, OneRow
    <3> QED BY <1>8, <1>9, <2>2, <3>1
  <2>3. ASSUME NEW r \in Revisions
        PROVE  /\ \A k \in FileKinds : revisions'[r].files[k] # NoFile => revisions'[r].files[k][1] = k
               /\ revisions'[r].legacy # NoFile => revisions'[r].legacy[1] = "DRAWING"
               /\ revisions'[r].files["DRAWING"] # NoFile => revisions'[r].legacy = revisions'[r].files["DRAWING"]
               /\ ~revisions'[r].known => RowFiles(revisions'[r]) = {}
    <3>1. CASE r = u.revision
      BY <1>2, <1>5, <3>1
    <3>2. CASE r # u.revision
      <4>1. revisions'[r] = revisions[r]
        BY <1>5, <3>2
      <4>2. /\ \A k \in FileKinds : revisions[r].files[k] # NoFile => revisions[r].files[k][1] = k
            /\ revisions[r].legacy # NoFile => revisions[r].legacy[1] = "DRAWING"
            /\ revisions[r].files["DRAWING"] # NoFile => revisions[r].legacy = revisions[r].files["DRAWING"]
            /\ ~revisions[r].known => RowFiles(revisions[r]) = {}
        BY DEF FilesInv, OneRow
      <4> QED BY <4>1, <4>2
    <3> QED BY <3>1, <3>2
  <2> QED BY <2>1, <2>2, <2>3 DEF OneRow
<1>11. ASSUME NEW t \in Uploaders, upload'[t] # NoUpload, upload'[t].step = "SAVE"
       PROVE  t # s /\ upload'[t] = upload[t]
  BY <1>4, <1>11
<1>12. ASSUME NEW t \in Uploaders, upload'[t] # NoUpload
       PROVE  upload[t] # NoUpload /\ upload'[t].old = upload[t].old
  BY <1>1, <1>4, <1>12 DEF u
<1>13. NewIsOwn'
  <2>1. ASSUME NEW t \in Uploaders, upload'[t] # NoUpload, upload'[t].step = "SAVE", NEW r \in Revisions
        PROVE  FilesOf(upload'[t].new) \cap RowFiles(revisions'[r]) = {}
    <3>1. FilesOf(upload[t].new) \cap RowFiles(revisions[r]) = {} /\ FilesOf(upload[t].new) \cap FilesOf(u.new) = {}
      BY <1>8, <1>11, <2>1 DEF FilesInv, NewIsOwn
    <3> QED BY <1>9, <1>11, <2>1, <3>1
  <2>2. ASSUME NEW t \in Uploaders, upload'[t] # NoUpload, upload'[t].step = "SAVE"
        PROVE  /\ FilesOf(upload'[t].new) \subseteq stored'
               /\ \A k \in FileKinds : upload'[t].new[k] # NoFile => upload'[t].new[k][1] = k
    BY <1>1, <1>11, <2>2 DEF FilesInv, NewIsOwn
  <2>3. ASSUME NEW t \in Uploaders, upload'[t] # NoUpload, upload'[t].step = "SAVE",
               NEW v \in Uploaders, upload'[v] # NoUpload
        PROVE  /\ upload'[v].old \notin FilesOf(upload'[t].new)
               /\ v # t /\ upload'[v].step = "SAVE" => FilesOf(upload'[v].new) \cap FilesOf(upload'[t].new) = {}
    BY <1>11, <1>12, <2>3 DEF FilesInv, NewIsOwn
  <2> QED BY <2>1, <2>2, <2>3, Zenon DEF NewIsOwn
<1>14. OldIsReplaced'
  <2>1. ASSUME NEW t \in Uploaders, t # s, upload'[t] # NoUpload, upload'[t].old # NoFile, NEW r \in Revisions,
               upload'[t].old \in RowFiles(revisions'[r])
        PROVE  upload'[t].step = "SAVE" /\ r = upload'[t].revision
    <3>1. upload'[t] = upload[t] /\ upload[t].old \in RowFiles(revisions[r])
      BY <1>4, <1>8, <1>9, <2>1
    <3> QED BY <2>1, <3>1 DEF FilesInv, OldIsReplaced
  <2>2. ASSUME upload'[s] # NoUpload, upload'[s].old # NoFile, NEW r \in Revisions
        PROVE  upload'[s].old \notin RowFiles(revisions'[r])
    <3>1. CASE r = u.revision
      BY <1>2, <1>4, <1>5, <2>2, <3>1
    <3>2. CASE r # u.revision
      <4>1. u.old \in RowFiles(revisions[r]) => r = u.revision
        BY <1>1, <1>4, <2>2 DEF FilesInv, OldIsReplaced, u
      <4> QED BY <1>4, <1>5, <2>2, <3>2, <4>1
    <3> QED BY <3>1, <3>2
  <2>3. ASSUME NEW t \in Uploaders, upload'[t] # NoUpload, upload'[t].old # NoFile
        PROVE  upload'[t].old[1] \in FileKinds /\ upload'[t].old[2] <= saved'
    BY <1>1, <1>12, <2>3 DEF FilesInv, OldIsReplaced
  <2>4. ASSUME NEW t \in Uploaders, upload'[t] # NoUpload, upload'[t].old # NoFile, upload'[t].step = "SAVE"
        PROVE  /\ upload'[t].old[1] \in upload'[t].left \/ upload'[t].new[upload'[t].old[1]] # NoFile
               /\ upload'[t].op # "CREATE"
    BY <1>11, <2>4 DEF FilesInv, OldIsReplaced
  <2> QED BY <2>1, <2>2, <2>3, <2>4, Zenon DEF OldIsReplaced
<1>15. DownIsIdle'
  BY <1>1, <1>12 DEF FilesInv, DownIsIdle
<1> QED BY <1>6, <1>7, <1>10, <1>13, <1>14, <1>15 DEF FilesInv

\* A photo that is stored gets a number of its own, too.
LEMMA PhotoFiles ==
  ASSUME FilesInv, StorePhoto
  PROVE  FilesInv'
<1>1. /\ stored' = stored \cup {<<"PHOTO", saved + 1>>}
      /\ saved' = saved + 1
      /\ UNCHANGED <<serverUp, revisions, current, attached, upload>>
  BY DEF StorePhoto, NewName
<1>2. saved \in Nat /\ <<"PHOTO", saved + 1>> \in Names
  BY DEF FilesInv, FilesTyped, Names, Directories
<1>3. FilesTyped'
  BY <1>1, <1>2 DEF FilesInv, FilesTyped
<1>4. NumbersGiven'
  BY <1>1, <1>2 DEF FilesInv, NumbersGiven
<1>5. OneRow'
  <2>1. \A r \in Revisions : RowFiles(revisions[r]) \subseteq stored'
    BY <1>1 DEF FilesInv, OneRow
  <2> QED BY <1>1, <2>1, SameRows DEF FilesInv
<1>6. NewIsOwn'
  <2>1. \A t \in Uploaders : upload[t] # NoUpload /\ upload[t].step = "SAVE" => FilesOf(upload[t].new) \subseteq stored'
    BY <1>1 DEF FilesInv, NewIsOwn
  <2> QED BY <1>1, <2>1 DEF FilesInv, NewIsOwn
<1>7. OldIsReplaced'
  <2>1. \A t \in Uploaders : upload[t] # NoUpload /\ upload[t].old # NoFile => upload[t].old[2] <= saved'
    <3> TAKE t \in Uploaders
    <3> HAVE upload[t] # NoUpload /\ upload[t].old # NoFile
    <3>1. upload[t].old[2] <= saved /\ upload[t].old[2] \in Nat
      BY DEF FilesInv, FilesTyped, OldIsReplaced, Request, Names
    <3> QED BY <1>1, <1>2, <3>1
  <2> QED BY <1>1, <2>1 DEF FilesInv, OldIsReplaced
<1>8. DownIsIdle'
  BY <1>1 DEF FilesInv, DownIsIdle
<1> QED BY <1>3, <1>4, <1>5, <1>6, <1>7, <1>8 DEF FilesInv

\* Requests that only write rows leave the files and what names them alone.
LEMMA OtherFiles ==
  ASSUME FilesInv,
         \/ \E r \in Revisions : SetCurrentRevision(r)
         \/ \E photos \in SUBSET Photos : AttachPhotos(photos)
         \/ UNCHANGED fileVars
  PROVE  FilesInv'
<1>1. /\ UNCHANGED <<serverUp, stored, saved, revisions, upload>>
      /\ current' = current \/ current' \in Revisions
      /\ attached' = attached \/ attached' \in SUBSET Photos
  BY DEF SetCurrentRevision, AttachPhotos, fileVars
<1>2. FilesTyped'
  BY <1>1 DEF FilesInv, FilesTyped, Photos
<1>3. NumbersGiven'
  BY <1>1 DEF FilesInv, NumbersGiven, Photos
<1>4. OneRow'
  BY <1>1, SameRows DEF FilesInv, OneRow
<1>5. NewIsOwn' /\ OldIsReplaced' /\ DownIsIdle'
  BY <1>1 DEF FilesInv, NewIsOwn, OldIsReplaced, DownIsIdle
<1> QED BY <1>2, <1>3, <1>4, <1>5 DEF FilesInv

\* The server stops, and with it every request; or it starts.
LEMMA StopFiles ==
  ASSUME FilesInv, StopServer \/ StartServer
  PROVE  FilesInv'
<1>1. /\ UNCHANGED <<stored, saved, revisions, current, attached>>
      /\ serverUp' \in BOOLEAN
      /\ \/ serverUp' = FALSE /\ upload' = [s \in Uploaders |-> NoUpload]
         \/ serverUp' = TRUE /\ upload' = upload
  BY DEF StopServer, StartServer
<1>2. /\ DOMAIN upload' = Uploaders
      /\ \A s \in Uploaders : upload'[s] # NoUpload => serverUp' /\ upload'[s] = upload[s]
  BY <1>1 DEF FilesInv, FilesTyped
<1>3. FilesTyped' /\ NumbersGiven'
  BY <1>1, <1>2 DEF FilesInv, FilesTyped, NumbersGiven
<1>4. OneRow'
  BY <1>1, SameRows DEF FilesInv, OneRow
<1>5. NewIsOwn'
  BY <1>1, <1>2 DEF FilesInv, NewIsOwn
<1>6. OldIsReplaced'
  BY <1>1, <1>2 DEF FilesInv, OldIsReplaced
<1>7. DownIsIdle'
  BY <1>2 DEF DownIsIdle
<1> QED BY <1>3, <1>4, <1>5, <1>6, <1>7 DEF FilesInv

\* Every step of the server keeps the invariant.
LEMMA FileStepInv ==
  ASSUME FilesInv, FileStep
  PROVE  FilesInv'
<1>1. \A r \in Revisions : revisions[r] \in Revision
  BY DEF FilesInv, FilesTyped
<1>2. ASSUME NEW s \in Uploaders, NEW r \in Revisions, NEW kinds \in SUBSET FileKinds, NEW c \in BOOLEAN,
             CreateRevision(s, r, kinds, c)
      PROVE  FilesInv'
  BY <1>2, BeginFiles DEF CreateRevision
<1>3. ASSUME NEW s \in Uploaders, NEW r \in Revisions, NEW k \in FileKinds, UploadRevisionFile(s, r, k)
      PROVE  FilesInv'
  BY <1>3, BeginFiles DEF UploadRevisionFile
<1>4. ASSUME NEW r \in Revisions, NEW k \in FileKinds, revisions[r].files[k] # NoFile
      PROVE  /\ revisions[r].files[k] \in Names /\ revisions[r].files[k][1] \in {k}
             /\ revisions[r].files[k] \in RowFiles(revisions[r])
  BY <1>1, <1>4 DEF FilesInv, OneRow, Revision, RowFiles, FilesOf
<1>5. ASSUME NEW s \in Uploaders, NEW r \in Revisions, NEW k \in FileKinds, ReplaceFileByKind(s, r, k)
      PROVE  FilesInv'
  <2>1. revisions[r].files[k] # NoFile /\ Begin(s, "REPLACE", r, {k}, revisions[r].files[k], FALSE)
    BY <1>5 DEF ReplaceFileByKind
  <2> QED BY <1>4, <2>1, BeginFiles
<1>6. ASSUME NEW s \in Uploaders, NEW r \in Revisions, NEW c \in BOOLEAN, ReplaceFileLegacy(s, r, c)
      PROVE  FilesInv'
  <2>1. CASE revisions[r].files["DRAWING"] = NoFile
    <3>1. Begin(s, "ADD", r, {"DRAWING"}, revisions[r].legacy, c)
      BY <1>6, <2>1 DEF ReplaceFileLegacy
    <3>2. /\ revisions[r].legacy \in Names \cup {NoFile}
          /\ revisions[r].legacy # NoFile => /\ revisions[r].legacy[1] \in {"DRAWING"}
                                             /\ revisions[r].legacy \in RowFiles(revisions[r])
      BY <1>1 DEF FilesInv, OneRow, Revision, RowFiles
    <3> QED BY <3>1, <3>2, BeginFiles
  <2>2. CASE revisions[r].files["DRAWING"] # NoFile
    <3>1. Begin(s, "REPLACE", r, {"DRAWING"}, revisions[r].files["DRAWING"], c)
      BY <1>6, <2>2 DEF ReplaceFileLegacy
    <3> QED BY <1>4, <2>2, <3>1, BeginFiles
  <2> QED BY <2>1, <2>2
<1>7. ASSUME NEW s \in Uploaders, SaveFile(s) \/ Fail(s) \/ CommitFiles(s) \/ Refuse(s)
      PROVE  FilesInv'
  BY <1>7, SaveFiles, GiveUpFiles, CommitInv DEF Fail, Refuse
<1>8. ASSUME NEW s \in Uploaders, NEW removed \in BOOLEAN, RemoveOld(s, removed)
      PROVE  FilesInv'
  BY <1>8, RemoveFiles
<1> QED BY <1>2, <1>3, <1>5, <1>6, <1>7, <1>8, OtherFiles, PhotoFiles, StopFiles DEF FileStep

\* What the invariant says of the rows that are there.
LEMMA RowsFollow == FilesInv => FileTypeOK /\ RowsHaveFiles
<1> SUFFICES ASSUME FilesInv PROVE FileTypeOK /\ RowsHaveFiles
  OBVIOUS
<1>1. NamedFiles = attached \cup UNION {RowFiles(revisions[r]) : r \in Revisions}
  BY DEF NamedFiles, RowFiles
<1>2. NamedFiles \subseteq stored
  BY <1>1 DEF FilesInv, FilesTyped, OneRow
<1>3. stored \subseteq Directories \X (1..saved)
  BY DEF FilesInv, FilesTyped, NumbersGiven, Names
<1>4. \A r \in Revisions : /\ FilesOf(revisions[r].files) \subseteq stored
                           /\ revisions[r].legacy \in stored \cup {NoFile}
  BY DEF FilesInv, OneRow, RowFiles, FilesOf
<1>5. FileTypeOK
  BY <1>3, <1>4 DEF FilesInv, FilesTyped, FileTypeOK, Directories
<1>6. ~PendingNew => Opens(revisions[current].files["DRAWING"])
  <2> SUFFICES ASSUME ~PendingNew PROVE Opens(revisions[current].files["DRAWING"])
    OBVIOUS
  <2>1. current \in Revisions /\ revisions[current].files["DRAWING"] # NoFile
    BY DEF PendingNew, FilesInv, FilesTyped
  <2>2. revisions[current].files["DRAWING"] \in FilesOf(revisions[current].files)
    BY <2>1 DEF FilesOf
  <2> QED BY <1>4, <2>1, <2>2 DEF Opens
<1> QED BY <1>2, <1>5, <1>6 DEF RowsHaveFiles, FilesInv, OneRow

LEMMA FilesNextInv ==
  ASSUME FilesInv, [FilesNext]_fileVars
  PROVE  FilesInv'
BY FileStepInv, StopFiles, OtherFiles DEF FilesNext

\* The rows and the files are as they should be in every behaviour of the
\* server, however its requests overlap and wherever it dies.
THEOREM FilesKept == FileSpec => [](FileTypeOK /\ RowsHaveFiles)
<1>1. FilesInv /\ [FilesNext]_fileVars => FilesInv'
  BY FilesNextInv
<1> QED BY <1>1, InitFiles, RowsFollow, PTL DEF FileSpec
------------------------------------------------------------------------------
(* Backups.                                                                *)

BackupRow == [mode : {"maintenance", "online"}, rows : SUBSET Names, files : SUBSET Names, sound : BOOLEAN]

BackupMade ==
  [mode : {"maintenance", "online"}, step : {"DUMP", "COPY"}, rows : SUBSET Names, left : SUBSET Directories,
   listed : SUBSET Names, files : SUBSET Names]

Rehearsal ==
  [backup : Nat, step : {"RESTORE", "CLEAN", "RECORD"}, keep : BOOLEAN, restored : BOOLEAN, remains : BOOLEAN]

BackupsTyped ==
  /\ backup # NoBackup => backup \in BackupMade
  /\ backups \in Seq(BackupRow)
  /\ rehearsal # NoRehearsal => rehearsal \in Rehearsal

\* What the dump names was stored when it was taken, and is copied when its
\* directory's turn comes, unless it is removed before; a number that was given
\* out never comes again.  In maintenance nothing is removed.
DumpIsCopied ==
  backup # NoBackup =>
    /\ \A f \in backup.rows : f[2] <= saved /\ (f \in stored => f[1] \in backup.left \/ f \in backup.listed)
    /\ backup.mode = "maintenance" => ~serverUp /\ backup.rows \subseteq stored
    /\ backup.step = "DUMP" => backup.left = Directories

\* The same of the finished ones.
BackupsKept ==
  \A b \in DOMAIN backups :
    /\ \A f \in backups[b].rows : f[2] <= saved /\ (f \in stored => f \in backups[b].files)
    /\ backups[b].mode = "maintenance" => backups[b].rows \subseteq backups[b].files

\* A rehearsal that comes to its record has restored its backup and kept only
\* what was to be kept.
RecordIsNear ==
  rehearsal # NoRehearsal /\ rehearsal.step = "RECORD" => rehearsal.restored /\ rehearsal.remains = rehearsal.keep

BackupInv == FilesInv /\ BackupsTyped /\ DumpIsCopied /\ BackupsKept /\ RecordIsNear

\* A file that is gone does not come back, and while the server is down none goes.
LEMMA GoneIsGone ==
  ASSUME FilesInv, FileStep \/ StartServer \/ UNCHANGED fileVars
  PROVE  /\ saved \in Nat /\ saved' \in Nat /\ saved <= saved'
         /\ \A f \in stored' : f[2] <= saved => f \in stored
         /\ ~serverUp => stored \subseteq stored' /\ (FileStep => ~serverUp')
<1>1. saved \in Nat
  BY DEF FilesInv, FilesTyped
<1> DEFINE Goal == /\ saved' \in {saved, saved + 1}
                   /\ \A f \in stored' : f[2] <= saved => f \in stored
                   /\ ~serverUp => stored \subseteq stored' /\ (FileStep => ~serverUp')
<1>2. ASSUME UNCHANGED <<stored, saved>>, UNCHANGED serverUp \/ ~serverUp' PROVE Goal
  BY <1>2
<1>3. ASSUME saved' = saved + 1, NEW k, stored' = stored \cup {NewName(k)}, UNCHANGED serverUp PROVE Goal
  <2>1. NewName(k)[2] = saved + 1
    BY DEF NewName
  <2> QED BY <1>1, <1>3, <2>1
<1>4. ASSUME serverUp, saved' = saved, stored' \subseteq stored PROVE Goal
  BY <1>1, <1>4
<1>5. \A s \in Uploaders : upload[s] # NoUpload => serverUp
  BY DEF FilesInv, DownIsIdle
<1> HIDE DEF Goal
<1>6. ASSUME NEW s \in Uploaders, NEW r \in Revisions, NEW kinds \in SUBSET FileKinds, NEW c \in BOOLEAN,
             CreateRevision(s, r, kinds, c)
      PROVE  Goal
  BY <1>2, <1>6, Zenon DEF CreateRevision, Begin
<1>7. ASSUME NEW s \in Uploaders, NEW r \in Revisions, NEW k \in FileKinds,
             UploadRevisionFile(s, r, k) \/ ReplaceFileByKind(s, r, k)
      PROVE  Goal
  BY <1>2, <1>7, Zenon DEF UploadRevisionFile, ReplaceFileByKind, Begin
<1>8. ASSUME NEW s \in Uploaders, NEW r \in Revisions, NEW c \in BOOLEAN, ReplaceFileLegacy(s, r, c)
      PROVE  Goal
  <2>1. UNCHANGED <<serverUp, stored, saved>>
    BY <1>8, Zenon DEF ReplaceFileLegacy, Begin
  <2> QED BY <1>2, <2>1
<1>9. ASSUME NEW s \in Uploaders, SaveFile(s) PROVE Goal
  BY <1>3, <1>9, Zenon DEF SaveFile
<1>10. ASSUME NEW s \in Uploaders, Fail(s) \/ Refuse(s) PROVE Goal
  BY <1>4, <1>5, <1>10 DEF Fail, Refuse, GiveUp
<1>11. ASSUME NEW s \in Uploaders, CommitFiles(s) PROVE Goal
  BY <1>2, <1>11, Zenon DEF CommitFiles
<1>12. ASSUME NEW s \in Uploaders, NEW removed \in BOOLEAN, RemoveOld(s, removed) PROVE Goal
  BY <1>4, <1>5, <1>12 DEF RemoveOld
<1>13. ASSUME \/ \E r \in Revisions : SetCurrentRevision(r)
              \/ \E photos \in SUBSET Photos : AttachPhotos(photos)
              \/ StopServer
       PROVE  Goal
  BY <1>2, <1>13, Zenon DEF SetCurrentRevision, AttachPhotos, StopServer
<1>14. ASSUME StorePhoto PROVE Goal
  BY <1>3, <1>14, Zenon DEF StorePhoto
<1>15. FileStep => Goal
  BY <1>6, <1>7, <1>8, <1>9, <1>10, <1>11, <1>12, <1>13, <1>14, Zenon DEF FileStep
<1>16. ~FileStep => UNCHANGED <<stored, saved>>
  BY DEF StartServer, fileVars
<1> QED BY <1>1, <1>15, <1>16 DEF Goal

\* Nothing is backed up at the start.
LEMMA InitBackup == BackupInit => BackupInv
BY InitFiles DEF BackupInit, BackupInv, BackupsTyped, DumpIsCopied, BackupsKept, RecordIsNear

\* While the server works, what was dumped and what was backed up stays right.
LEMMA ServerBackup ==
  ASSUME BackupInv, UNCHANGED <<backup, lock, backups, rehearsal, record>>,
         FileStep \/ (StartServer /\ (backup # NoBackup => backup.mode = "online"))
  PROVE  BackupInv'
<1>1. FilesInv'
  BY FileStepInv, StopFiles DEF BackupInv
<1>2. /\ saved \in Nat /\ saved' \in Nat /\ saved <= saved'
      /\ \A f \in stored' : f[2] <= saved => f \in stored
      /\ ~serverUp => stored \subseteq stored' /\ (FileStep => ~serverUp')
  BY GoneIsGone DEF BackupInv
<1>3. \A f \in Names : f[2] <= saved => f[2] <= saved'
  BY <1>2 DEF Names
<1>4. BackupsTyped'
  BY DEF BackupInv, BackupsTyped
<1>5. DumpIsCopied'
  <2> SUFFICES ASSUME backup # NoBackup
               PROVE  /\ \A f \in backup.rows : /\ f[2] <= saved'
                                                /\ f \in stored' => f[1] \in backup.left \/ f \in backup.listed
                      /\ backup.mode = "maintenance" => ~serverUp' /\ backup.rows \subseteq stored'
    BY DEF BackupInv, DumpIsCopied
  <2>1. backup.rows \subseteq Names
    BY DEF BackupInv, BackupsTyped, BackupMade
  <2>2. /\ \A f \in backup.rows : f[2] <= saved /\ (f \in stored => f[1] \in backup.left \/ f \in backup.listed)
        /\ backup.mode = "maintenance" => ~serverUp /\ backup.rows \subseteq stored
    BY DEF BackupInv, DumpIsCopied
  <2>3. backup.mode = "maintenance" => FileStep
    <3>1. "maintenance" # "online"
      OBVIOUS
    <3> QED BY <3>1
  <2> QED BY <1>2, <1>3, <2>1, <2>2, <2>3
<1>6. BackupsKept'
  <2> SUFFICES ASSUME NEW b \in DOMAIN backups
               PROVE  /\ \A f \in backups[b].rows : f[2] <= saved' /\ (f \in stored' => f \in backups[b].files)
                      /\ backups[b].mode = "maintenance" => backups[b].rows \subseteq backups[b].files
    BY DEF BackupsKept
  <2>1. backups[b] \in BackupRow
    BY DEF BackupInv, BackupsTyped
  <2>2. /\ \A f \in backups[b].rows : f[2] <= saved /\ (f \in stored => f \in backups[b].files)
        /\ backups[b].mode = "maintenance" => backups[b].rows \subseteq backups[b].files
    BY DEF BackupInv, BackupsKept
  <2>3. \A f \in backups[b].rows : f \in Names
    BY <2>1 DEF BackupRow
  <2> QED BY <1>2, <1>3, <2>2, <2>3
<1>7. RecordIsNear'
  BY DEF BackupInv, RecordIsNear
<1> QED BY <1>1, <1>4, <1>5, <1>6, <1>7 DEF BackupInv

\* A step of a backup, or of a rehearsal, leaves the server alone.
LEMMA SameFiles == ASSUME FilesInv, UNCHANGED fileVars PROVE FilesInv'
BY OtherFiles

\* The steps of a backup.
LEMMA MakeBackup ==
  ASSUME BackupInv,
         \/ \E mode \in {"maintenance", "online"} : StartBackup(mode)
         \/ DumpDatabase
         \/ \E d \in Directories : ListDirectory(d)
         \/ \E f \in stored : CopyFile(f)
         \/ FailBackup \/ LoseBackup \/ RemoveStaleLock
  PROVE  BackupInv'
<1>1. UNCHANGED <<fileVars, backups, rehearsal, record>>
  BY Zenon DEF StartBackup, DumpDatabase, ListDirectory, CopyFile, FailBackup, LoseBackup, RemoveStaleLock,
               UnchangedRehearsal
<1>2. FilesInv' /\ BackupsKept' /\ RecordIsNear'
  <2>1. UNCHANGED <<stored, saved>>
    BY <1>1 DEF fileVars
  <2> QED BY <1>1, <2>1, SameFiles DEF BackupInv, BackupsKept, RecordIsNear
<1>3. ASSUME backup' # NoBackup => backup' \in BackupMade PROVE BackupsTyped'
  BY <1>1, <1>3 DEF BackupInv, BackupsTyped
<1>4. NamedFiles \subseteq stored /\ stored \subseteq Names /\ \A f \in stored : f[1] \in Directories /\ f[2] <= saved
  BY RowsFollow DEF BackupInv, RowsHaveFiles, FilesInv, FilesTyped, NumbersGiven, Names
<1>5. backup # NoBackup => backup \in BackupMade
  BY DEF BackupInv, BackupsTyped
<1>6. UNCHANGED <<stored, saved, serverUp>>
  BY <1>1 DEF fileVars
<1>7. backup # NoBackup =>
        /\ \A f \in backup.rows : f[2] <= saved /\ (f \in stored => f[1] \in backup.left \/ f \in backup.listed)
        /\ backup.mode = "maintenance" => ~serverUp /\ backup.rows \subseteq stored
        /\ backup.step = "DUMP" => backup.left = Directories
  BY DEF BackupInv, DumpIsCopied
<1>8. ASSUME NEW mode \in {"maintenance", "online"}, StartBackup(mode) PROVE BackupInv'
  <2>1. backup' = [mode |-> mode, step |-> "DUMP", rows |-> {}, left |-> Directories, listed |-> {}, files |-> {}]
        /\ (mode = "maintenance" => ~serverUp)
    BY <1>8 DEF StartBackup
  <2>2. backup' \in BackupMade /\ backup'.rows = {} /\ backup'.mode = mode
    BY <2>1 DEF BackupMade
  <2>3. DumpIsCopied'
    BY <1>6, <2>1, <2>2 DEF DumpIsCopied
  <2> QED BY <1>2, <1>3, <2>2, <2>3 DEF BackupInv
<1>9. ASSUME DumpDatabase PROVE BackupInv'
  <2>1. backup # NoBackup /\ backup.step = "DUMP" /\ backup' = [backup EXCEPT !.step = "COPY", !.rows = NamedFiles]
    BY <1>9 DEF DumpDatabase
  <2>2. /\ backup' \in BackupMade /\ backup'.rows = NamedFiles /\ backup'.left = Directories
        /\ backup'.mode = backup.mode /\ backup'.step = "COPY"
    BY <1>4, <1>5, <1>7, <2>1 DEF BackupMade
  <2>3. DumpIsCopied'
    BY <1>4, <1>6, <1>7, <2>1, <2>2 DEF DumpIsCopied
  <2> QED BY <1>2, <1>3, <2>2, <2>3 DEF BackupInv
<1>10. ASSUME NEW d \in Directories, ListDirectory(d) PROVE BackupInv'
  <2> DEFINE here == {f \in stored : f[1] = d}
  <2>1. /\ backup # NoBackup /\ backup.step = "COPY"
        /\ backup' = [[backup EXCEPT !.left = @ \ {d}] EXCEPT !.listed = @ \cup here]
    BY <1>10 DEF ListDirectory
  <2>2. here \in SUBSET Names
    BY <1>4
  <2> HIDE DEF here
  <2>3. /\ backup' \in BackupMade /\ backup'.rows = backup.rows /\ backup'.left = backup.left \ {d}
        /\ backup'.listed = backup.listed \cup here /\ backup'.mode = backup.mode /\ backup'.step = "COPY"
    BY <1>5, <2>1, <2>2 DEF BackupMade
  <2>4. DumpIsCopied'
    BY <1>6, <1>7, <2>1, <2>3 DEF DumpIsCopied, here
  <2> QED BY <1>2, <1>3, <2>3, <2>4 DEF BackupInv
<1>11. ASSUME NEW f \in stored, CopyFile(f) PROVE BackupInv'
  <2>1. backup # NoBackup /\ backup' = [backup EXCEPT !.files = @ \cup {f}]
    BY <1>11 DEF CopyFile
  <2>2. /\ backup' \in BackupMade /\ backup'.rows = backup.rows /\ backup'.left = backup.left
        /\ backup'.listed = backup.listed /\ backup'.mode = backup.mode /\ backup'.step = backup.step
    BY <1>4, <1>5, <2>1 DEF BackupMade
  <2>3. DumpIsCopied'
    BY <1>6, <1>7, <2>1, <2>2 DEF DumpIsCopied
  <2> QED BY <1>2, <1>3, <2>2, <2>3 DEF BackupInv
<1>12. ASSUME FailBackup \/ LoseBackup PROVE BackupInv'
  BY <1>2, <1>3, <1>12 DEF FailBackup, LoseBackup, BackupInv, DumpIsCopied
<1>13. ASSUME RemoveStaleLock PROVE BackupInv'
  <2>1. backup = NoBackup /\ backup' = backup
    BY <1>13 DEF RemoveStaleLock
  <2> QED BY <1>2, <1>3, <2>1 DEF BackupInv, DumpIsCopied
<1> QED BY <1>8, <1>9, <1>10, <1>11, <1>12, <1>13

\* A backup is finished when everything that was listed is copied.
LEMMA EndBackup ==
  ASSUME BackupInv, FinishBackup \/ \E b \in DOMAIN backups : DamageBackup(b)
  PROVE  BackupInv'
<1>1. UNCHANGED <<fileVars, rehearsal, record>>
  BY Zenon DEF FinishBackup, DamageBackup, UnchangedRehearsal
<1>2. UNCHANGED <<stored, saved, serverUp>> /\ FilesInv' /\ RecordIsNear'
  <2>1. UNCHANGED <<stored, saved, serverUp>>
    BY <1>1 DEF fileVars
  <2> QED BY <1>1, <2>1, SameFiles DEF BackupInv, RecordIsNear
<1>3. \A b \in DOMAIN backups :
        /\ \A f \in backups[b].rows : f[2] <= saved /\ (f \in stored => f \in backups[b].files)
        /\ backups[b].mode = "maintenance" => backups[b].rows \subseteq backups[b].files
  BY DEF BackupInv, BackupsKept
<1>4. backups \in Seq(BackupRow) /\ (rehearsal # NoRehearsal => rehearsal \in Rehearsal)
  BY DEF BackupInv, BackupsTyped
<1>5. ASSUME FinishBackup PROVE BackupInv'
  <2> DEFINE new == [mode |-> backup.mode, rows |-> backup.rows, files |-> backup.files, sound |-> TRUE]
  <2>1. /\ backup # NoBackup /\ backup.left = {} /\ backup.listed \subseteq backup.files
        /\ backups' = Append(backups, new) /\ backup' = NoBackup
    BY <1>5 DEF FinishBackup
  <2>2. backup \in BackupMade
    BY <2>1 DEF BackupInv, BackupsTyped
  <2>3. new \in BackupRow /\ new.rows = backup.rows /\ new.files = backup.files /\ new.mode = backup.mode
    BY <2>2 DEF BackupMade, BackupRow
  <2> HIDE DEF new
  <2>4. /\ backups' \in Seq(BackupRow)
        /\ \A b \in DOMAIN backups' :
             \/ b \in DOMAIN backups /\ backups'[b] = backups[b]
             \/ backups'[b] = new
    BY <1>4, <2>1, <2>3
  <2>5. /\ \A f \in new.rows : f[2] <= saved /\ (f \in stored => f \in new.files)
        /\ new.mode = "maintenance" => new.rows \subseteq new.files
    BY <2>1, <2>3 DEF BackupInv, DumpIsCopied
  <2>6. BackupsKept'
    BY <1>2, <1>3, <2>4, <2>5 DEF BackupsKept
  <2>7. BackupsTyped' /\ DumpIsCopied'
    BY <1>1, <1>4, <2>1, <2>4 DEF BackupsTyped, DumpIsCopied
  <2> QED BY <1>2, <2>6, <2>7 DEF BackupInv
<1>6. ASSUME NEW b \in DOMAIN backups, DamageBackup(b) PROVE BackupInv'
  <2>1. backups' = [backups EXCEPT ![b].sound = FALSE] /\ backup' = backup
    BY <1>6 DEF DamageBackup
  <2>2. /\ backups' \in Seq(BackupRow) /\ DOMAIN backups' = DOMAIN backups
        /\ \A c \in DOMAIN backups : /\ backups'[c].rows = backups[c].rows /\ backups'[c].files = backups[c].files
                                     /\ backups'[c].mode = backups[c].mode
    <3>1. backups[b] \in BackupRow
      BY <1>4
    <3> DEFINE new == [backups[b] EXCEPT !.sound = FALSE]
    <3>2. new \in BackupRow /\ new.rows = backups[b].rows /\ new.files = backups[b].files /\ new.mode = backups[b].mode
      BY <3>1 DEF BackupRow
    <3>3. backups' = [backups EXCEPT ![b] = new]
      BY <2>1
    <3> HIDE DEF new
    <3> QED BY <1>4, <3>2, <3>3
  <2>3. BackupsKept'
    BY <1>2, <1>3, <2>2 DEF BackupsKept
  <2>4. BackupsTyped' /\ DumpIsCopied'
    BY <1>1, <1>2, <1>4, <2>1, <2>2 DEF BackupInv, BackupsTyped, DumpIsCopied
  <2> QED BY <1>2, <2>3, <2>4 DEF BackupInv
<1> QED BY <1>5, <1>6

\* The steps of a rehearsal.
LEMMA Rehearse ==
  ASSUME BackupInv,
         \/ \E b \in DOMAIN backups, keep \in BOOLEAN : StartRehearsal(b, keep)
         \/ \E works \in BOOLEAN : Restore(works) \/ CleanUp(works)
         \/ WriteRecord
  PROVE  /\ BackupInv'
         /\ record' # record =>
              rehearsal # NoRehearsal /\ rehearsal.restored /\ ~rehearsal.remains /\ record' = rehearsal.backup
<1>1. UNCHANGED <<fileVars, backup, lock, backups>>
  BY Zenon DEF StartRehearsal, Restore, CleanUp, WriteRecord, UnchangedBackups
<1>2. FilesInv' /\ DumpIsCopied' /\ BackupsKept'
  <2>1. UNCHANGED <<stored, saved, serverUp>>
    BY <1>1 DEF fileVars
  <2> QED BY <1>1, <2>1, SameFiles DEF BackupInv, DumpIsCopied, BackupsKept
<1>3. /\ backups \in Seq(BackupRow) /\ (rehearsal # NoRehearsal => rehearsal \in Rehearsal)
      /\ (rehearsal # NoRehearsal /\ rehearsal.step = "RECORD" => rehearsal.restored /\ rehearsal.remains = rehearsal.keep)
  BY DEF BackupInv, BackupsTyped, RecordIsNear
<1>4. ASSUME \/ rehearsal' = NoRehearsal
             \/ /\ rehearsal' \in Rehearsal
                /\ rehearsal'.step = "RECORD" => rehearsal'.restored /\ rehearsal'.remains = rehearsal'.keep
      PROVE  BackupInv'
  <2>1. BackupsTyped'
    BY <1>1, <1>4 DEF BackupInv, BackupsTyped
  <2>2. RecordIsNear'
    BY <1>4 DEF RecordIsNear
  <2> QED BY <1>2, <2>1, <2>2 DEF BackupInv
<1>5. ASSUME NEW b \in DOMAIN backups, NEW keep \in BOOLEAN, StartRehearsal(b, keep)
      PROVE  BackupInv' /\ record' = record
  <2>1. /\ rehearsal' = [backup |-> b, step |-> "RESTORE", keep |-> keep, restored |-> FALSE, remains |-> FALSE]
        /\ record' = record
    BY <1>5 DEF StartRehearsal
  <2>2. b \in Nat
    BY <1>3
  <2> QED BY <1>4, <2>1, <2>2 DEF Rehearsal
<1>6. ASSUME NEW works \in BOOLEAN, Restore(works) PROVE BackupInv' /\ record' = record
  <2>1. /\ rehearsal # NoRehearsal /\ record' = record
        /\ rehearsal' = [rehearsal EXCEPT !.step = "CLEAN", !.restored = works, !.remains = TRUE]
    BY <1>6 DEF Restore
  <2>2. rehearsal' \in Rehearsal /\ rehearsal'.step = "CLEAN"
    BY <1>3, <2>1 DEF Rehearsal
  <2> QED BY <1>4, <2>1, <2>2
<1>7. ASSUME NEW works \in BOOLEAN, CleanUp(works) PROVE BackupInv' /\ record' = record
  <2>1. /\ rehearsal # NoRehearsal /\ record' = record
        /\ rehearsal' = IF rehearsal.restored /\ works
                        THEN [rehearsal EXCEPT !.step = "RECORD", !.remains = rehearsal.keep] ELSE NoRehearsal
    BY <1>7 DEF CleanUp
  <2>2. CASE rehearsal.restored /\ works
    <3>1. rehearsal' \in Rehearsal /\ rehearsal'.restored /\ rehearsal'.remains = rehearsal'.keep
      BY <1>3, <2>1, <2>2 DEF Rehearsal
    <3> QED BY <1>4, <2>1, <3>1
  <2>3. CASE ~(rehearsal.restored /\ works)
    BY <1>4, <2>1, <2>3
  <2> QED BY <2>2, <2>3
<1>8. ASSUME WriteRecord
      PROVE  /\ BackupInv'
             /\ record' # record =>
                  rehearsal # NoRehearsal /\ rehearsal.restored /\ ~rehearsal.remains /\ record' = rehearsal.backup
  <2>1. /\ rehearsal # NoRehearsal /\ rehearsal.step = "RECORD" /\ rehearsal' = NoRehearsal
        /\ record' = IF rehearsal.keep THEN record ELSE rehearsal.backup
    BY <1>8 DEF WriteRecord
  <2> QED BY <1>3, <1>4, <2>1
<1> QED BY <1>5, <1>6, <1>7, <1>8

\* Every step keeps the invariant, and earns its record.
LEMMA BackupStep ==
  ASSUME BackupInv, [BackupNext]_backupVars
  PROVE  /\ BackupInv'
         /\ record' # record =>
              rehearsal # NoRehearsal /\ rehearsal.restored /\ ~rehearsal.remains /\ record' = rehearsal.backup
<1>1. ASSUME FileStep /\ UNCHANGED <<backup, lock, backups>> /\ UnchangedRehearsal PROVE BackupInv' /\ record' = record
  BY <1>1, ServerBackup DEF UnchangedRehearsal
<1>2. ASSUME StartServerAgain PROVE BackupInv' /\ record' = record
  BY <1>2, ServerBackup DEF StartServerAgain, UnchangedRehearsal
<1>3. ASSUME \/ \E mode \in {"maintenance", "online"} : StartBackup(mode)
             \/ DumpDatabase
             \/ \E d \in Directories : ListDirectory(d)
             \/ \E f \in stored : CopyFile(f)
             \/ FailBackup \/ LoseBackup \/ RemoveStaleLock
      PROVE  BackupInv' /\ record' = record
  <2>1. record' = record
    BY <1>3, Zenon DEF StartBackup, DumpDatabase, ListDirectory, CopyFile, FailBackup, LoseBackup, RemoveStaleLock,
                      UnchangedRehearsal
  <2> QED BY <1>3, <2>1, MakeBackup
<1>4. ASSUME FinishBackup \/ \E b \in DOMAIN backups : DamageBackup(b) PROVE BackupInv' /\ record' = record
  <2>1. record' = record
    BY <1>4, Zenon DEF FinishBackup, DamageBackup, UnchangedRehearsal
  <2> QED BY <1>4, <2>1, EndBackup
<1>5. ASSUME UNCHANGED backupVars PROVE BackupInv' /\ record' = record
  <2>1. /\ UNCHANGED fileVars /\ UNCHANGED <<backup, lock, backups, rehearsal, record>>
    BY <1>5 DEF backupVars
  <2>2. UNCHANGED <<stored, saved, serverUp>>
    BY <2>1 DEF fileVars
  <2> QED BY <2>1, <2>2, SameFiles DEF BackupInv, BackupsTyped, DumpIsCopied, BackupsKept, RecordIsNear
<1> QED BY <1>1, <1>2, <1>3, <1>4, <1>5, Rehearse, Zenon DEF BackupNext

\* Backups are made right in every behaviour of the server and of the scripts.
LEMMA BackupInvariant == BackupSpec => []BackupInv
BY InitBackup, BackupStep, PTL DEF BackupSpec

\* While backups are made, too, the rows have their files.
THEOREM FilesKeptInBackups == BackupSpec => [](FileTypeOK /\ RowsHaveFiles)
<1>1. BackupInv => FileTypeOK /\ RowsHaveFiles
  BY RowsFollow DEF BackupInv
<1> QED BY <1>1, BackupInvariant, PTL

\* A finished backup has every file of its rows that is still there, and every
\* one when it was made in maintenance.
THEOREM BackupsComplete == BackupSpec => []BackupIsComplete
<1>1. BackupInv => BackupIsComplete
  <2> SUFFICES ASSUME BackupInv, NEW b \in DOMAIN backups, NEW f \in backups[b].rows, f \notin backups[b].files
               PROVE  backups[b].mode = "online" /\ f \notin stored
    BY DEF BackupIsComplete
  <2>1. backups[b] \in BackupRow
    BY DEF BackupInv, BackupsTyped
  <2>2. backups[b].mode \in {"maintenance", "online"}
    BY <2>1 DEF BackupRow
  <2> QED BY <2>2 DEF BackupInv, BackupsKept
<1> QED BY <1>1, BackupInvariant, PTL

\* The record names a backup that was restored, and nothing of it was left.
THEOREM RecordsEarned == BackupSpec => RecordIsEarned
<1>1. BackupInv /\ [BackupNext]_backupVars =>
        [record' # record =>
           rehearsal # NoRehearsal /\ rehearsal.restored /\ ~rehearsal.remains /\ record' = rehearsal.backup]_backupVars
  BY BackupStep
<1> QED BY <1>1, BackupInvariant, PTL DEF BackupSpec, RecordIsEarned
===============================================================================
