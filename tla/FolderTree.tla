----------------------------- MODULE FolderTree -----------------------------
(* The folder and file rows of one user in the core's database, and the     *)
(* handlers of folder.service.ts, name-conflict.service.ts and              *)
(* file-metadata.service.ts that work on them.                              *)
(*                                                                          *)
(* A handler first reads and checks, then writes.  Its reads are one step;  *)
(* every statement that writes is a step of its own, so that another        *)
(* request runs between the check and each write.  What a handler still has *)
(* to write is its todo list: no handler but the one of files/empty runs in *)
(* a transaction, so a crash or a failing statement leaves the rest undone. *)
(* Each request runs one handler, started from any tree of Trees.           *)
EXTENDS Naturals, Sequences, SequencesExt

CONSTANTS Folder, File, Req,
          Root,        \* parentId = null, folderId = null
          Base,        \* file and folder names before a counter is added
          FolderAction, \* the conflictAction values sent for folders
          FileAction,  \* and for files
          Kind,        \* Kind[r]: the handlers request r may run
          Trees,       \* the initial contents of the two tables
          UniqueIndex  \* the migration file_record_active_unique_key is applied

ASSUME RootAssumption == Root \notin Folder
ASSUME IndexAssumption == UniqueIndex \in BOOLEAN

VARIABLES folders,    \* the rows of Folder, a function on the ids that exist
          files,      \* the rows of FileRecord
          clock,      \* deletedAt of the last soft delete; 0 stands for null
          req,        \* the request handlers
          everShared  \* history: the walked item was reachable since the walk began

vars == <<folders, files, clock, req, everShared>>

-----------------------------------------------------------------------------
(* Names and trees.                                                         *)

\* A name and the counters added to it: "a (2)" is [base |-> "a", tail |-> <<2>>].
Name == [base : Base, tail : Seq(Nat)]

Plain(b) == [base |-> b, tail |-> <<>>]

\* generateUniqueName: the name itself, or the first free "name (k)".
UniqueName(name, used) ==
  LET numbered(k) == [name EXCEPT !.tail = Append(@, k)]
      free == {k \in 1..Cardinality(used) + 1 : numbered(k) \notin used}
  IN  IF name \notin used THEN name
      ELSE numbered(CHOOSE k \in free : \A j \in free : k <= j)

Live(rows) == {x \in DOMAIN rows : rows[x].deletedAt = 0}

\* checkFolderConflict: the active siblings of that name.
FolderClash(parent, name, self) ==
  {d \in Live(folders) \ {self} : folders[d].parent = parent /\ folders[d].name = name}

\* checkFileConflict.
FileClash(folder, name, self) ==
  {f \in Live(files) \ {self} : files[f].parent = folder /\ files[f].name = name}

\* getExistingNames: the active files and folders of a folder.
ExistingNames(folder) ==
  {files[f].name : f \in {f \in Live(files) : files[f].parent = folder}} \cup
  {folders[d].name : d \in {d \in Live(folders) : folders[d].parent = folder}}

\* The recursive query WITH RECURSIVE tree: id and the folders of member below it.
Tree(id, member) ==
  LET grow[n \in 0..Cardinality(Folder)] ==
        IF n = 0 THEN {id}
        ELSE grow[n - 1] \cup {d \in member : folders[d].parent \in grow[n - 1]}
  IN  grow[Cardinality(Folder)]

Subtree(id) == Tree(id, DOMAIN folders)

\* The folders of a chain of parentId, trashed ones included.
Ancestors(id) == {d \in DOMAIN folders : id \in Subtree(d)}

\* The walk up from a folder meets the shared root before a trashed folder.
Reaches(from, root) ==
  /\ from \in DOMAIN folders
  /\ root \in Ancestors(from)
  /\ \A d \in Ancestors(from) \cap Subtree(root) : folders[d].deletedAt = 0

-----------------------------------------------------------------------------
(* Requests.  A todo entry is one statement, or one level of a recursion.   *)

Idle(r, kind) == req[r].st = "idle" /\ kind \in Kind[r]

\* The checks of the handler pass: its writes are still to come.
Begin(r, kind, of, at, todo) ==
  /\ req' = [req EXCEPT ![r] = [st |-> "busy", kind |-> kind, of |-> of, at |-> at,
                                todo |-> todo]]
  /\ UNCHANGED <<folders, files>>

UpdateFolder(d, data) == [do |-> "folder", id |-> d, data |-> data]
UpdateFile(f, data) == [do |-> "file", id |-> f, data |-> data]
DropFolder(d) == [do |-> "dropFolder", id |-> d]

\* create: a clash answers 409, or with "merge" the existing folder; the folder is
\* made when there is none, and for every other value of conflictAction.
CreateFolder(r) ==
  /\ Idle(r, "create")
  /\ \E parent \in Live(folders) \cup {Root}, b \in Base, a \in FolderAction,
        d \in Folder \ DOMAIN folders :
       /\ FolderClash(parent, Plain(b), d) = {} \/ a \notin {"skip", "merge"}
       /\ Begin(r, "create", d, 0,
                <<[do |-> "newFolder", id |-> d, parent |-> parent, name |-> Plain(b)]>>)
  /\ UNCHANGED clock

\* createBatch of one path: each level merges with the folder that has its name.
CreateBatch(r) ==
  /\ Idle(r, "batch")
  /\ \E parent \in Live(folders) \cup {Root}, path \in [1..2 -> Base] :
       Begin(r, "batch", parent, 0, <<[do |-> "path", parent |-> parent, path |-> path]>>)
  /\ UNCHANGED clock

RenameFolder(r) ==
  /\ Idle(r, "rename")
  /\ \E d \in Live(folders), b \in Base :
       /\ FolderClash(folders[d].parent, Plain(b), d) = {}
       /\ Begin(r, "rename", d, 0, <<UpdateFolder(d, [name |-> Plain(b)])>>)
  /\ UNCHANGED clock

\* Mutant of MoveTargets: the walk up from the destination is skipped.
MoveTargetsAnywhere(d) == {Root} \cup (Live(folders) \ {d})

\* Never into the folder itself or below it: parentId is followed from the destination.
MoveTargets(d) == {Root} \cup {p \in Live(folders) : d \notin Ancestors(p)}

\* move: a clash is refused, or merged
\* into, after which the source is dropped.
MoveFolder(r) ==
  /\ Idle(r, "move")
  /\ \E d \in Live(folders), a \in FolderAction :
     \E parent \in MoveTargets(d) :
       LET clash == FolderClash(parent, folders[d].name, d) IN
       IF clash # {} /\ a = "merge"
       THEN \E c \in clash :
              Begin(r, "move", d, 0, <<[do |-> "merge", id |-> d, into |-> c], DropFolder(d)>>)
       ELSE /\ clash = {} \/ a # "skip"
            /\ Begin(r, "move", d, 0, <<UpdateFolder(d, [parent |-> parent])>>)
  /\ UNCHANGED clock

\* share, unshare and setS3PublicAccess of a folder; the last only of a bucket.
ShareFolder(r) ==
  /\ Idle(r, "share")
  /\ \E d \in Live(folders), on \in BOOLEAN :
       \/ Begin(r, "share", d, 0, <<UpdateFolder(d, [shared |-> on])>>)
       \/ /\ folders[d].parent = Root
          /\ Begin(r, "share", d, 0, <<UpdateFolder(d, [s3PublicAccess |-> on])>>)
  /\ UNCHANGED clock

\* softDelete: one statement trashes the active tree; now is read before it.
TrashFolder(r) ==
  /\ Idle(r, "trash")
  /\ \E d \in Live(folders) :
       Begin(r, "trash", d, clock + 1, <<[do |-> "trash", id |-> d, at |-> clock + 1]>>)
  /\ clock' = clock + 1

\* A restored row gets a free name when an active sibling took its own.
RestoredName(row, clash) ==
  IF clash = {} THEN <<>> ELSE [name |-> UniqueName(row.name, ExistingNames(row.parent))]

\* restore: the recursion, and then the new name.
RestoreFolder(r) ==
  /\ Idle(r, "restore")
  /\ \E d \in DOMAIN folders \ Live(folders) :
       LET row == folders[d]
           name == RestoredName(row, FolderClash(row.parent, row.name, d))
       IN  Begin(r, "restore", d, row.deletedAt,
                 <<[do |-> "restore", id |-> d, at |-> row.deletedAt]>>
                 \o IF name = <<>> THEN <<>> ELSE <<UpdateFolder(d, name)>>)
  /\ UNCHANGED clock

\* hardDeleteFolder: the files are collected, deleted in batches, then the folder row.
DeleteFolder(r) ==
  /\ Idle(r, "delete")
  /\ \E d \in DOMAIN folders :
       LET collected == {f \in DOMAIN files : files[f].parent \in Subtree(d)} IN
       Begin(r, "delete", d, 0, <<[do |-> "dropFiles", ids |-> collected], DropFolder(d)>>)
  /\ UNCHANGED clock

RenameFile(r) ==
  /\ Idle(r, "rename")
  /\ \E f \in Live(files), b \in Base :
       /\ FileClash(files[f].parent, Plain(b), f) = {}
       /\ Begin(r, "rename", f, 0, <<UpdateFile(f, [name |-> Plain(b)])>>)
  /\ UNCHANGED clock

\* move of a file: a clash is refused, trashed ("overwrite"), or avoided by a new name.
MoveFile(r) ==
  /\ Idle(r, "moveFile")
  /\ \E f \in Live(files), folder \in Live(folders) \cup {Root}, a \in FileAction :
       LET clash == FileClash(folder, files[f].name, f)
           go == <<UpdateFile(f, [parent |-> folder])>>
           name == UniqueName(files[f].name, ExistingNames(folder))
       IN  \/ /\ clash = {} \/ a = "merge"
              /\ Begin(r, "moveFile", f, 0, go) /\ UNCHANGED clock
           \/ /\ clash # {} /\ a = "overwrite"
              /\ \E c \in clash :
                   Begin(r, "moveFile", f, 0, <<UpdateFile(c, [deletedAt |-> clock + 1])>> \o go)
              /\ clock' = clock + 1
           \/ /\ clash # {} /\ a = "rename"
              /\ Begin(r, "moveFile", f, 0, <<UpdateFile(f, [name |-> name])>> \o go)
              /\ UNCHANGED clock

TrashFile(r) ==
  /\ Idle(r, "trash")
  /\ \E f \in Live(files) :
       Begin(r, "trash", f, clock + 1, <<UpdateFile(f, [deletedAt |-> clock + 1])>>)
  /\ clock' = clock + 1

\* restore of a file; the row and its new name are written by one statement.
RestoreFile(r) ==
  /\ Idle(r, "restore")
  /\ \E f \in DOMAIN files \ Live(files) :
       LET row == files[f]
           name == RestoredName(row, FileClash(row.parent, row.name, f))
       IN  Begin(r, "restore", f, row.deletedAt,
                 <<UpdateFile(f, [deletedAt |-> 0] @@ name)>>)
  /\ UNCHANGED clock

\* getSharedFileDownloadInfo, generateShareFolderDownloadToken and
\* getSharedContent: the shared root and the file are read, then isDescendantOf
\* reads one folder after the other.
OpenShared(r) ==
  /\ Idle(r, "walk")
  /\ \E root \in Live(folders) :
       /\ folders[root].shared
       /\ \/ \E f \in Live(files) :
               /\ files[f].parent # Root
               /\ Begin(r, "walk", f, 0, <<[do |-> "walk", id |-> files[f].parent, root |-> root]>>)
          \/ \E d \in DOMAIN folders :
               Begin(r, "walk", d, 0, <<[do |-> "walk", id |-> d, root |-> root]>>)
  /\ UNCHANGED clock

-----------------------------------------------------------------------------
(* The statements.                                                          *)

Doing(r, what) == req[r].st = "busy" /\ Head(req[r].todo).do = what

\* The statement succeeded: rest replaces it at the head of the todo list.
Advance(r, rest) ==
  LET todo == rest \o Tail(req[r].todo) IN
  req' = [req EXCEPT ![r].todo = todo, ![r].st = IF todo = <<>> THEN "ok" ELSE "busy"]

Answer(r, st) == req' = [req EXCEPT ![r].todo = <<>>, ![r].st = st]

\* The partial unique index: null folders are never equal to each other.
IndexHolds(rows) ==
  UniqueIndex => \A f, g \in Live(rows) :
    (rows[f].parent = rows[g].parent /\ rows[f].parent # Root
       /\ rows[f].name = rows[g].name) => f = g

\* The foreign key: parentId and folderId name an existing row or are null.
KeyHolds(data) == "parent" \in DOMAIN data => data.parent \in DOMAIN folders \cup {Root}

DoFolder(r) ==
  /\ Doing(r, "folder")
  /\ LET t == Head(req[r].todo) IN
       /\ t.id \in DOMAIN folders /\ KeyHolds(t.data)
       /\ folders' = [folders EXCEPT ![t.id] = t.data @@ @]
  /\ Advance(r, <<>>)
  /\ UNCHANGED <<files, clock>>

DoFile(r) ==
  /\ Doing(r, "file")
  /\ LET t == Head(req[r].todo) IN
       /\ t.id \in DOMAIN files /\ KeyHolds(t.data)
       /\ files' = [files EXCEPT ![t.id] = t.data @@ @]
       /\ IndexHolds(files')
  /\ Advance(r, <<>>)
  /\ UNCHANGED <<folders, clock>>

FolderRow(parent, name) ==
  [parent |-> parent, name |-> name, deletedAt |-> 0, shared |-> FALSE,
   s3PublicAccess |-> FALSE]

DoNewFolder(r) ==
  /\ Doing(r, "newFolder")
  /\ LET t == Head(req[r].todo) IN
       /\ t.id \notin DOMAIN folders /\ t.parent \in DOMAIN folders \cup {Root}
       /\ folders' = (t.id :> FolderRow(t.parent, t.name)) @@ folders
  /\ Advance(r, <<>>)
  /\ UNCHANGED <<files, clock>>

\* One level of createBatch; a level whose parent is gone drops the levels below it.
DoPath(r) ==
  /\ Doing(r, "path")
  /\ LET t == Head(req[r].todo)
         below(d) == IF Len(t.path) = 1 THEN <<>>
                     ELSE <<[t EXCEPT !.parent = d, !.path = Tail(@)]>>
         clash == FolderClash(t.parent, Plain(Head(t.path)), Root)
     IN  \/ /\ t.parent \notin Live(folders) \cup {Root}
            /\ Advance(r, <<>>)
         \/ /\ t.parent \in Live(folders) \cup {Root} /\ clash # {}
            /\ \E c \in clash : Advance(r, below(c))
         \/ /\ t.parent \in Live(folders) \cup {Root} /\ clash = {}
            /\ \E d \in Folder \ DOMAIN folders :
                 Advance(r, <<[do |-> "newFolder", id |-> d, parent |-> t.parent,
                               name |-> Plain(Head(t.path))]>> \o below(d))
  /\ UNCHANGED <<folders, files, clock>>

\* softDeleteFolderTree: the active folders of the tree and the active files in them.
DoTrash(r) ==
  /\ Doing(r, "trash")
  /\ LET t == Head(req[r].todo)
         tree == IF t.id \in Live(folders) THEN Tree(t.id, Live(folders)) ELSE {}
     IN  /\ tree # {}
         /\ folders' = [d \in DOMAIN folders |->
                          IF d \in tree THEN [folders[d] EXCEPT !.deletedAt = t.at]
                          ELSE folders[d]]
         /\ files' = [f \in DOMAIN files |->
                        IF f \in Live(files) /\ files[f].parent \in tree
                        THEN [files[f] EXCEPT !.deletedAt = t.at] ELSE files[f]]
  /\ Advance(r, <<>>)
  /\ UNCHANGED clock

\* Mutant of TrashedWith: whatever is in the trash.
TrashedAtAll(rows, t) == {x \in DOMAIN rows : rows[x].parent = t.id /\ rows[x].deletedAt # 0}

\* What is in the folder and has its deletedAt.
TrashedWith(rows, t) == {x \in DOMAIN rows : rows[x].parent = t.id /\ rows[x].deletedAt = t.at}

\* After the files of a level: the subfolders, then the folder itself.
RestoreRest(t, children) ==
  [i \in DOMAIN children |-> [t EXCEPT !.id = children[i]]]
  \o <<UpdateFolder(t.id, [deletedAt |-> 0])>>

\* One level of restoreRecursive.
DoRestore(r) ==
  /\ Doing(r, "restore")
  /\ LET t == Head(req[r].todo) IN
       /\ files' = [f \in DOMAIN files |->
                      IF f \in TrashedWith(files, t) THEN [files[f] EXCEPT !.deletedAt = 0]
                      ELSE files[f]]
       /\ IndexHolds(files')
       /\ \E children \in SetToSeqs(TrashedWith(folders, t)) :
            Advance(r, RestoreRest(t, children))
  /\ UNCHANGED <<folders, clock>>

\* Names the files of a merge get, in turn: a name taken in the target is changed,
\* and the changed ones are taken from then on.
MergedNames(order, taken) ==
  LET step[i \in 0..Len(order)] ==
        IF i = 0 THEN [names |-> <<>>, used |-> taken]
        ELSE LET old == files[order[i]].name
                 new == UniqueName(old, step[i - 1].used)
             IN  [names |-> Append(step[i - 1].names, new),
                  used |-> step[i - 1].used \cup (IF new = old THEN {} ELSE {new})]
  IN  step[Len(order)].names

\* mergeFolderContents: the active files, then the active folders; a folder whose
\* name the target has is merged in turn.
DoMerge(r) ==
  /\ Doing(r, "merge")
  /\ LET t == Head(req[r].todo)
         in(rows, d) == {x \in Live(rows) : rows[x].parent = d}
         taken == {folders[d].name : d \in in(folders, t.into)}
     IN  \E fileOrder \in SetToSeqs(in(files, t.id)),
            folderOrder \in SetToSeqs(in(folders, t.id)) :
           LET names == MergedNames(fileOrder, {files[f].name : f \in in(files, t.into)}) IN
           Advance(r,
             [i \in DOMAIN fileOrder |->
                UpdateFile(fileOrder[i], [parent |-> t.into, name |-> names[i]])]
             \o [i \in DOMAIN folderOrder |->
                   IF folders[folderOrder[i]].name \in taken
                   THEN [do |-> "mergeInto", id |-> folderOrder[i], into |-> t.into,
                         name |-> folders[folderOrder[i]].name]
                   ELSE UpdateFolder(folderOrder[i], [parent |-> t.into])])
  /\ UNCHANGED <<folders, files, clock>>

\* The folder of that name in the target is looked up again; none: nothing is merged.
DoMergeInto(r) ==
  /\ Doing(r, "mergeInto")
  /\ LET t == Head(req[r].todo)
         found == FolderClash(t.into, t.name, Root)
     IN  IF found = {} THEN Advance(r, <<>>)
         ELSE \E c \in found :
                Advance(r, <<[do |-> "merge", id |-> t.id, into |-> c], DropFolder(t.id)>>)
  /\ UNCHANGED <<folders, files, clock>>

\* The files anywhere below a folder.
FilesIn(d) == {f \in DOMAIN files : files[f].parent \in Subtree(d)}

\* DELETE of a folder row; the foreign keys cascade to everything below it.
DoDropFolder(r) ==
  /\ Doing(r, "dropFolder")
  /\ LET d == Head(req[r].todo).id IN
       /\ d \in DOMAIN folders
       /\ folders' = [x \in DOMAIN folders \ Subtree(d) |-> folders[x]]
       /\ files' = [f \in DOMAIN files \ FilesIn(d) |-> files[f]]
  /\ Advance(r, <<>>)
  /\ UNCHANGED clock

\* bulkPermanentDeleteFiles of the collected ids.
DoDropFiles(r) ==
  /\ Doing(r, "dropFiles")
  /\ files' = [f \in DOMAIN files \ Head(req[r].todo).ids |-> files[f]]
  /\ Advance(r, <<>>)
  /\ UNCHANGED <<folders, clock>>

\* Mutant of Climbs: the trash is not looked at.
ClimbsTrashed(d) == d \in DOMAIN folders

\* The walk goes on above a folder that exists and is not in the trash.
Climbs(d) == d \in Live(folders)

\* One turn of the loop of isDescendantOf.
DoWalk(r) ==
  /\ Doing(r, "walk")
  /\ LET t == Head(req[r].todo) IN
       \/ t.id = t.root /\ Answer(r, "ok")
       \/ /\ t.id # t.root
          /\ IF Climbs(t.id)
             THEN req' = [req EXCEPT ![r].todo = <<[t EXCEPT !.id = folders[t.id].parent]>>]
             ELSE Answer(r, "failed")
  /\ UNCHANGED <<folders, files, clock>>

\* A statement fails (a missing row, a violated key or index, a lost connection) or
\* the core stops: the statements left are never run.
Fail(r) ==
  /\ req[r].st = "busy"
  /\ Answer(r, "failed")
  /\ UNCHANGED <<folders, files, clock>>

-----------------------------------------------------------------------------
Start(r) ==
  \/ CreateFolder(r) \/ CreateBatch(r) \/ RenameFolder(r) \/ MoveFolder(r)
  \/ ShareFolder(r) \/ TrashFolder(r) \/ RestoreFolder(r) \/ DeleteFolder(r)
  \/ RenameFile(r) \/ MoveFile(r) \/ TrashFile(r) \/ RestoreFile(r) \/ OpenShared(r)

Statement(r) ==
  \/ DoFolder(r) \/ DoFile(r) \/ DoNewFolder(r) \/ DoPath(r) \/ DoTrash(r)
  \/ DoRestore(r) \/ DoMerge(r) \/ DoMergeInto(r) \/ DoDropFolder(r)
  \/ DoDropFiles(r) \/ DoWalk(r) \/ Fail(r)

Walking(r) == req[r].kind = "walk" /\ req[r].st = "busy"

\* The item of r and every folder between it and the root r was given are active.
Visible(r) ==
  LET of == req[r].of
      from == IF of \in File THEN files[of].parent ELSE of
  IN  /\ of \in File => of \in Live(files)
      /\ Reaches(from, Head(req[r].todo).root)

Next ==
  /\ \E r \in Req : Start(r) \/ Statement(r)
  /\ everShared' = [r \in Req |-> everShared[r] \/ (Walking(r)' /\ Visible(r)')]

Init ==
  /\ \E t \in Trees : folders = t.folders /\ files = t.files /\ clock = t.clock
  /\ req = [r \in Req |-> [st |-> "idle", kind |-> "none", of |-> Root, at |-> 0,
                           todo |-> <<>>]]
  /\ everShared = [r \in Req |-> FALSE]

Spec == Init /\ [][Next]_vars

-----------------------------------------------------------------------------
(* Properties.                                                              *)

\* No folder is inside itself, whatever the other requests do between the check of
\* move and its update, as long as one request moves folders (move, restore, merge).
\* Nor is a folder left in one that is gone.
Acyclic == /\ \A d \in DOMAIN folders : folders[d].parent \notin Subtree(d)
           /\ \A d \in DOMAIN folders : folders[d].parent \in DOMAIN folders \cup {Root}

\* A request that ran alone and finished left no two active siblings with one name.
SoloNamesDiffer ==
  (\E r \in Req : req[r].st = "ok" /\ \A q \in Req \ {r} : req[q].st = "idle") =>
    /\ \A d, e \in Live(folders) :
         (folders[d].parent = folders[e].parent /\ folders[d].name = folders[e].name) => d = e
    /\ \A f, g \in Live(files) :
         (files[f].parent = files[g].parent /\ files[f].name = files[g].name) => f = g

\* A move that checks first and writes later leaves a tree, and a request that was alone
\* leaves names apart.
TreeSound == Acyclic /\ SoloNamesDiffer

Restoring(at) == \E r \in Req : req[r].kind = "restore" /\ req[r].at = at

\* What was trashed on its own stays in the trash when a folder above it is
\* restored: a row leaves the trash by a request that restores its own stamp.
OlderTrashKept ==
  [][/\ \A d \in DOMAIN folders \cap DOMAIN folders' :
         (folders[d].deletedAt # 0 /\ folders'[d].deletedAt = 0) => Restoring(folders[d].deletedAt)
     /\ \A f \in DOMAIN files \cap DOMAIN files' :
         (files[f].deletedAt # 0 /\ files'[f].deletedAt = 0) => Restoring(files[f].deletedAt)]_vars

\* A folder whose parent has its name is merged into that parent when it is moved up.
InItsNamesake(d) == folders[d].parent # Root /\ folders[folders[d].parent].name = folders[d].name

\* A move that merges folders while nothing else runs loses no active file, however deep
\* the folders that have the same names: what it deletes at last has been emptied.  The
\* exception is a folder that is merged into its own parent.
MergeKeepsFiles ==
  [][\A r \in Req :
       (/\ Doing(r, "dropFolder") /\ req[r].kind = "move"
        /\ \A q \in Req \ {r} : req[q].st = "idle"
        /\ ~InItsNamesake(Head(req[r].todo).id))
         => Live(files) \subseteq DOMAIN files']_vars

\* No row is lost or brought back by what is done to another.
RowsKept == OlderTrashKept /\ MergeKeepsFiles

\* What a share link opens was, at some moment since the request began, active and
\* below the shared folder with no trashed folder in between.
GrantWasShared == \A r \in Req : (req[r].kind = "walk" /\ req[r].st = "ok") => everShared[r]
=============================================================================
