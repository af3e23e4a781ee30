------------------------------ MODULE S3Bucket ------------------------------
(***************************************************************************)
(* The keys of one S3 bucket as its folders and files hold them, and a     *)
(* client that pages through ListObjects while objects and folder markers  *)
(* are put and deleted.  A key is a sequence of characters, given by their *)
(* bytes; a name is a sequence without Slash.                              *)
(*                                                                         *)
(* One request changes the bucket at a time: two that make, or make and    *)
(* clean up, the same folder race, see S3Objects.  A version of an object  *)
(* is a file; the delimiter is "/", or there is none.                      *)
(***************************************************************************)
EXTENDS Integers, FiniteSets, SequencesExt

CONSTANTS
  Slash,      \* the byte of "/"
  Object,     \* the paths that are put and deleted, sequences of names
  Copies,     \* the pairs of a source and a destination of CopyObject
  Marker,     \* the paths of folder markers
  Bulk,       \* the lists of objects that one DeleteObjects names
  Stores,     \* the objects and the markers there are at first
  FolderMax,  \* bound on the folders ever made, with the buckets
  Query,      \* what may be asked for: a prefix, whether there is a delimiter, the page
              \* size, start-after (<<>> if there is none), and whether by a guest
  Budget      \* bound on the requests that change the bucket

VARIABLES
  folders,    \* the folders: parent (0 above the bucket), name, active
  files,      \* the complete files: folder and name
  public,     \* s3PublicAccess and s3PublicListObjects: "off", "read", "list"
  writer,     \* the request that changes the bucket
  lister,     \* the client of ListObjects and its request
  steady,     \* history: entries that matched all along since the listing began
  ever,       \* history: entries that matched at some time since
  budget

store == <<folders, files>>
history == <<steady, ever>>
vars == <<store, public, writer, lister, history, budget>>

BucketName == <<Slash>>

Folder(fs) == DOMAIN fs
Children(fs, f) == {d \in Folder(fs) : fs[d].parent = f /\ fs[d].active}
Bucket(fs) == {b \in Folder(fs) : fs[b].parent = 0 /\ fs[b].active}

\* The active folder of that name, of which there is one at most.
Child(fs, f, name) == {d \in Children(fs, f) : fs[d].name = name}

\* compareKeysByteOrder.
Less(a, b) ==
  \E i \in 1 .. Len(b) : /\ \A j \in 1 .. i - 1 : j <= Len(a) /\ a[j] = b[j]
                         /\ i > Len(a) \/ a[i] < b[i]

\* The variant does not exclude the cursor itself.
AfterOrAt(key, cursor) == cursor = <<>> \/ ~Less(key, cursor)
After(key, cursor) == cursor = <<>> \/ Less(cursor, key)

-----------------------------------------------------------------------------
(* What there is to list.                                                  *)

\* The key of a folder with its slash; that of the bucket is empty.
Path(fs) ==
  LET path[f \in Folder(fs)] ==
        IF fs[f].parent = 0 THEN <<>> ELSE path[fs[f].parent] \o fs[f].name \o <<Slash>>
  IN  path

IsEmpty(fs, xs, f) == Children(fs, f) = {} /\ \A x \in xs : x.folder # f

\* The keys of the objects, and of folders with nothing in them.
Keys(fs, xs) ==
  LET path == Path(fs) IN
  {path[x.folder] \o x.name : x \in {y \in xs : fs[y.folder].active}}
  \cup {path[f] : f \in {d \in Folder(fs) : fs[d].active /\ fs[d].parent # 0 /\ IsEmpty(fs, xs, d)}}

\* A key with its part after the first "/" behind the prefix cut off.
RolledUp(key, prefix) ==
  LET slashes == {i \in Len(prefix) + 1 .. Len(key) : key[i] = Slash} IN
  IF slashes = {} THEN key ELSE SubSeq(key, 1, Min(slashes))

\* What S3 lists, but that a marker is left out when it is the very prefix.
Matching(fs, xs, prefix, delimiter) ==
  LET found == {k \in Keys(fs, xs) : IsPrefix(prefix, k)} IN
  IF delimiter THEN {RolledUp(k, prefix) : k \in {l \in found : l # prefix \/ Last(l) # Slash}}
               ELSE found

-----------------------------------------------------------------------------
(* listRecursiveOptimized and buildListPage.                               *)

\* Whether a folder is worth looking into.
OnTheWay(full, prefix) == IsPrefix(prefix, full) \/ IsPrefix(full, prefix)

ListFiles(xs, f, path, prefix, delimiter) ==
  {IF delimiter THEN RolledUp(path \o x.name, prefix) ELSE path \o x.name :
     x \in {y \in xs : y.folder = f /\ IsPrefix(prefix, path \o y.name)}}

\* A subfolder is passed over, rolled up, a key of its own, or looked into.
Listing(fs, xs, bucket, prefix, delimiter) ==
  LET full == Path(fs)
      Seen(f) == {d \in Children(fs, f) : OnTheWay(full[d], prefix)}
      traverse[f \in Folder(fs)] ==
        ListFiles(xs, f, full[f], prefix, delimiter) \cup
        UNION {IF delimiter
               THEN IF prefix # <<>> /\ IsPrefix(full[d], prefix) THEN traverse[d]
                                                   ELSE {RolledUp(full[d], prefix)}
               ELSE IF ~IsEmpty(fs, xs, d) THEN traverse[d]
                    ELSE {k \in {full[d]} : IsPrefix(prefix, k)} : d \in Seen(f)}
  IN  traverse[bucket]

\* Sorted, after the cursor, at most so many.  The variant calls a page truncated that
\* has no last key to go on from.
PageOpen(entries, cursor, max) ==
  LET remaining == {k \in entries : After(k, cursor)}
      rank(k) == Cardinality({l \in remaining : Less(l, k)})
      size == Min({max, Cardinality(remaining)})
  IN  [page |-> [i \in 1 .. size |-> CHOOSE k \in remaining : rank(k) = i - 1],
       truncated |-> Cardinality(remaining) > size]
Page(entries, cursor, max) ==
  LET remaining == {k \in entries : After(k, cursor)}
      rank(k) == Cardinality({l \in remaining : Less(l, k)})
      size == Min({max, Cardinality(remaining)})
  IN  [page |-> [i \in 1 .. size |-> CHOOSE k \in remaining : rank(k) = i - 1],
       truncated |-> size > 0 /\ Cardinality(remaining) > size]

-----------------------------------------------------------------------------
(* Requests that change the bucket.                                        *)

Quiet == [op |-> "none", todo |-> <<>>, at |-> 0]

\* The store changes, and the history of the listing with it.
Change(fs, xs) ==
  LET now == Matching(fs, xs, lister.prefix, lister.delimiter) IN
  /\ folders' = fs /\ files' = xs
  /\ IF lister.pc \in {"read", "files"} THEN steady' = steady \cap now /\ ever' = ever \cup now
                                        ELSE UNCHANGED history

Set(op, todo, at) == writer' = [op |-> op, todo |-> todo, at |-> at]

Trashed(f) == [folders EXCEPT ![f].active = FALSE]

\* The folder that a list of names leads to, below f; 0 if there is none.
Resolve(f, names) ==
  LET step(g, n) == IF g = 0 \/ Child(folders, g, n) = {} THEN 0
                    ELSE CHOOSE d \in Child(folders, g, n) : TRUE
  IN  FoldLeft(step, f, names)

TheBucket == IF Bucket(folders) = {} THEN 0 ELSE CHOOSE b \in Bucket(folders) : TRUE

Begin(op, todo) ==
  /\ writer = Quiet /\ budget > 0 /\ budget' = budget - 1
  /\ Set(op, todo, 0)
  /\ UNCHANGED <<store, public, lister, history>>

\* resolveKey, resolveKeyAsFolder: the folders on the way are made, the bucket too.
\* With no names on the way this is createBucket.
Way == IF writer.op = "put" THEN Front(writer.todo) ELSE writer.todo
Advance(f) == writer' = [writer EXCEPT !.at = f, !.todo = IF writer.at = 0 THEN @ ELSE Tail(@)]
Arrived == writer.at # 0 /\ Way = <<>>

FolderOnTheWay ==
  IF writer.at = 0 THEN Bucket(folders) ELSE Child(folders, writer.at, writer.todo[1])

Descend ==
  /\ writer.op \in {"put", "mark"} /\ ~Arrived
  /\ \E f \in FolderOnTheWay : Advance(f)
  /\ UNCHANGED <<store, public, lister, history, budget>>

Make ==
  /\ writer.op \in {"put", "mark"} /\ ~Arrived /\ FolderOnTheWay = {}
  /\ Len(folders) < FolderMax
  /\ LET f == [parent |-> writer.at, active |-> TRUE,
               name |-> IF writer.at = 0 THEN BucketName ELSE writer.todo[1]]
     IN  Change(Append(folders, f), files) /\ Advance(Len(folders) + 1)
  /\ UNCHANGED <<public, lister, budget>>

\* The object is there, or was and is replaced; a marker is only its folder.
Store ==
  /\ writer.op \in {"put", "mark"} /\ Arrived
  /\ IF writer.op = "put" THEN Change(folders, files \cup {[folder |-> writer.at, name |-> writer.todo[1]]})
                          ELSE UNCHANGED <<store, history>>
  /\ writer' = Quiet
  /\ UNCHANGED <<public, lister, budget>>

\* CopyObject: without a source nothing is made; onto itself nothing is done.
Copy ==
  /\ writer.op = "copy"
  /\ LET from == writer.todo[1]
         to == writer.todo[2]
         f == IF TheBucket = 0 THEN 0 ELSE Resolve(TheBucket, Front(from))
     IN  IF from # to /\ [folder |-> f, name |-> Last(from)] \in files THEN Set("put", to, 0)
                                                                    ELSE writer' = Quiet
  /\ UNCHANGED <<store, public, lister, history, budget>>

\* DeleteObject and DeleteObjects: each key in turn, and then the folders that are
\* empty.  A key that is not there is no error.
Delete ==
  /\ writer.op = "delete"
  /\ IF writer.todo = <<>> THEN writer' = Quiet /\ UNCHANGED <<store, history>>
     ELSE LET path == writer.todo[1]
              f == IF TheBucket = 0 THEN 0 ELSE Resolve(TheBucket, Front(path))
              x == [folder |-> f, name |-> Last(path)]
          IN  IF x \in files THEN Change(folders, files \ {x}) /\ Set("cleanup", Tail(writer.todo), f)
                             ELSE Set("delete", Tail(writer.todo), 0) /\ UNCHANGED <<store, history>>
  /\ UNCHANGED <<public, lister, budget>>

\* cleanupEmptyFolders stops at the bucket, and at a folder that is in the trash.
CleanUp ==
  LET f == writer.at IN
  /\ writer.op = "cleanup"
  /\ IF folders[f].active /\ folders[f].parent # 0 /\ IsEmpty(folders, files, f)
     THEN Change(Trashed(f), files) /\ Set("cleanup", writer.todo, folders[f].parent)
     ELSE Set("delete", writer.todo, 0) /\ UNCHANGED <<store, history>>
  /\ UNCHANGED <<public, lister, budget>>

\* deleteFolderMarker: an empty folder goes; the cleanup that follows begins at that
\* folder, and so stops there.
Unmark ==
  LET f == IF TheBucket = 0 THEN 0 ELSE Resolve(TheBucket, writer.todo) IN
  /\ writer.op = "unmark"
  /\ IF f # 0 /\ IsEmpty(folders, files, f)
     THEN Change(Trashed(f), files) /\ Set("cleanup", <<>>, f)
     ELSE writer' = Quiet /\ UNCHANGED <<store, history>>
  /\ UNCHANGED <<public, lister, budget>>

\* deleteBucket refuses a bucket that is not empty.
DeleteBucket ==
  /\ writer.op = "rmbucket"
  /\ IF TheBucket # 0 /\ IsEmpty(folders, files, TheBucket)
     THEN Change(Trashed(TheBucket), files) ELSE UNCHANGED <<store, history>>
  /\ writer' = Quiet
  /\ UNCHANGED <<public, lister, budget>>

\* setS3PublicAccess.
SetPublic(p) ==
  /\ budget > 0 /\ budget' = budget - 1 /\ p # public /\ public' = p
  /\ UNCHANGED <<store, writer, lister, history>>

-----------------------------------------------------------------------------
(* The client that lists.                                                  *)

Idle == [pc |-> "idle", prefix |-> <<>>, delimiter |-> FALSE, max |-> 0, start |-> <<>>,
         guest |-> FALSE, cursor |-> <<>>, folders |-> <<>>, seen |-> <<>>]

List(q) ==
  /\ lister.pc = "idle"
  /\ lister' = [Idle EXCEPT !.pc = "read", !.prefix = q.prefix, !.delimiter = q.delimiter,
                            !.max = q.max, !.start = q.start, !.cursor = q.start, !.guest = q.guest]
  /\ steady' = Matching(folders, files, q.prefix, q.delimiter) /\ ever' = steady'
  /\ UNCHANGED <<store, public, writer, budget>>

\* The bucket is found, and the folders are read.
Granted == Bucket(folders) # {} /\ (lister.guest => public = "list")

ReadFolders ==
  /\ lister.pc = "read"
  /\ lister' = IF Granted THEN [lister EXCEPT !.pc = "files", !.folders = folders]
                          ELSE [lister EXCEPT !.pc = "refused"]
  /\ UNCHANGED <<store, public, writer, history, budget>>

\* Then the files, and the page is cut; the client goes on at the token it gets.
ReadFiles ==
  /\ lister.pc = "files"
  /\ LET fs == lister.folders
         entries == Listing(fs, {x \in files : x.folder \in Folder(fs) /\ fs[x.folder].active},
                            CHOOSE b \in Bucket(fs) : TRUE, lister.prefix, lister.delimiter)
         answer == Page(entries, lister.cursor, lister.max)
     IN  lister' = [lister EXCEPT !.seen = @ \o answer.page, !.folders = <<>>,
                                  !.pc = IF answer.truncated THEN "read" ELSE "done",
                                  !.cursor = IF answer.page # <<>> THEN Last(answer.page) ELSE @]
  /\ UNCHANGED <<store, public, writer, history, budget>>

-----------------------------------------------------------------------------
Init ==
  /\ \E s \in Stores : folders = s.folders /\ files = s.files
  /\ public = "list" /\ writer = Quiet /\ lister = Idle
  /\ steady = {} /\ ever = {} /\ budget = Budget

ListerStep == ReadFolders \/ ReadFiles

Next ==
  \/ \E p \in Object : Begin("put", p) \/ Begin("delete", <<p>>)
  \/ \E b \in Bulk : Begin("delete", b)
  \/ \E c \in Copies : Begin("copy", c)
  \/ \E m \in Marker : Begin("mark", m) \/ Begin("unmark", m)
  \/ Begin("mark", <<>>) \/ Begin("rmbucket", <<>>)
  \/ Descend \/ Make \/ Store \/ Copy \/ Delete \/ CleanUp \/ Unmark \/ DeleteBucket
  \/ \E p \in {"off", "read"} : SetPublic(p)
  \/ \E q \in Query : List(q)
  \/ ListerStep

Spec == Init /\ [][Next]_vars

\* The client asks for the next page, and the core answers.
FairSpec == Spec /\ WF_vars(ListerStep)

-----------------------------------------------------------------------------
(* What a listing promises.                                                *)

\* Whatever a history of puts and deletes has made of the folders, the traversal finds
\* what S3 says a prefix and a delimiter select from the keys there are.
ListsKeys ==
  \A b \in Bucket(folders), q \in Query :
    Listing(folders, files, b, q.prefix, q.delimiter) = Matching(folders, files, q.prefix, q.delimiter)

\* "a concurrent insert cannot shift the resume point and cause skipped/duplicated
\* keys": the pages of a listing, put together, are in byte order without a repetition,
\* hold no object that never was there, and, at the end, everything that was there all
\* along and comes after the start.  (A marker may be shown that never was: the folders
\* are read before the files, and a folder is taken for empty when its last file goes
\* and a subfolder comes in between.)
PagesAddUp ==
  /\ \A i, j \in DOMAIN lister.seen : i < j => Less(lister.seen[i], lister.seen[j])
  /\ \A k \in ToSet(lister.seen) : Last(k) = Slash \/ k \in ever
  /\ lister.pc = "done" /\ lister.max > 0 =>
       \A k \in steady : Less(lister.start, k) => k \in ToSet(lister.seen)

\* One page at rest, and many while the bucket changes, show the keys that S3 promises.
ListsTruly == ListsKeys /\ PagesAddUp

\* No page is truncated without a token that leads on, so every listing ends.
ListingEnds == lister.pc = "read" ~> lister.pc \in {"done", "refused"}
=============================================================================
