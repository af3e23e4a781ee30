----------------------------- MODULE S3Objects -----------------------------
(* The objects of one S3 bucket: PutObject through the transfer service     *)
(* (s3_put.go with PrepareS3Put and ReportS3PutComplete of the core) or     *)
(* through the core itself (s3.controller.ts), multipart uploads, copies    *)
(* left aside, DeleteObject and the cleanup of stale uploads.               *)
(*                                                                          *)
(* All keys lie in one folder of the bucket, which is made on demand and    *)
(* removed when it is empty.  A version is the file record that one put or  *)
(* one multipart upload makes; it is named after that request.              *)
EXTENDS Integers, FiniteSets, FiniteSetsExt

CONSTANTS Key, Put, Upload, Deleter,
          PartMax,    \* a multipart upload has at most this many parts
          FlightMax,  \* bound on the attempts at parts that run at once
          Path,       \* how puts go: "go", "empty", "nest", "buffered"
          Index,      \* whether file_record_active_unique_key is applied
          FolderMax,  \* bound on the folders made
          None,
          Faults      \* "upload", "report", "reply", "stale", "rmdirRace"

ASSUME S3Assumption ==
  /\ Put \cap Upload = {} /\ (Put \cup Upload) \cap Deleter = {}
  /\ None \notin Put \cup Upload /\ Index \subseteq BOOLEAN
  /\ PartMax \in Nat /\ FolderMax \in Nat

VARIABLES index,    \* the migration has been applied to this database
          rows,     \* the file records
          folders,  \* the folders of that name in the bucket
          used,     \* usedSpace
          charge,   \* history: what of usedSpace was charged for each version
          gone,     \* Telegram messages that were deleted
          writer,   \* the puts and the multipart uploads
          deleter,  \* the deletes
          may,      \* history: what a reader may find at a key
          mixed     \* history: requests for the key have overlapped

vars == <<index, rows, folders, used, charge, gone, writer, deleter, may, mixed>>

Version == Put \cup Upload
Part == 1..PartMax
Status == {"none", "uploading", "buffered", "buffer_failed", "complete", "upload_timeout"}

NoRow == [status |-> "none", key |-> None, folder |-> 0, trashed |-> FALSE, size |-> 0, parts |-> {}]

-----------------------------------------------------------------------------
(* What the statements of the core select.                                  *)

Exists(v) == rows[v].status # "none"
At(key, folder) == {v \in Version : Exists(v) /\ rows[v].key = key /\ rows[v].folder = folder}

\* findObjectRecords: active rows of a key, in any status.
Active(key, folder) == {v \in At(key, folder) : ~rows[v].trashed}

ActiveFolders == {f \in DOMAIN folders : folders[f] = "active"}

\* findObject: what a GET, a HEAD or a listing finds.
Visible(key) ==
  {v \in UNION {Active(key, f) : f \in ActiveFolders} : rows[v].status = "complete"}

\* The database refuses a second active row of a key (P2002).
Clash(key, folder) == index /\ Active(key, folder) # {}

\* The versions a finished put replaces.
StaleWithSelf(w) == Active(writer[w].key, writer[w].folder)

Stale(w) == Active(writer[w].key, writer[w].folder) \ {w}

Sizes(vs) == MapThenSumSet(LAMBDA v : rows[v].size, vs)

\* Only complete rows were ever charged.
ReclaimedAll(vs) == vs

Reclaimed(vs) == {v \in vs : rows[v].status = "complete"}

Trash(rs, vs) == 
  [v \in Version |-> IF v \in vs /\ rs[v].status # "none" THEN [rs[v] EXCEPT !.trashed = TRUE] ELSE rs[v]]

\* The Telegram messages of a version.
Messages(v) == {<<v, n>> : n \in IF v \in Upload THEN rows[v].parts ELSE {0}}

\* GREATEST(0, usedSpace - n).
Release(n, m) == IF n < m THEN 0 ELSE n - m

\* usedSpace grows by n for a version; or an overwrite releases versions.
Charge(v, n) == used' = used + n /\ charge' = [charge EXCEPT ![v] = @ + n]

ChargeAndReclaim(w, n, vs) ==
  /\ used' = Release(used + n, Sizes(vs))
  /\ charge' = [v \in Version |-> charge[v] + (IF v = w THEN n ELSE 0)
                                 - (IF v \in vs THEN rows[v].size ELSE 0)]

-----------------------------------------------------------------------------
(* Requests and what their clients may conclude.                            *)

Over == {"idle", "over"}
Writing(key) == {w \in Version : writer[w].key = key /\ writer[w].stage \notin Over}
Deleting(key) == {d \in Deleter : deleter[d].key = key /\ deleter[d].stage \notin Over}
Quiet(key) == Writing(key) = {} /\ Deleting(key) = {}

\* Without the index two writers of a key exclude each other: the race its
\* migration describes.  A multipart upload writes the key only when it completes.
Alone(w, key) == index \/ \A x \in Writing(key) \ {w} : writer[x].stage = "parts"

Step(w, stage) == writer' = [writer EXCEPT ![w].stage = stage]

\* The answer to request r, whose effect, if it has one, is version v.
Answer(r, key, ok, v) ==
  /\ may' = [may EXCEPT ![key] = IF ok /\ ~mixed[key] THEN {v} ELSE @ \cup {v}]
  /\ mixed' = [mixed EXCEPT ![key] = @ /\ (Writing(key) \cup Deleting(key)) \ {r} # {}]

End(w) == writer' = [writer EXCEPT ![w].stage = "over", ![w].replaced = {}, ![w].acked = {}]

Acked(w) == End(w) /\ Answer(w, writer[w].key, TRUE, w)
Failed(w) == End(w) /\ Answer(w, writer[w].key, FALSE, w)

\* The answer arrives, or it is lost and the client sees an error.
Told(w) == Acked(w) \/ ("reply" \in Faults /\ Failed(w))

Start(w, key) ==
  /\ writer[w].stage = "idle" /\ Alone(w, key)
  /\ writer' = [writer EXCEPT ![w].stage = "find", ![w].key = key]
  /\ mixed' = [mixed EXCEPT ![key] = ~Quiet(key)]
  /\ UNCHANGED <<index, rows, folders, used, charge, gone, deleter, may>>

-----------------------------------------------------------------------------
(* resolveKey with create: find the folder, else make it.  Two requests     *)
(* that both find none would make two; and a folder that a delete is about  *)
(* to remove must not be found.  The runs exclude both.                     *)

FolderFound == ActiveFolders # {}

FindFolder(w) ==
  /\ writer[w].stage = "find"
  /\ \A x \in Version : writer[x].stage # "mkdir"
  /\ "rmdirRace" \in Faults \/ \A d \in Deleter : deleter[d].stage # "rmdir"
  /\ writer' = IF FolderFound
               THEN [writer EXCEPT ![w].stage = "create", ![w].folder = CHOOSE f \in ActiveFolders : TRUE]
               ELSE [writer EXCEPT ![w].stage = "mkdir"]
  /\ UNCHANGED <<index, rows, folders, used, charge, gone, deleter, may, mixed>>

MakeFolder(w) ==
  /\ writer[w].stage = "mkdir"
  /\ \E f \in DOMAIN folders :
       /\ folders[f] = "none" /\ \A g \in 1..(f - 1) : folders[g] # "none"
       /\ folders' = [folders EXCEPT ![f] = "active"]
       /\ writer' = [writer EXCEPT ![w].stage = "create", ![w].folder = f]
  /\ UNCHANGED <<index, rows, used, charge, gone, deleter, may, mixed>>

-----------------------------------------------------------------------------
(* PutObject.                                                               *)

NewRow(w, status, size) ==
  [NoRow EXCEPT !.status = status, !.key = writer[w].key, !.folder = writer[w].folder, !.size = size]

\* The insert that the index refuses: 409 from the core, 500 from the transfer service.
Refuse(w) ==
  /\ writer[w].stage = "create" /\ Clash(writer[w].key, writer[w].folder)
  /\ Failed(w)
  /\ UNCHANGED <<index, rows, folders, used, charge, gone, deleter>>

\* PrepareS3Put, doPutObject (which notes what it replaces), createMultipartUpload.
Create(w, path) ==
  /\ writer[w].stage = "create" /\ path # "empty"
  /\ w \in Upload <=> path = "multipart"
  /\ ~Clash(writer[w].key, writer[w].folder)
  /\ rows' = [rows EXCEPT ![w] = NewRow(w, IF path = "buffered" THEN "buffered" ELSE "uploading",
                                        IF path = "multipart" THEN 0 ELSE 1)]
  /\ writer' = [writer EXCEPT ![w].replaced = Stale(w), ![w].path = path,
                ![w].stage = CASE path = "multipart" -> "parts"
                               [] path = "buffered" -> "replace"
                               [] OTHER -> "upload"]
  /\ UNCHANGED <<index, folders, used, charge, gone, deleter, may, mixed>>

\* PrepareS3Put of an empty object: one transaction, nothing to ingest.
CreateEmpty(w) ==
  /\ writer[w].stage = "create" /\ w \in Put /\ "empty" \in Path
  /\ ~Clash(writer[w].key, writer[w].folder)
  /\ rows' = Trash([rows EXCEPT ![w] = NewRow(w, "complete", 0)], Stale(w))
  /\ ChargeAndReclaim(w, 0, Reclaimed(Stale(w)))
  /\ Told(w)
  /\ UNCHANGED <<index, folders, gone, deleter>>

UploadBody(w) ==
  /\ writer[w].stage = "upload"
  /\ Step(w, IF writer[w].path = "go" THEN "report" ELSE "complete")
  /\ UNCHANGED <<index, rows, folders, used, charge, gone, deleter, may, mixed>>

\* Telegram fails, or the digest is wrong: the transfer service leaves the row
\* to the cleanup of stale uploads, uploadFromBuffer deletes it.
UploadFails(w) ==
  /\ "upload" \in Faults
  /\ writer[w].stage = "upload"
  /\ rows' = IF writer[w].path = "nest" THEN [rows EXCEPT ![w] = NoRow] ELSE rows
  /\ Failed(w)
  /\ UNCHANGED <<index, folders, used, charge, gone, deleter>>

\* ReportS3PutComplete: one transaction.
Report(w) ==
  /\ writer[w].stage = "report"
  /\ rows' = Trash([rows EXCEPT ![w].status = "complete"], Stale(w))
  /\ ChargeAndReclaim(w, rows[w].size, Reclaimed(Stale(w)))
  /\ Told(w)
  /\ UNCHANGED <<index, folders, gone, deleter>>

\* The core does not get or refuses the report.
ReportFails(w) ==
  /\ "report" \in Faults
  /\ writer[w].stage = "report"
  /\ Failed(w)
  /\ UNCHANGED <<index, rows, folders, used, charge, gone, deleter>>

\* The transaction of uploadFromBuffer and uploadFromStream.
CompleteDirect(w) ==
  /\ writer[w].stage = "complete"
  /\ rows' = [rows EXCEPT ![w].status = "complete"]
  /\ Charge(w, rows[w].size)
  /\ Step(w, "replace")
  /\ UNCHANGED <<index, folders, gone, deleter, may, mixed>>

\* The core then moves the versions it found at first to the trash.
Replace(w) ==
  /\ writer[w].stage = "replace"
  /\ rows' = Trash(rows, writer[w].replaced)
  /\ Told(w)
  /\ UNCHANGED <<index, folders, used, charge, gone, deleter>>

\* The upload queue works off a buffered object, or gives up.
WorkOff(w, ok) ==
  /\ rows[w].status = "buffered" /\ (ok \/ "upload" \in Faults)
  /\ rows' = [rows EXCEPT ![w].status = IF ok THEN "complete" ELSE "buffer_failed"]
  /\ Charge(w, IF ok THEN rows[w].size ELSE 0)
  /\ UNCHANGED <<index, folders, gone, writer, deleter, may, mixed>>

-----------------------------------------------------------------------------
(* Multipart uploads.  A client may repeat a part whose answer it has not   *)
(* seen while the first attempt still runs.                                 *)

\* uploadPart: a part that is stored is only acknowledged.
SendPart(u, n) ==
  /\ writer[u].stage = "parts" /\ n \notin writer[u].acked
  /\ rows[u].status = "uploading"
  /\ writer' = IF n \in rows[u].parts THEN [writer EXCEPT ![u].acked = @ \cup {n}]
               ELSE [writer EXCEPT ![u].flight[n] = @ + 1]
  /\ MapThenSumSet(LAMBDA m : writer[u].flight[m], Part) < FlightMax
  /\ UNCHANGED <<index, rows, folders, used, charge, gone, deleter, may, mixed>>

\* The attempt has reached Telegram and inserts its row, unless another one
\* did (the key fileId, chunkIndex) or the record is gone.
StorePart(u, n) ==
  /\ writer[u].flight[n] > 0
  /\ rows' = IF Exists(u) THEN [rows EXCEPT ![u].parts = @ \cup {n}] ELSE rows
  /\ LET stored == Exists(u) /\ n \notin rows[u].parts /\ writer[u].stage = "parts"
     IN  \E heard \in {FALSE, stored} :
           writer' = [writer EXCEPT ![u].flight[n] = @ - 1,
                                    ![u].acked = IF heard THEN @ \cup {n} ELSE @]
  /\ UNCHANGED <<index, folders, used, charge, gone, deleter, may, mixed>>

\* validateMultipartManifest: the stored parts, all of them, without a gap.
ManifestFound(u, manifest) == manifest \subseteq rows[u].parts

ManifestOK(u, manifest) ==
  manifest = rows[u].parts /\ manifest = 1..Cardinality(manifest)

\* completeMultipartUpload reads the record and the versions to replace.  The
\* client waits for the parts it declares and for none of the others.
AskComplete(u) ==
  /\ writer[u].stage \in {"parts", "retry"} /\ Alone(u, writer[u].key)
  /\ \E manifest \in (SUBSET writer[u].acked) \ {{}} :
       /\ \A n \in Part \ manifest : writer[u].flight[n] = 0
       /\ IF rows[u].trashed \/ ~Exists(u) \/ ~ManifestOK(u, manifest)
          THEN Failed(u)
          ELSE IF rows[u].status = "complete" THEN Acked(u)
          ELSE /\ writer' = [writer EXCEPT ![u].stage = "completing", ![u].manifest = manifest,
                                           ![u].replaced = Stale(u)]
               /\ UNCHANGED <<may, mixed>>
  /\ UNCHANGED <<index, rows, folders, used, charge, gone, deleter>>

\* Its transaction; a client that misses the answer asks again.
CompleteUpload(u) ==
  /\ writer[u].stage = "completing"
  /\ rows' = Trash([rows EXCEPT ![u].status = "complete", ![u].size = Cardinality(writer[u].manifest)],
                   writer[u].replaced)
  /\ Charge(u, Cardinality(writer[u].manifest))
  /\ Acked(u) \/ ("reply" \in Faults /\ Step(u, "retry") /\ UNCHANGED <<may, mixed>>)
  /\ UNCHANGED <<index, folders, gone, deleter>>

\* abortMultipartUpload deletes the messages it read, then the record.
Abort(u) ==
  /\ writer[u].stage = "parts" /\ rows[u].status = "uploading"
  /\ gone' = gone \cup Messages(u)
  /\ Step(u, "aborting")
  /\ UNCHANGED <<index, rows, folders, used, charge, deleter, may, mixed>>

DropUpload(u) ==
  /\ writer[u].stage = "aborting"
  /\ rows' = [rows EXCEPT ![u] = NoRow]
  /\ Failed(u)
  /\ UNCHANGED <<index, folders, used, charge, gone, deleter>>

-----------------------------------------------------------------------------
(* DeleteObject and the cleanup of stale uploads.                           *)

\* Acknowledged objects that no request finds yet: a delete misses them, and
\* they appear after it.
Waiting(key) == {v \in Version : rows[v].status = "buffered" /\ rows[v].key = key}

\* findObject; an unknown key is no error.
FindObject(d, key) ==
  /\ deleter[d].stage = "idle"
  /\ IF Visible(key) = {}
     THEN /\ deleter' = [deleter EXCEPT ![d].stage = "over"]
          /\ may' = [may EXCEPT ![key] = IF Quiet(key) /\ Waiting(key) = {} THEN {None} ELSE @ \cup {None}]
          /\ UNCHANGED mixed
     ELSE /\ \E v \in Visible(key) :
               deleter' = [deleter EXCEPT ![d] = [stage |-> "purge", key |-> key, target |-> v,
                                                  folder |-> rows[v].folder]]
          /\ mixed' = [mixed EXCEPT ![key] = ~Quiet(key)]
          /\ UNCHANGED may
  /\ UNCHANGED <<index, rows, folders, used, charge, gone, writer>>

\* delete reads the record once more and purges its messages, then its row.
Purge(d) ==
  /\ deleter[d].stage = "purge"
  /\ LET v == deleter[d].target IN
       IF Active(deleter[d].key, deleter[d].folder) \cap {v} # {}
       THEN gone' = gone \cup Messages(v) /\ deleter' = [deleter EXCEPT ![d].stage = "delete"]
       ELSE UNCHANGED gone /\ deleter' = [deleter EXCEPT ![d].stage = "cleanup"]
  /\ UNCHANGED <<index, rows, folders, used, charge, writer, may, mixed>>

\* An overwrite may have trashed the version and reclaimed its size meanwhile.
HardDelete(d) ==
  /\ deleter[d].stage = "delete"
  /\ LET v == deleter[d].target IN
       /\ Exists(v)
       /\ rows' = [rows EXCEPT ![v] = NoRow]
       /\ Charge(v, -rows[v].size)
  /\ deleter' = [deleter EXCEPT ![d].stage = "cleanup"]
  /\ UNCHANGED <<index, folders, gone, writer, may, mixed>>

Answered(d) ==
  /\ deleter' = [deleter EXCEPT ![d].stage = "over"]
  /\ Answer(d, deleter[d].key, TRUE, None)

IsEmptyAlways(f) == f \in DOMAIN folders

\* A folder with no active row of any key and status.
IsEmpty(f) == \A v \in Version : Exists(v) /\ rows[v].folder = f => rows[v].trashed

Holding(f) == {w \in Version : writer[w].folder = f /\ writer[w].stage \notin Over}

\* cleanupEmptyFolders: look, then remove.
LookEmpty(d) ==
  /\ deleter[d].stage = "cleanup"
  /\ IF folders[deleter[d].folder] = "active" /\ IsEmpty(deleter[d].folder)
     THEN /\ "rmdirRace" \in Faults \/ Holding(deleter[d].folder) = {}
          /\ deleter' = [deleter EXCEPT ![d].stage = "rmdir"]
          /\ UNCHANGED <<may, mixed>>
     ELSE Answered(d)
  /\ UNCHANGED <<index, rows, folders, used, charge, gone, writer>>

RemoveFolder(d) ==
  /\ deleter[d].stage = "rmdir"
  /\ folders' = [folders EXCEPT ![deleter[d].folder] = "trashed"]
  /\ Answered(d)
  /\ UNCHANGED <<index, rows, used, charge, gone, writer>>

\* The cron for uploads that were not touched for a day gives back quota and
\* marks the row, which stays active.
StaleCleanup(v) ==
  /\ "stale" \in Faults
  /\ rows[v].status \in {"uploading", "buffered", "buffer_failed"} /\ writer[v].stage \in Over
  /\ Charge(v, -rows[v].size)
  /\ rows' = [rows EXCEPT ![v].status = "upload_timeout"]
  /\ UNCHANGED <<index, folders, gone, writer, deleter, may, mixed>>

-----------------------------------------------------------------------------
Init ==
  /\ index \in Index
  /\ rows = [v \in Version |-> NoRow]
  /\ folders = [f \in 1..FolderMax |-> "none"]
  /\ used = 0 /\ charge = [v \in Version |-> 0] /\ gone = {}
  /\ writer = [w \in Version |-> [stage |-> "idle", path |-> None, key |-> None, folder |-> 0,
                                  replaced |-> {}, manifest |-> {}, acked |-> {},
                                  flight |-> [n \in Part |-> 0]]]
  /\ deleter = [d \in Deleter |-> [stage |-> "idle", key |-> None, target |-> None, folder |-> 0]]
  /\ may = [k \in Key |-> {None}]
  /\ mixed = [k \in Key |-> FALSE]

Next ==
  \/ \E w \in Version :
       \/ \E k \in Key : Start(w, k)
       \/ FindFolder(w) \/ MakeFolder(w) \/ Refuse(w) \/ CreateEmpty(w)
       \/ \E path \in Path \cup {"multipart"} : Create(w, path)
       \/ UploadBody(w) \/ UploadFails(w) \/ Report(w) \/ ReportFails(w)
       \/ CompleteDirect(w) \/ Replace(w) \/ StaleCleanup(w)
       \/ \E ok \in BOOLEAN : WorkOff(w, ok)
  \/ \E u \in Upload :
       \/ \E n \in Part : SendPart(u, n) \/ StorePart(u, n)
       \/ AskComplete(u) \/ CompleteUpload(u) \/ Abort(u) \/ DropUpload(u)
  \/ \E d \in Deleter :
       \/ \E k \in Key : FindObject(d, k)
       \/ Purge(d) \/ HardDelete(d) \/ LookEmpty(d) \/ RemoveFolder(d)

Spec == Init /\ [][Next]_vars

-----------------------------------------------------------------------------
\* When no request for a key runs, a read finds one object at most, and it is
\* that of an acknowledged put which nothing acknowledged has replaced since, or
\* of a put that failed after it; it finds nothing only if that is such an outcome,
\* or if the put was acknowledged from the buffer and is not worked off.
Durable ==
  \A k \in Key : Quiet(k) =>
    /\ Cardinality(Visible(k)) <= 1
    /\ Visible(k) \subseteq may[k]
    /\ Visible(k) = {} =>
         None \in may[k] \/ \E v \in may[k] : writer[v].path = "buffered" /\ rows[v].status # "complete"

\* What a step may take out of sight: the version that a delete has found, or an
\* older version by a request whose own one the system has taken in.
Replaces(k) ==
  \A v \in Visible(k) \ Visible(k)' :
    \/ \E d \in Deleter : deleter[d].stage = "delete" /\ deleter'[d].stage = "cleanup"
                          /\ deleter[d].target = v
    \/ \E w \in Version \ {v} : rows'[w].status # "uploading" /\ writer'[w] # writer[w]

\* A version that could be read disappears only by a delete of that very version,
\* or by a request whose own version is in Telegram or in the buffer: an upload that
\* fails before that destroys nothing.
OldSurvives == [][\A k \in Key : Replaces(k)]_vars

\* A multipart object has the parts its client declared and no other, whatever
\* attempts at a part came in twice or late; and what can be read has its
\* messages, except while the request that deletes it runs.
Whole ==
  /\ \A u \in Upload : rows[u].status = "complete" => rows[u].parts = writer[u].manifest
  /\ \A k \in Key : \A v \in Visible(k) :
       Messages(v) \cap gone = {} \/ \E d \in Deleter : deleter[d].stage = "delete" /\ deleter[d].target = v

\* What can be read is charged exactly once, and an upload that is not complete
\* is never charged nor released, whoever trashes it.
ChargeFits ==
  \A v \in Version :
    /\ rows[v].status = "complete" /\ ~rows[v].trashed => charge[v] = rows[v].size
    /\ rows[v].status \in {"uploading", "buffered", "buffer_failed"} => charge[v] = 0
=============================================================================
