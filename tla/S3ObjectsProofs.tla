-------------------------- MODULE S3ObjectsProofs --------------------------
(***************************************************************************)
(* Proofs about S3Objects, for any number of keys, puts, multipart uploads, *)
(* deletes, parts and folders, whether or not the index is applied, and     *)
(* about Accounts, which runs beside it in MCS3Objects.                     *)
(***************************************************************************)
EXTENDS S3Objects, Users, FiniteSetTheorems, TLAPS

Unhoused == {"idle", "find", "mkdir"}
Early   == {"idle", "find", "mkdir", "create"}
Ongoing == {"upload", "report", "complete", "parts", "completing", "aborting"}
Stages  == Early \cup Ongoing \cup {"replace", "retry", "over"}

RowState ==
  [status : Status, key : Key \cup {None}, folder : 0..FolderMax, trashed : BOOLEAN,
   size : Nat, parts : SUBSET Part]
WriterState ==
  [stage : Stages, path : Path \cup {"multipart", None}, key : Key \cup {None},
   folder : 0..FolderMax, replaced : SUBSET Version, manifest : SUBSET Part,
   acked : SUBSET Part, flight : [Part -> Nat]]
DeleterState ==
  [stage : {"idle", "purge", "delete", "cleanup", "rmdir", "over"}, key : Key \cup {None},
   target : Version \cup {None}, folder : 0..FolderMax]

Typed ==
  /\ rows \in [Version -> RowState] /\ charge \in [Version -> Int]
  /\ folders \in [1..FolderMax -> {"none", "active", "trashed"}]
  /\ writer \in [Version -> WriterState]
  /\ deleter \in [Deleter -> DeleterState]

-----------------------------------------------------------------------------
(* Types.                                                                   *)

LEMMA InitTyped == Init => Typed
<1>. SUFFICES ASSUME Init  PROVE Typed
  OBVIOUS
<1>1. NoRow \in RowState
  BY S3Assumption DEF NoRow, RowState, Status
<1>. DEFINE r == [stage |-> "idle", path |-> None, key |-> None, folder |-> 0, replaced |-> {},
                  manifest |-> {}, acked |-> {}, flight |-> [n \in Part |-> 0]]
<1>2. r \in WriterState
  BY S3Assumption DEF WriterState, Stages, Early
<1>3. writer \in [Version -> WriterState]
  BY <1>2 DEF Init
<1>4. deleter \in [Deleter -> DeleterState]
  BY S3Assumption DEF Init, DeleterState
<1>5. rows \in [Version -> RowState] /\ charge \in [Version -> Int]
      /\ folders \in [1..FolderMax -> {"none", "active", "trashed"}]
  BY <1>1 DEF Init
<1>. QED  BY <1>3, <1>4, <1>5 DEF Typed

LEMMA TrashTyped ==
  ASSUME NEW rs \in [Version -> RowState], NEW vs
  PROVE  /\ Trash(rs, vs) \in [Version -> RowState]
         /\ \A v \in Version :
              /\ v \notin vs => Trash(rs, vs)[v] = rs[v]
              /\ Trash(rs, vs)[v] \in {rs[v], [rs[v] EXCEPT !.trashed = TRUE]}
              /\ v \in vs /\ rs[v].status # "none" => Trash(rs, vs)[v] = [rs[v] EXCEPT !.trashed = TRUE]
BY DEF Trash, RowState

LEMMA SizeTyped ==
  ASSUME NEW S \in SUBSET Part
  PROVE  Cardinality(S) \in Nat
<1>1. IsFiniteSet(Part)
  BY S3Assumption, FS_Interval DEF Part
<1>. QED  BY <1>1, FS_Subset, FS_CardinalityType

LEMMA RowTyped ==
  ASSUME NEW r \in RowState, NEW s \in Status
  PROVE  /\ [r EXCEPT !.status = s] \in RowState
         /\ \A n \in Nat : [r EXCEPT !.status = s, !.size = n] \in RowState
BY DEF RowState

\* One row changes, the others stay.
LEMMA RowKept ==
  ASSUME Typed, NEW w \in Version, NEW r \in RowState
  PROVE  /\ [rows EXCEPT ![w] = r] \in [Version -> RowState]
         /\ [rows EXCEPT ![w] = r][w] = r
         /\ \A x \in Version \ {w} : [rows EXCEPT ![w] = r][x] = rows[x]
BY DEF Typed

LEMMA StatusKept ==
  ASSUME Typed, NEW w \in Version, NEW s \in Status
  PROVE  /\ [rows EXCEPT ![w].status = s] = [rows EXCEPT ![w] = [rows[w] EXCEPT !.status = s]]
         /\ [rows EXCEPT ![w].status = s] \in [Version -> RowState]
<1>1. [rows EXCEPT ![w].status = s] = [rows EXCEPT ![w] = [rows[w] EXCEPT !.status = s]]
  BY DEF Typed
<1>2. rows[w] \in RowState /\ [rows[w] EXCEPT !.status = s] \in RowState
  BY RowTyped DEF Typed
<1>. QED  BY <1>1, <1>2, RowKept

\* One request changes, the others stay.
LEMMA WriterKept ==
  ASSUME Typed, NEW w \in Version, NEW r \in WriterState, writer' = [writer EXCEPT ![w] = r]
  PROVE  /\ writer' \in [Version -> WriterState]
         /\ writer'[w] = r
         /\ \A x \in Version \ {w} : writer'[x] = writer[x]
BY DEF Typed

\* A request that goes on, or ends.
LEMMA StageTyped ==
  ASSUME NEW r \in WriterState, NEW s \in Stages
  PROVE  [r EXCEPT !.stage = s] \in WriterState
BY DEF WriterState

LEMMA StepTyped ==
  ASSUME Typed, NEW w \in Version, NEW s \in Stages, Step(w, s)
  PROVE  /\ writer' \in [Version -> WriterState]
         /\ \A x \in Version \ {w} : writer'[x] = writer[x]
         /\ writer'[w] = [writer[w] EXCEPT !.stage = s]
<1>1. writer[w] \in WriterState
  BY DEF Typed
<1>2. writer' = [writer EXCEPT ![w] = [writer[w] EXCEPT !.stage = s]]
  BY DEF Typed, Step
<1>. QED  BY <1>1, <1>2, StageTyped, WriterKept

LEMMA OverTyped ==
  ASSUME NEW r \in WriterState
  PROVE  [r EXCEPT !.stage = "over", !.replaced = {}, !.acked = {}] \in WriterState
BY DEF WriterState, Stages

LEMMA EndTyped ==
  ASSUME Typed, NEW w \in Version, End(w)
  PROVE  /\ writer' \in [Version -> WriterState]
         /\ \A x \in Version \ {w} : writer'[x] = writer[x]
         /\ writer'[w] = [writer[w] EXCEPT !.stage = "over", !.replaced = {}, !.acked = {}]
<1>1. writer[w] \in WriterState
  BY DEF Typed
<1>2. writer' = [writer EXCEPT ![w] = [writer[w] EXCEPT !.stage = "over", !.replaced = {}, !.acked = {}]]
  BY DEF Typed, End
<1>. QED  BY <1>1, <1>2, OverTyped, WriterKept

\* Requests that learn more about themselves.
LEMMA WriterTyped ==
  ASSUME NEW r \in WriterState, NEW s \in Stages
  PROVE  /\ \A k \in Key : [r EXCEPT !.stage = s, !.key = k] \in WriterState
         /\ \A f \in 0..FolderMax : [r EXCEPT !.stage = s, !.folder = f] \in WriterState
         /\ \A vs \in SUBSET Version : 
              /\ \A path \in Path \cup {"multipart"} :
                   [r EXCEPT !.replaced = vs, !.path = path, !.stage = s] \in WriterState
              /\ \A ps \in SUBSET Part :
                   [r EXCEPT !.stage = s, !.manifest = ps, !.replaced = vs] \in WriterState
BY DEF WriterState

LEMMA PartTyped ==
  ASSUME NEW r \in WriterState, NEW ps \in SUBSET Part
  PROVE  /\ [r EXCEPT !.acked = ps] \in WriterState
         /\ \A n \in Part, i \in Nat :
              /\ [r EXCEPT !.flight[n] = i] \in WriterState
              /\ [r EXCEPT !.flight[n] = i, !.acked = ps] \in WriterState
BY DEF WriterState

LEMMA ToldEnds ==
  ASSUME NEW w \in Version, Told(w) \/ Failed(w) \/ Acked(w)
  PROVE  End(w)
BY DEF Told, Failed, Acked

LEMMA NewRowTyped ==
  ASSUME Typed, NEW w \in Version, NEW s \in Status, NEW n \in Nat
  PROVE  /\ NewRow(w, s, n) \in RowState
         /\ NewRow(w, s, n).status = s /\ NewRow(w, s, n).size = n /\ ~NewRow(w, s, n).trashed
         /\ NewRow(w, s, n).folder = writer[w].folder /\ NewRow(w, s, n).parts = {}
         /\ NewRow(w, s, n).key = writer[w].key
<1>1. writer[w].key \in Key \cup {None} /\ writer[w].folder \in 0..FolderMax
  BY DEF Typed, WriterState
<1>. QED  BY <1>1 DEF NewRow, NoRow, RowState

LEMMA ReclaimTyped ==
  ASSUME Typed, NEW w \in Version, NEW n \in Int, NEW vs, ChargeAndReclaim(w, n, vs)
  PROVE  /\ charge' \in [Version -> Int]
         /\ \A v \in Version \ {w} : v \notin vs => charge'[v] = charge[v]
         /\ w \notin vs => charge'[w] = charge[w] + n
<1>1. \A v \in Version : rows[v].size \in Int /\ charge[v] \in Int
  BY DEF Typed, RowState
<1>. QED  BY <1>1 DEF ChargeAndReclaim

LEMMA ChargeTyped ==
  ASSUME Typed, NEW w \in Version, NEW n \in Int, Charge(w, n)
  PROVE  /\ charge' \in [Version -> Int]
         /\ \A v \in Version \ {w} : charge'[v] = charge[v]
         /\ charge'[w] = charge[w] + n
BY DEF Charge, Typed

\* The requests that write.
LEMMA PutTyped ==
  ASSUME Typed, NEW w \in Version,
         \/ \E k \in Key : Start(w, k)
         \/ FindFolder(w) \/ MakeFolder(w) \/ Refuse(w) \/ CreateEmpty(w)
         \/ \E path \in Path \cup {"multipart"} : Create(w, path)
         \/ UploadBody(w) \/ UploadFails(w) \/ Report(w) \/ ReportFails(w)
         \/ CompleteDirect(w) \/ Replace(w) \/ StaleCleanup(w)
         \/ \E ok \in BOOLEAN : WorkOff(w, ok)
  PROVE  Typed'
<1>0. /\ rows \in [Version -> RowState] /\ charge \in [Version -> Int]
      /\ folders \in [1..FolderMax -> {"none", "active", "trashed"}]
      /\ writer \in [Version -> WriterState] /\ deleter \in [Deleter -> DeleterState]
      /\ rows[w].size \in Nat
  BY DEF Typed, RowState
<1>. DEFINE Rest == UNCHANGED <<folders, deleter>>
<1>1. ASSUME rows' \in [Version -> RowState], charge' \in [Version -> Int],
             writer' \in [Version -> WriterState], Rest
      PROVE  Typed'
  BY <1>0, <1>1 DEF Typed
<1>2. ASSUME NEW k \in Key, Start(w, k)  PROVE Typed'
  <2>0. "find" \in Stages /\ writer[w] \in WriterState
    BY <1>0 DEF Stages, Early
  <2>1. writer' = [writer EXCEPT ![w] = [writer[w] EXCEPT !.stage = "find", !.key = k]]
    BY <1>0, <1>2 DEF Start
  <2>2. [writer[w] EXCEPT !.stage = "find", !.key = k] \in WriterState
    BY <2>0, WriterTyped
  <2>3. writer' \in [Version -> WriterState]
    BY <2>1, <2>2, WriterKept
  <2>. QED  BY <1>0, <1>1, <1>2, <2>3 DEF Start
<1>3. CASE FindFolder(w)
  <2>1. CASE FolderFound
    <3>1. PICK f \in ActiveFolders : writer' = [writer EXCEPT ![w].stage = "create", ![w].folder = f]
      BY <1>3, <2>1 DEF FindFolder, FolderFound
    <3>2. f \in 0..FolderMax
      BY <1>0, <3>1, S3Assumption DEF ActiveFolders
    <3>3. writer' = [writer EXCEPT ![w] = [writer[w] EXCEPT !.stage = "create", !.folder = f]]
      BY <1>0, <3>1
    <3>4. [writer[w] EXCEPT !.stage = "create", !.folder = f] \in WriterState
      BY <1>0, <3>2, WriterTyped DEF Stages, Early
    <3>. QED  BY <1>0, <1>1, <1>3, <3>3, <3>4, WriterKept DEF FindFolder
  <2>2. CASE ~FolderFound
    <3>1. Step(w, "mkdir") /\ "mkdir" \in Stages
      BY <1>3, <2>2 DEF FindFolder, Step, Stages, Early
    <3>. QED  BY <1>0, <1>1, <1>3, <3>1, StepTyped DEF FindFolder
  <2>. QED  BY <2>1, <2>2
<1>4. CASE MakeFolder(w)
  <2>1. PICK f \in DOMAIN folders :
           /\ folders' = [folders EXCEPT ![f] = "active"]
           /\ writer' = [writer EXCEPT ![w].stage = "create", ![w].folder = f]
    BY <1>4 DEF MakeFolder
  <2>2. f \in 0..FolderMax
    BY <1>0, <2>1, S3Assumption
  <2>3. writer' = [writer EXCEPT ![w] = [writer[w] EXCEPT !.stage = "create", !.folder = f]]
    BY <1>0, <2>1
  <2>5. [writer[w] EXCEPT !.stage = "create", !.folder = f] \in WriterState
    BY <1>0, <2>2, WriterTyped DEF Stages, Early
  <2>4. folders' \in [1..FolderMax -> {"none", "active", "trashed"}]
    BY <1>0, <2>1
  <2>6. writer' \in [Version -> WriterState]
    BY <2>3, <2>5, WriterKept
  <2>. QED  BY <1>0, <1>4, <2>4, <2>6 DEF MakeFolder, Typed
<1>5. CASE Refuse(w) \/ ReportFails(w)
  <2>1. End(w)
    BY <1>5, ToldEnds DEF Refuse, ReportFails
  <2>. QED  BY <1>0, <1>1, <1>5, <2>1, EndTyped DEF Refuse, ReportFails
<1>6. CASE CreateEmpty(w)
  <2>1. End(w)
    BY <1>6, ToldEnds DEF CreateEmpty
  <2>2. [rows EXCEPT ![w] = NewRow(w, "complete", 0)] \in [Version -> RowState]
    BY <1>0, NewRowTyped DEF Status
  <2>3. rows' \in [Version -> RowState]
    BY <1>6, <2>2, TrashTyped DEF CreateEmpty
  <2>4. charge' \in [Version -> Int]
    BY <1>6, ReclaimTyped DEF CreateEmpty
  <2>. QED  BY <1>1, <1>6, <2>1, <2>3, <2>4, EndTyped DEF CreateEmpty
<1>7. ASSUME NEW path \in Path \cup {"multipart"}, Create(w, path)  PROVE Typed'
  <2>. DEFINE st == IF path = "buffered" THEN "buffered" ELSE "uploading"
              n == IF path = "multipart" THEN 0 ELSE 1
              s == CASE path = "multipart" -> "parts"
                     [] path = "buffered" -> "replace"
                     [] OTHER -> "upload"
  <2>1. st \in Status /\ n \in Nat /\ s \in Stages
    BY DEF Status, Stages, Ongoing
  <2>2. Stale(w) \subseteq Version
    BY DEF Stale, Active, At
  <2>3. writer' = [writer EXCEPT ![w].replaced = Stale(w), ![w].path = path, ![w].stage = s]
        /\ rows' = [rows EXCEPT ![w] = NewRow(w, st, n)]
    BY <1>7 DEF Create
  <2>. HIDE DEF st, n, s
  <2>4. rows' \in [Version -> RowState]
    BY <1>0, <2>1, <2>3, NewRowTyped
  <2>5. writer' = [writer EXCEPT ![w] = [writer[w] EXCEPT !.replaced = Stale(w), !.path = path, !.stage = s]]
    BY <1>0, <2>3
  <2>6. [writer[w] EXCEPT !.replaced = Stale(w), !.path = path, !.stage = s] \in WriterState
    BY <1>0, <2>1, <2>2, WriterTyped
  <2>7. writer' \in [Version -> WriterState]
    BY <2>5, <2>6, WriterKept
  <2>. QED  BY <1>0, <1>1, <1>7, <2>4, <2>7 DEF Create
<1>8. CASE UploadBody(w)
  <2>1. PICK s \in Stages : Step(w, s)
    BY <1>8 DEF UploadBody, Stages, Ongoing
  <2>. QED  BY <1>0, <1>1, <1>8, <2>1, StepTyped DEF UploadBody
<1>9. CASE UploadFails(w)
  <2>1. End(w)
    BY <1>9, ToldEnds DEF UploadFails
  <2>2. NoRow \in RowState
    BY S3Assumption DEF NoRow, RowState, Status
  <2>3. rows' \in [Version -> RowState]
    BY <1>0, <1>9, <2>2 DEF UploadFails
  <2>. QED  BY <1>0, <1>1, <1>9, <2>1, <2>3, EndTyped DEF UploadFails
<1>10. CASE Report(w)
  <2>1. End(w)
    BY <1>10, ToldEnds DEF Report
  <2>2. [rows EXCEPT ![w].status = "complete"] \in [Version -> RowState]
    BY StatusKept DEF Status
  <2>3. rows' \in [Version -> RowState]
    BY <1>10, <2>2, TrashTyped DEF Report
  <2>4. charge' \in [Version -> Int]
    BY <1>0, <1>10, ReclaimTyped DEF Report
  <2>. QED  BY <1>1, <1>10, <2>1, <2>3, <2>4, EndTyped DEF Report
<1>11. CASE CompleteDirect(w)
  <2>1. rows' \in [Version -> RowState]
    BY <1>11, StatusKept DEF CompleteDirect, Status
  <2>2. Step(w, "replace") /\ "replace" \in Stages
    BY <1>11 DEF CompleteDirect, Stages
  <2>3. charge' \in [Version -> Int]
    BY <1>0, <1>11, ChargeTyped DEF CompleteDirect
  <2>. QED  BY <1>1, <1>11, <2>1, <2>2, <2>3, StepTyped DEF CompleteDirect
<1>12. CASE Replace(w)
  <2>1. End(w)
    BY <1>12, ToldEnds DEF Replace
  <2>2. rows' \in [Version -> RowState]
    BY <1>0, <1>12, TrashTyped DEF Replace
  <2>. QED  BY <1>0, <1>1, <1>12, <2>1, <2>2, EndTyped DEF Replace
<1>13. CASE StaleCleanup(w)
  <2>1. rows' \in [Version -> RowState]
    BY <1>13, StatusKept DEF StaleCleanup, Status
  <2>2. -rows[w].size \in Int
    BY <1>0
  <2>. QED  BY <1>0, <1>1, <1>13, <2>1, <2>2, ChargeTyped DEF StaleCleanup
<1>14. ASSUME NEW ok \in BOOLEAN, WorkOff(w, ok)  PROVE Typed'
  <2>1. (IF ok THEN "complete" ELSE "buffer_failed") \in Status
    BY DEF Status
  <2>3. rows' \in [Version -> RowState]
    BY <1>14, <2>1, StatusKept DEF WorkOff
  <2>2. (IF ok THEN rows[w].size ELSE 0) \in Int
    BY <1>0
  <2>. QED  BY <1>0, <1>1, <1>14, <2>2, <2>3, ChargeTyped DEF WorkOff
<1>. QED
  BY <1>2, <1>3, <1>4, <1>5, <1>6, <1>7, <1>8, <1>9, <1>10, <1>11, <1>12, <1>13, <1>14

LEMMA UploadTyped ==
  ASSUME Typed, NEW u \in Upload,
         \/ \E n \in Part : SendPart(u, n) \/ StorePart(u, n)
         \/ AskComplete(u) \/ CompleteUpload(u) \/ Abort(u) \/ DropUpload(u)
  PROVE  Typed'
<1>0. /\ rows \in [Version -> RowState] /\ charge \in [Version -> Int]
      /\ writer \in [Version -> WriterState] /\ u \in Version
      /\ writer[u].flight \in [Part -> Nat] /\ writer[u].manifest \subseteq Part
      /\ writer[u].acked \subseteq Part
  BY DEF Typed, WriterState, Version
<1>1. ASSUME rows' \in [Version -> RowState], charge' \in [Version -> Int],
             writer' \in [Version -> WriterState], UNCHANGED <<folders, deleter>>
      PROVE  Typed'
  BY <1>1 DEF Typed
<1>2. ASSUME NEW n \in Part, SendPart(u, n)  PROVE Typed'
  <2>1. CASE n \in rows[u].parts
    <3>1. writer' = [writer EXCEPT ![u].acked = @ \cup {n}]
      BY <1>2, <2>1 DEF SendPart
    <3>2. writer' = [writer EXCEPT ![u] = [writer[u] EXCEPT !.acked = writer[u].acked \cup {n}]]
      BY <1>0, <3>1
    <3>3. [writer[u] EXCEPT !.acked = writer[u].acked \cup {n}] \in WriterState
      BY <1>0, PartTyped
    <3>. QED  BY <1>0, <1>1, <1>2, <3>2, <3>3, WriterKept DEF SendPart
  <2>2. CASE n \notin rows[u].parts
    <3>1. writer' = [writer EXCEPT ![u].flight[n] = @ + 1]
      BY <1>2, <2>2 DEF SendPart
    <3>2. writer' = [writer EXCEPT ![u] = [writer[u] EXCEPT !.flight[n] = writer[u].flight[n] + 1]]
      BY <1>0, <3>1
    <3>4. writer[u].flight[n] + 1 \in Nat /\ writer[u] \in WriterState
      BY <1>0
    <3>3. [writer[u] EXCEPT !.flight[n] = writer[u].flight[n] + 1] \in WriterState
      BY <3>4, PartTyped
    <3>. QED  BY <1>0, <1>1, <1>2, <3>2, <3>3, WriterKept DEF SendPart
  <2>. QED  BY <2>1, <2>2
<1>3. ASSUME NEW n \in Part, StorePart(u, n)  PROVE Typed'
  <2>1. rows' \in [Version -> RowState]
    <3>1. rows[u] \in RowState /\ [rows[u] EXCEPT !.parts = rows[u].parts \cup {n}] \in RowState
      BY <1>0 DEF RowState
    <3>2. [rows EXCEPT ![u].parts = @ \cup {n}]
            = [rows EXCEPT ![u] = [rows[u] EXCEPT !.parts = rows[u].parts \cup {n}]]
      BY <1>0
    <3>. QED  BY <1>0, <1>3, <3>1, <3>2, RowKept DEF StorePart
  <2>2. writer[u].flight[n] > 0
    BY <1>3 DEF StorePart
  <2>3. PICK heard \in {TRUE, FALSE} :
           writer' = [writer EXCEPT ![u].flight[n] = @ - 1,
                                    ![u].acked = IF heard THEN @ \cup {n} ELSE @]
    BY <1>3 DEF StorePart, Exists
  <2>. DEFINE ps == IF heard THEN writer[u].acked \cup {n} ELSE writer[u].acked
              i == writer[u].flight[n] - 1
  <2>4. ps \in SUBSET Part /\ i \in Nat
    BY <1>0, <2>2
  <2>5. writer' = [writer EXCEPT ![u] = [writer[u] EXCEPT !.flight[n] = i, !.acked = ps]]
    BY <1>0, <2>3
  <2>. HIDE DEF ps, i
  <2>6. [writer[u] EXCEPT !.flight[n] = i, !.acked = ps] \in WriterState
    BY <1>0, <2>4, PartTyped
  <2>. QED  BY <1>0, <1>1, <1>3, <2>1, <2>5, <2>6, WriterKept DEF StorePart
<1>4. CASE AskComplete(u)
  <2>1. CASE End(u)
    BY <1>0, <1>1, <1>4, <2>1, EndTyped DEF AskComplete
  <2>2. CASE ~End(u)
    <3>1. PICK manifest \in SUBSET Part :
             writer' = [writer EXCEPT ![u].stage = "completing", ![u].manifest = manifest,
                                      ![u].replaced = Stale(u)]
      BY <1>0, <1>4, <2>2 DEF AskComplete, Failed, Acked
    <3>2. Stale(u) \subseteq Version
      BY DEF Stale, Active, At
    <3>3. writer' = [writer EXCEPT ![u] = [writer[u] EXCEPT !.stage = "completing", !.manifest = manifest,
                                                            !.replaced = Stale(u)]]
      BY <1>0, <3>1
    <3>4. [writer[u] EXCEPT !.stage = "completing", !.manifest = manifest, !.replaced = Stale(u)]
             \in WriterState
      BY <1>0, <3>2, WriterTyped DEF Stages, Ongoing
    <3>. QED  BY <1>0, <1>1, <1>4, <3>3, <3>4, WriterKept DEF AskComplete
  <2>. QED  BY <2>1, <2>2
<1>5. CASE CompleteUpload(u)
  <2>. DEFINE n == Cardinality(writer[u].manifest)
  <2>1. n \in Nat /\ n \in Int
    BY <1>0, SizeTyped
  <2>2. Charge(u, n) /\ rows' = Trash([rows EXCEPT ![u].status = "complete", ![u].size = n],
                                      writer[u].replaced)
    BY <1>5 DEF CompleteUpload
  <2>. HIDE DEF n
  <2>3. [rows EXCEPT ![u].status = "complete", ![u].size = n] \in [Version -> RowState]
    <3>1. rows[u] \in RowState /\ [rows[u] EXCEPT !.status = "complete", !.size = n] \in RowState
      BY <1>0, <2>1, RowTyped DEF Status
    <3>2. [rows EXCEPT ![u].status = "complete", ![u].size = n]
            = [rows EXCEPT ![u] = [rows[u] EXCEPT !.status = "complete", !.size = n]]
      BY <1>0
    <3>. QED  BY <1>0, <3>1, <3>2, RowKept
  <2>4. rows' \in [Version -> RowState] /\ charge' \in [Version -> Int]
    BY <1>0, <2>1, <2>2, <2>3, TrashTyped, ChargeTyped
  <2>5. End(u) \/ (Step(u, "retry") /\ "retry" \in Stages)
    BY <1>5 DEF CompleteUpload, Acked, Stages
  <2>. QED  BY <1>0, <1>1, <1>5, <2>4, <2>5, EndTyped, StepTyped DEF CompleteUpload
<1>6. CASE Abort(u)
  <2>1. Step(u, "aborting") /\ "aborting" \in Stages
    BY <1>6 DEF Abort, Stages, Ongoing
  <2>. QED  BY <1>0, <1>1, <1>6, <2>1, StepTyped DEF Abort
<1>7. CASE DropUpload(u)
  <2>1. NoRow \in RowState
    BY S3Assumption DEF NoRow, RowState, Status
  <2>2. rows' \in [Version -> RowState] /\ End(u)
    BY <1>0, <1>7, <2>1, ToldEnds DEF DropUpload
  <2>. QED  BY <1>0, <1>1, <1>7, <2>2, EndTyped DEF DropUpload
<1>. QED  BY <1>2, <1>3, <1>4, <1>5, <1>6, <1>7

LEMMA DeleteTyped ==
  ASSUME Typed, NEW d \in Deleter,
         \/ \E k \in Key : FindObject(d, k)
         \/ Purge(d) \/ HardDelete(d) \/ LookEmpty(d) \/ RemoveFolder(d)
  PROVE  Typed'
<1>0. /\ rows \in [Version -> RowState] /\ charge \in [Version -> Int]
      /\ folders \in [1..FolderMax -> {"none", "active", "trashed"}]
      /\ writer \in [Version -> WriterState] /\ deleter \in [Deleter -> DeleterState]
  BY DEF Typed
<1>1. \A s \in {"delete", "cleanup", "over", "rmdir"} :
        deleter' = [deleter EXCEPT ![d].stage = s] => deleter' \in [Deleter -> DeleterState]
  <2>1. ASSUME NEW s \in {"delete", "cleanup", "over", "rmdir"}, deleter' = [deleter EXCEPT ![d].stage = s]
        PROVE  deleter' \in [Deleter -> DeleterState]
    <3>1. deleter[d] \in DeleterState /\ [deleter[d] EXCEPT !.stage = s] \in DeleterState
      BY <1>0 DEF DeleterState
    <3>2. deleter' = [deleter EXCEPT ![d] = [deleter[d] EXCEPT !.stage = s]]
      BY <1>0, <2>1
    <3>. QED  BY <1>0, <3>1, <3>2
  <2>. QED  BY <2>1
<1>2. ASSUME NEW k \in Key, FindObject(d, k)  PROVE Typed'
  <2>1. CASE Visible(k) = {}
    BY <1>0, <1>1, <1>2, <2>1 DEF FindObject, Typed
  <2>2. CASE Visible(k) # {}
    <3>1. PICK v \in Visible(k) :
            deleter' = [deleter EXCEPT ![d] = [stage |-> "purge", key |-> k, target |-> v,
                                               folder |-> rows[v].folder]]
      BY <1>2, <2>2 DEF FindObject
    <3>2. v \in Version /\ rows[v].folder \in 0..FolderMax
      BY <1>0, <3>1 DEF Visible, Active, At, RowState
    <3>3. deleter' \in [Deleter -> DeleterState]
      BY <1>0, <3>1, <3>2 DEF DeleterState
    <3>. QED  BY <1>0, <1>2, <3>3 DEF FindObject, Typed
  <2>. QED  BY <2>1, <2>2
<1>3. CASE Purge(d)
  BY <1>0, <1>1, <1>3 DEF Purge, Typed
<1>4. CASE HardDelete(d)
  <2>. DEFINE v == deleter[d].target
  <2>1. CASE v \in Version
    <3>1. NoRow \in RowState
      BY S3Assumption DEF NoRow, RowState, Status
    <3>2. rows' \in [Version -> RowState] /\ Charge(v, -rows[v].size) /\ -rows[v].size \in Int
      BY <1>0, <1>4, <2>1, <3>1 DEF HardDelete, RowState
    <3>3. charge' \in [Version -> Int]
      BY <2>1, <3>2, ChargeTyped
    <3>. QED  BY <1>0, <1>1, <1>4, <3>2, <3>3 DEF HardDelete, Typed
  <2>2. CASE v \notin Version
    BY <1>0, <1>1, <1>4, <2>2 DEF HardDelete, Charge, Typed
  <2>. QED  BY <2>1, <2>2
<1>5. CASE LookEmpty(d)
  BY <1>0, <1>1, <1>5 DEF LookEmpty, Answered, Typed
<1>6. CASE RemoveFolder(d)
  <2>1. folders' \in [1..FolderMax -> {"none", "active", "trashed"}]
    BY <1>0, <1>6 DEF RemoveFolder
  <2>. QED  BY <1>0, <1>1, <1>6, <2>1 DEF RemoveFolder, Answered, Typed
<1>. QED  BY <1>2, <1>3, <1>4, <1>5, <1>6

LEMMA NextTyped == Typed /\ [Next]_vars => Typed'
<1>1. ASSUME Typed, UNCHANGED vars  PROVE Typed'
  BY <1>1 DEF Typed, vars
<1>. QED  BY <1>1, PutTyped, UploadTyped, DeleteTyped DEF Next

\* Every variable that the object's state depends on keeps its type.
THEOREM TypeCorrect == Spec => []Typed
<1>. QED  BY InitTyped, NextTyped, PTL DEF Spec

-----------------------------------------------------------------------------
(* How a request, its row, what it was charged and its parts go together.   *)

StageFits(v) ==
  /\ writer[v].stage \in Early => rows[v].status = "none" /\ charge[v] = 0
  /\ writer[v].stage \in Ongoing => rows[v].status = "uploading"
  /\ writer[v].stage = "retry" => rows[v].status \in {"complete", "none"}
  /\ writer[v].stage = "replace" => rows[v].status # "uploading"
  /\ v \notin writer[v].replaced
  /\ \/ writer[v].stage \in {"upload", "report", "complete", "replace"}
     \/ rows[v].status \in {"buffered", "buffer_failed"}
     => v \notin Upload

ChargeOf(v) ==
  /\ rows[v].status = "complete" /\ ~rows[v].trashed => charge[v] = rows[v].size
  /\ rows[v].status \in {"uploading", "buffered", "buffer_failed"} => charge[v] = 0

PartsFit(v) ==
  v \in Upload /\ (writer[v].stage = "completing" \/ rows[v].status = "complete") =>
    /\ rows[v].parts = writer[v].manifest
    /\ \A n \in Part \ writer[v].manifest : writer[v].flight[n] = 0

Fit(v) == StageFits(v) /\ ChargeOf(v) /\ PartsFit(v)
AllFit == \A v \in Version : Fit(v)

\* What no step undoes.
Moves(v) ==
  /\ writer[v].stage \notin Early => writer'[v].stage \notin Early
  /\ writer[v].stage \notin Early /\ rows[v].status = "none" => rows'[v].status = "none"
  /\ rows[v].status = "complete" => rows'[v].status \in {"complete", "none"}
  /\ writer[v].stage = "aborting" => writer'[v].stage = "aborting" \/ rows'[v].status = "none"
  /\ writer[v].stage = "over" => writer'[v].stage = "over"
  /\ FindFolder(v) \/ MakeFolder(v) \/ writer'[v].folder = writer[v].folder
  /\ writer'[v].stage \in Unhoused =>
       writer[v].stage \in Unhoused /\ writer'[v].folder = writer[v].folder
  /\ rows'[v].status # "none" =>
       \/ /\ rows[v].status # "none" /\ rows'[v].folder = rows[v].folder
          /\ rows[v].trashed => rows'[v].trashed
       \/ writer[v].stage = "create" /\ rows'[v].folder = writer[v].folder

\* The request of another version: its row may be trashed.
Calm(v) ==
  /\ writer'[v] = writer[v]
  /\ \/ rows'[v] = rows[v] /\ charge'[v] = charge[v]
     \/ /\ rows'[v] = [rows[v] EXCEPT !.trashed = TRUE]
        /\ charge'[v] = charge[v] \/ rows[v].status = "complete"

LEMMA CalmFits ==
  ASSUME Typed, NEW v \in Version, Fit(v), Calm(v)
  PROVE  Fit(v)' /\ Moves(v)
<1>1. rows[v] \in RowState
  BY DEF Typed
<1>2. /\ rows'[v].status = rows[v].status /\ rows'[v].parts = rows[v].parts
      /\ rows'[v].size = rows[v].size
      /\ \/ rows'[v].trashed
         \/ rows'[v].trashed = rows[v].trashed /\ charge'[v] = charge[v]
      /\ rows'[v].folder = rows[v].folder
      /\ charge'[v] = charge[v] \/ rows[v].status = "complete"
  BY <1>1 DEF Calm, RowState
<1>3. writer'[v] = writer[v]
  BY DEF Calm
<1>4. StageFits(v)'
  BY <1>2, <1>3 DEF Fit, StageFits, Early
<1>5. ChargeOf(v)'
  BY <1>2 DEF Fit, ChargeOf
<1>6. PartsFit(v)'
  BY <1>2, <1>3 DEF Fit, PartsFit
<1>7. Moves(v)
  BY <1>2, <1>3 DEF Moves
<1>. QED  BY <1>4, <1>5, <1>6, <1>7 DEF Fit

\* The rest of a version's own step, stated on its row, stage and charge.
LEMMA OneFits ==
  ASSUME Typed, AllFit, NEW w \in Version, Fit(w)', Moves(w),
         \A v \in Version \ {w} : Calm(v)
  PROVE  AllFit' /\ \A v \in Version : Moves(v)
<1>1. \A v \in Version \ {w} : Fit(v)' /\ Moves(v)
  BY CalmFits DEF AllFit
<1>. QED  BY <1>1 DEF AllFit

\* A step that trashes other versions.
LEMMA TrashCalm ==
  ASSUME Typed, NEW w \in Version, NEW r \in RowState, NEW vs, w \notin vs,
         rows' = Trash([rows EXCEPT ![w] = r], vs),
         \A v \in Version \ {w} :
           /\ writer'[v] = writer[v]
           /\ charge'[v] = charge[v] \/ (v \in vs /\ rows[v].status = "complete")
  PROVE  rows'[w] = r /\ \A v \in Version \ {w} : Calm(v)
<1>. DEFINE rs == [rows EXCEPT ![w] = r]
<1>1. /\ rs \in [Version -> RowState] /\ rs[w] = r
      /\ \A x \in Version \ {w} : rs[x] = rows[x]
  BY RowKept
<1>2. rows' = Trash(rs, vs)
  OBVIOUS
<1>. HIDE DEF rs
<1>3. rows'[w] = r
  BY <1>1, <1>2 DEF Trash
<1>4. ASSUME NEW v \in Version \ {w}  PROVE Calm(v)
  <2>1. /\ rows'[v] \in {rows[v], [rows[v] EXCEPT !.trashed = TRUE]}
        /\ v \in vs /\ rows[v].status # "none" => rows'[v] = [rows[v] EXCEPT !.trashed = TRUE]
    BY <1>1, <1>2 DEF Trash
  <2>. QED  BY <2>1 DEF Calm
<1>. QED  BY <1>3, <1>4

LEMMA StepFields ==
  ASSUME Typed, NEW w \in Version, NEW s \in Stages, Step(w, s)
  PROVE  /\ writer'[w].stage = s /\ writer'[w].replaced = writer[w].replaced
         /\ writer'[w].manifest = writer[w].manifest /\ writer'[w].flight = writer[w].flight
         /\ writer'[w].folder = writer[w].folder
         /\ \A x \in Version \ {w} : writer'[x] = writer[x]
<1>1. writer[w] \in WriterState
  BY DEF Typed
<1>2. writer'[w] = [writer[w] EXCEPT !.stage = s] /\ \A x \in Version \ {w} : writer'[x] = writer[x]
  BY StepTyped
<1>. QED  BY <1>1, <1>2 DEF WriterState

LEMMA EndFields ==
  ASSUME Typed, NEW w \in Version, End(w)
  PROVE  /\ writer'[w].stage = "over" /\ writer'[w].replaced = {}
         /\ writer'[w].manifest = writer[w].manifest /\ writer'[w].flight = writer[w].flight
         /\ writer'[w].folder = writer[w].folder
         /\ \A x \in Version \ {w} : writer'[x] = writer[x]
<1>1. writer[w] \in WriterState
  BY DEF Typed
<1>2. /\ writer'[w] = [writer[w] EXCEPT !.stage = "over", !.replaced = {}, !.acked = {}]
      /\ \A x \in Version \ {w} : writer'[x] = writer[x]
  BY EndTyped
<1>. QED  BY <1>1, <1>2 DEF WriterState

\* A row that only changes its status.
LEMMA StatusStep ==
  ASSUME Typed, NEW w \in Version, NEW s \in Status, rows' = [rows EXCEPT ![w].status = s]
  PROVE  /\ rows'[w].status = s /\ rows'[w].size = rows[w].size /\ rows'[w].parts = rows[w].parts
         /\ rows'[w].trashed = rows[w].trashed /\ rows'[w].folder = rows[w].folder
         /\ rows'[w].key = rows[w].key
         /\ \A x \in Version \ {w} : rows'[x] = rows[x]
<1>1. rows[w] \in RowState /\ [rows[w] EXCEPT !.status = s] \in RowState
  BY RowTyped DEF Typed
<1>2. rows' = [rows EXCEPT ![w] = [rows[w] EXCEPT !.status = s]]
  BY StatusKept
<1>3. rows'[w] = [rows[w] EXCEPT !.status = s] /\ \A x \in Version \ {w} : rows'[x] = rows[x]
  BY <1>1, <1>2, RowKept
<1>4. LET r == [rows[w] EXCEPT !.status = s]
      IN  /\ r.status = s /\ r.size = rows[w].size /\ r.parts = rows[w].parts
          /\ r.trashed = rows[w].trashed /\ r.folder = rows[w].folder /\ r.key = rows[w].key
  BY <1>1 DEF RowState
<1>. QED  BY <1>3, <1>4

\* The steps that leave the rows and what was charged alone.
LEMMA EarlyFits ==
  ASSUME Typed, AllFit, NEW w \in Version,
         \/ \E k \in Key : Start(w, k)
         \/ FindFolder(w) \/ MakeFolder(w) \/ Refuse(w) \/ UploadBody(w) \/ ReportFails(w)
  PROVE  AllFit' /\ \A v \in Version : Moves(v)
<1>0. rows' = rows /\ charge' = charge
  BY DEF Start, FindFolder, MakeFolder, Refuse, UploadBody, ReportFails
<1>1. writer[w] \in WriterState /\ writer \in [Version -> WriterState] /\ Fit(w)
  BY DEF Typed, AllFit
<1>2. /\ writer'[w].manifest = writer[w].manifest /\ writer'[w].flight = writer[w].flight
      /\ writer'[w].replaced \in {writer[w].replaced, {}}
      /\ \A x \in Version \ {w} : writer'[x] = writer[x]
      /\ \/ /\ writer[w].stage \in Unhoused /\ writer'[w].stage \in Unhoused \ {"idle"}
            /\ writer'[w].folder = writer[w].folder
         \/ /\ writer[w].stage \in Unhoused /\ writer'[w].stage = "create"
            /\ FindFolder(w) \/ MakeFolder(w)
         \/ /\ writer[w].stage \in {"create", "report"} /\ writer'[w].stage = "over"
            /\ writer'[w].folder = writer[w].folder
         \/ /\ writer[w].stage = "upload" /\ writer'[w].stage \in {"report", "complete"}
            /\ writer'[w].folder = writer[w].folder
  <2>1. ASSUME NEW k \in Key, Start(w, k)  PROVE <1>2
    <3>1. writer' = [writer EXCEPT ![w] = [writer[w] EXCEPT !.stage = "find", !.key = k]]
      BY <1>1, <2>1 DEF Start
    <3>2. writer[w].stage \in Unhoused
      BY <2>1 DEF Start, Unhoused
    <3>. QED  BY <1>1, <3>1, <3>2 DEF WriterState, Unhoused
  <2>2. CASE FindFolder(w) \/ MakeFolder(w)
    <3>1. \/ Step(w, "mkdir")
          \/ \E f : writer' = [writer EXCEPT ![w].stage = "create", ![w].folder = f]
      BY <2>2 DEF FindFolder, MakeFolder, Step
    <3>2. writer[w].stage \in Unhoused
      BY <2>2 DEF FindFolder, MakeFolder, Unhoused
    <3>3. CASE Step(w, "mkdir")
      BY <3>2, <3>3, StepFields DEF Stages, Early, Unhoused
    <3>4. ASSUME NEW f, writer' = [writer EXCEPT ![w].stage = "create", ![w].folder = f]  PROVE <1>2
      <4>1. writer' = [writer EXCEPT ![w] = [writer[w] EXCEPT !.stage = "create", !.folder = f]]
        BY <1>1, <3>4
      <4>. QED  BY <1>1, <2>2, <3>2, <4>1 DEF WriterState, Unhoused
    <3>. QED  BY <3>1, <3>3, <3>4
  <2>3. CASE Refuse(w) \/ ReportFails(w)
    <3>1. End(w) /\ writer[w].stage \in {"create", "report"}
      BY <2>3, ToldEnds DEF Refuse, ReportFails
    <3>. QED  BY <3>1, EndFields
  <2>4. CASE UploadBody(w)
    <3>1. PICK s \in {"report", "complete"} : Step(w, s)
      BY <2>4 DEF UploadBody
    <3>2. s \in Stages
      BY DEF Stages, Ongoing
    <3>. QED  BY <2>4, <3>1, <3>2, StepFields DEF UploadBody
  <2>. QED  BY <2>1, <2>2, <2>3, <2>4
<1>3. StageFits(w)'
  BY <1>0, <1>1, <1>2 DEF Fit, StageFits, Early, Ongoing, Unhoused
<1>4. ChargeOf(w)'
  BY <1>0, <1>1 DEF Fit, ChargeOf
<1>5. PartsFit(w)'
  BY <1>0, <1>1, <1>2 DEF Fit, PartsFit, Early, Unhoused
<1>6. Moves(w)
  BY <1>0, <1>2 DEF Moves, Early, Unhoused
<1>7. \A v \in Version \ {w} : Calm(v)
  BY <1>0, <1>2 DEF Calm
<1>. QED  BY <1>3, <1>4, <1>5, <1>6, <1>7, OneFits DEF Fit

LEMMA StaleFits ==
  ASSUME Typed, NEW w \in Version
  PROVE  /\ Stale(w) \in SUBSET Version /\ w \notin Stale(w)
         /\ \A v \in Stale(w) : rows[v].status # "none"
         /\ Reclaimed(Stale(w)) = {v \in Stale(w) : rows[v].status = "complete"}
BY DEF Stale, Active, At, Exists, Reclaimed

LEMMA CreateFits ==
  ASSUME Typed, AllFit, NEW w \in Version, NEW path \in Path \cup {"multipart"}, Create(w, path)
  PROVE  AllFit' /\ \A v \in Version : Moves(v)
<1>. DEFINE st == IF path = "buffered" THEN "buffered" ELSE "uploading"
            n == IF path = "multipart" THEN 0 ELSE 1
            s == CASE path = "multipart" -> "parts"
                   [] path = "buffered" -> "replace"
                   [] OTHER -> "upload"
            r == NewRow(w, st, n)
            q == [writer[w] EXCEPT !.replaced = Stale(w), !.path = path, !.stage = s]
<1>1. /\ st \in Status /\ n \in Nat /\ s \in Stages /\ s \notin Early
      /\ s = "parts" => w \in Upload /\ st = "uploading"
      /\ s # "parts" => w \notin Upload
      /\ s = "replace" <=> st = "buffered"
      /\ st \in {"uploading", "buffered"} /\ s \in {"parts", "replace", "upload"}
  BY DEF Create, Status, Stages, Ongoing, Early
<1>2. /\ writer[w] \in WriterState /\ writer \in [Version -> WriterState] /\ Fit(w)
      /\ writer[w].stage = "create"
  BY DEF Typed, AllFit, Create
<1>3. rows' = [rows EXCEPT ![w] = r] /\ charge' = charge
  BY DEF Create
<1>4. writer' = [writer EXCEPT ![w] = q]
  <2>1. writer' = [writer EXCEPT ![w].replaced = Stale(w), ![w].path = path, ![w].stage = s]
    BY DEF Create
  <2>. HIDE DEF s
  <2>. QED  BY <1>2, <2>1
<1>. HIDE DEF st, n, s
<1>5. r \in RowState /\ r.status = st /\ r.folder = writer[w].folder
  BY <1>1, NewRowTyped
<1>6. /\ q \in WriterState /\ q.stage = s /\ q.replaced = Stale(w)
      /\ q.folder = writer[w].folder
  <2>1. Stale(w) \in SUBSET Version
    BY StaleFits
  <2>2. q \in WriterState
    BY <1>1, <1>2, <2>1, WriterTyped
  <2>3. q.stage = s /\ q.replaced = Stale(w) /\ q.folder = writer[w].folder
    BY <1>2 DEF WriterState
  <2>. QED  BY <2>2, <2>3
<1>. HIDE DEF r, q
<1>7. /\ rows'[w] = r /\ writer'[w] = q
      /\ \A x \in Version \ {w} : rows'[x] = rows[x] /\ writer'[x] = writer[x]
  BY <1>3, <1>4, <1>5, <1>6, RowKept, WriterKept
<1>8. StageFits(w)'
  BY <1>1, <1>5, <1>6, <1>7, StaleFits DEF StageFits, Ongoing
<1>9. ChargeOf(w)'
  BY <1>1, <1>2, <1>3, <1>5, <1>7 DEF ChargeOf, Fit, StageFits, Early
<1>10. PartsFit(w)'
  BY <1>1, <1>5, <1>6, <1>7 DEF PartsFit
<1>11. Moves(w)
  BY <1>1, <1>2, <1>5, <1>6, <1>7 DEF Moves, Fit, StageFits, Early, Unhoused
<1>12. \A v \in Version \ {w} : Calm(v)
  BY <1>3, <1>7 DEF Calm
<1>. QED  BY <1>8, <1>9, <1>10, <1>11, <1>12, OneFits DEF Fit

LEMMA PutFits ==
  ASSUME Typed, AllFit, NEW w \in Version,
         \/ CreateEmpty(w) \/ UploadFails(w) \/ Report(w) \/ CompleteDirect(w)
         \/ Replace(w) \/ StaleCleanup(w) \/ \E ok \in BOOLEAN : WorkOff(w, ok)
  PROVE  AllFit' /\ \A v \in Version : Moves(v)
<1>0. /\ writer[w] \in WriterState /\ rows[w] \in RowState /\ Fit(w)
      /\ charge[w] \in Int /\ rows[w].size \in Nat
  BY DEF Typed, AllFit, RowState
<1>1. CASE CreateEmpty(w)
  <2>. DEFINE r == NewRow(w, "complete", 0)
  <2>1. /\ r \in RowState /\ r.status = "complete" /\ r.size = 0
        /\ r.folder = writer[w].folder
    BY NewRowTyped DEF Status
  <2>2. rows' = Trash([rows EXCEPT ![w] = r], Stale(w))
    BY <1>1 DEF CreateEmpty
  <2>. HIDE DEF r
  <2>3. End(w) /\ writer[w].stage = "create" /\ w \notin Upload
    BY <1>1, ToldEnds, S3Assumption DEF CreateEmpty
  <2>4. /\ \A v \in Version \ {w} : charge'[v] = charge[v] \/ (v \in Stale(w) /\ rows[v].status = "complete")
        /\ charge'[w] = charge[w] + 0
    <3>1. ChargeAndReclaim(w, 0, Reclaimed(Stale(w))) /\ 0 \in Int
      BY <1>1 DEF CreateEmpty
    <3>2. w \notin Reclaimed(Stale(w))
      BY StaleFits
    <3>. QED  BY <3>1, <3>2, ReclaimTyped, StaleFits
  <2>5. rows'[w] = r /\ \A v \in Version \ {w} : Calm(v)
    BY <2>1, <2>2, <2>3, <2>4, TrashCalm, StaleFits, EndFields
  <2>6. Fit(w)'
    BY <1>0, <2>1, <2>3, <2>4, <2>5, EndFields
    DEF Fit, StageFits, ChargeOf, PartsFit, Early, Ongoing
  <2>7. Moves(w)
    BY <2>1, <2>3, <2>5, EndFields DEF Moves, Unhoused, Early
  <2>. QED  BY <2>5, <2>6, <2>7, OneFits
<1>2. CASE UploadFails(w)
  <2>1. End(w) /\ writer[w].stage = "upload" /\ charge' = charge
    BY <1>2, ToldEnds DEF UploadFails
  <2>2. /\ rows'[w] = rows[w] \/ rows'[w].status = "none"
        /\ \A v \in Version \ {w} : rows'[v] = rows[v]
    BY <1>2 DEF UploadFails, Typed, NoRow
  <2>3. Fit(w)'
    BY <1>0, <2>1, <2>2, EndFields DEF Fit, StageFits, ChargeOf, PartsFit, Early, Ongoing
  <2>4. Moves(w)
    BY <1>0, <2>1, <2>2, EndFields DEF Moves, Unhoused, Early, Fit, StageFits, Ongoing
  <2>5. \A v \in Version \ {w} : Calm(v)
    BY <2>1, <2>2, EndFields DEF Calm
  <2>. QED  BY <2>3, <2>4, <2>5, OneFits
<1>3. CASE Report(w)
  <2>. DEFINE r == [rows[w] EXCEPT !.status = "complete"]
  <2>1. /\ r \in RowState /\ r.status = "complete" /\ r.size = rows[w].size
        /\ r.folder = rows[w].folder /\ r.trashed = rows[w].trashed
    BY <1>0 DEF RowState, Status
  <2>2. rows' = Trash([rows EXCEPT ![w] = r], Stale(w))
    <3>1. rows' = Trash([rows EXCEPT ![w].status = "complete"], Stale(w))
      BY <1>3 DEF Report
    <3>. QED  BY <3>1, StatusKept DEF Status
  <2>. HIDE DEF r
  <2>3. End(w) /\ writer[w].stage = "report"
    BY <1>3, ToldEnds DEF Report
  <2>4. /\ \A v \in Version \ {w} : charge'[v] = charge[v] \/ (v \in Stale(w) /\ rows[v].status = "complete")
        /\ charge'[w] = charge[w] + rows[w].size
    <3>1. ChargeAndReclaim(w, rows[w].size, Reclaimed(Stale(w))) /\ rows[w].size \in Int
      BY <1>0, <1>3 DEF Report
    <3>2. w \notin Reclaimed(Stale(w))
      BY StaleFits
    <3>. QED  BY <3>1, <3>2, ReclaimTyped, StaleFits
  <2>5. rows'[w] = r /\ \A v \in Version \ {w} : Calm(v)
    BY <2>1, <2>2, <2>3, <2>4, TrashCalm, StaleFits, EndFields
  <2>6. charge[w] = 0 /\ w \notin Upload
    BY <1>0, <2>3 DEF Fit, StageFits, ChargeOf, Ongoing
  <2>7. Fit(w)'
    BY <1>0, <2>1, <2>3, <2>4, <2>5, <2>6, EndFields
    DEF Fit, StageFits, ChargeOf, PartsFit, Early, Ongoing
  <2>8. Moves(w)
    BY <2>1, <2>3, <2>5, EndFields, <1>0 DEF Moves, Unhoused, Early, Fit, StageFits, Ongoing
  <2>. QED  BY <2>5, <2>7, <2>8, OneFits
<1>4. CASE CompleteDirect(w)
  <2>1. /\ rows' = [rows EXCEPT ![w].status = "complete"] /\ "complete" \in Status
        /\ Step(w, "replace") /\ "replace" \in Stages /\ writer[w].stage = "complete"
        /\ Charge(w, rows[w].size) /\ rows[w].size \in Int
    BY <1>0, <1>4 DEF CompleteDirect, Status, Stages
  <2>2. /\ charge'[w] = charge[w] + rows[w].size /\ \A v \in Version \ {w} : charge'[v] = charge[v]
    BY <2>1, ChargeTyped
  <2>3. charge[w] = 0 /\ w \notin Upload
    BY <1>0, <2>1 DEF Fit, StageFits, ChargeOf, Ongoing
  <2>8. charge'[w] = rows[w].size
    BY <1>0, <2>2, <2>3
  <2>7. /\ rows'[w].status = "complete" /\ rows'[w].size = rows[w].size
        /\ writer'[w].stage = "replace" /\ writer'[w].replaced = writer[w].replaced
    BY <2>1, StatusStep, StepFields
  <2>4. Fit(w)'
    BY <1>0, <2>3, <2>7, <2>8 DEF Fit, StageFits, ChargeOf, PartsFit, Early, Ongoing
  <2>5. Moves(w)
    BY <1>0, <2>1, StatusStep, StepFields DEF Moves, Unhoused, Early, Fit, StageFits, Ongoing
  <2>6. \A v \in Version \ {w} : Calm(v)
    BY <2>1, <2>2, StatusStep, StepFields DEF Calm
  <2>. QED  BY <2>4, <2>5, <2>6, OneFits
<1>5. CASE Replace(w)
  <2>1. /\ End(w) /\ writer[w].stage = "replace" /\ w \notin writer[w].replaced /\ charge' = charge
        /\ rows' = Trash(rows, writer[w].replaced)
    BY <1>0, <1>5, ToldEnds DEF Replace, Fit, StageFits
  <2>2. rows = [rows EXCEPT ![w] = rows[w]]
    BY DEF Typed
  <2>3. rows'[w] = rows[w] /\ \A v \in Version \ {w} : Calm(v)
    BY <1>0, <2>1, <2>2, TrashCalm, EndFields
  <2>4. Fit(w)'
    BY <1>0, <2>1, <2>3, EndFields DEF Fit, StageFits, ChargeOf, PartsFit, Early, Ongoing
  <2>5. Moves(w)
    BY <2>1, <2>3, EndFields DEF Moves, Unhoused, Early
  <2>. QED  BY <2>3, <2>4, <2>5, OneFits
<1>6. CASE StaleCleanup(w)
  <2>1. /\ rows' = [rows EXCEPT ![w].status = "upload_timeout"] /\ "upload_timeout" \in Status
        /\ Charge(w, -rows[w].size) /\ -rows[w].size \in Int /\ writer' = writer
        /\ writer[w].stage \in Over /\ rows[w].status \in {"uploading", "buffered", "buffer_failed"}
    BY <1>0, <1>6 DEF StaleCleanup, Status
  <2>2. \A v \in Version \ {w} : charge'[v] = charge[v]
    BY <2>1, ChargeTyped
  <2>3. Fit(w)'
    BY <1>0, <2>1, StatusStep DEF Fit, StageFits, ChargeOf, PartsFit, Early, Ongoing, Over
  <2>4. Moves(w)
    BY <2>1, StatusStep DEF Moves, Unhoused, Over
  <2>5. \A v \in Version \ {w} : Calm(v)
    BY <2>1, <2>2, StatusStep DEF Calm
  <2>. QED  BY <2>3, <2>4, <2>5, OneFits
<1>7. ASSUME NEW ok \in BOOLEAN, WorkOff(w, ok)  PROVE AllFit' /\ \A v \in Version : Moves(v)
  <2>1. PICK s \in {"complete", "buffer_failed"}, n \in {0, rows[w].size} :
          /\ rows' = [rows EXCEPT ![w].status = s] /\ Charge(w, n)
          /\ s = "complete" => n = rows[w].size
          /\ s # "complete" => n = 0
    BY <1>7 DEF WorkOff
  <2>2. s \in Status /\ n \in Int /\ writer' = writer /\ rows[w].status = "buffered"
    BY <1>0, <1>7 DEF WorkOff, Status
  <2>3. charge'[w] = charge[w] + n /\ \A v \in Version \ {w} : charge'[v] = charge[v]
    BY <2>1, <2>2, ChargeTyped
  <2>4. charge[w] = 0 /\ w \notin Upload
    BY <1>0, <2>2 DEF Fit, StageFits, ChargeOf
  <2>9. charge'[w] = n
    BY <1>0, <2>2, <2>3, <2>4
  <2>10. rows'[w].status = s /\ rows'[w].size = rows[w].size
    BY <2>1, <2>2, StatusStep
  <2>8. /\ rows'[w].status = s
        /\ s = "complete" => charge'[w] = rows'[w].size
        /\ s # "complete" => charge'[w] = 0
    BY <2>1, <2>9, <2>10
  <2>5. Fit(w)'
    BY <1>0, <2>2, <2>4, <2>8 DEF Fit, StageFits, ChargeOf, PartsFit, Early, Ongoing
  <2>6. Moves(w)
    BY <2>1, <2>2, <1>0, StatusStep DEF Moves, Unhoused, Fit, StageFits, Ongoing
  <2>7. \A v \in Version \ {w} : Calm(v)
    BY <2>1, <2>2, <2>3, StatusStep DEF Calm
  <2>. QED  BY <2>5, <2>6, <2>7, OneFits
<1>. QED  BY <1>1, <1>2, <1>3, <1>4, <1>5, <1>6, <1>7

\* The steps of multipart uploads.
LEMMA UploadFits ==
  ASSUME Typed, AllFit, NEW u \in Upload,
         \/ \E n \in Part : SendPart(u, n) \/ StorePart(u, n)
         \/ AskComplete(u) \/ CompleteUpload(u) \/ Abort(u) \/ DropUpload(u)
  PROVE  AllFit' /\ \A v \in Version : Moves(v)
<1>0. /\ u \in Version /\ writer[u] \in WriterState /\ rows[u] \in RowState /\ Fit(u)
      /\ writer \in [Version -> WriterState] /\ rows \in [Version -> RowState]
      /\ writer[u].flight \in [Part -> Nat] /\ writer[u].manifest \in SUBSET Part
      /\ rows[u].parts \in SUBSET Part /\ charge[u] \in Int
  BY DEF Typed, AllFit, RowState, WriterState, Version
<1>1. ASSUME NEW n \in Part, SendPart(u, n)  PROVE AllFit' /\ \A v \in Version : Moves(v)
  <2>1. /\ rows' = rows /\ charge' = charge
        /\ writer[u].stage = "parts" /\ rows[u].status = "uploading"
    BY <1>1 DEF SendPart
  <2>2. /\ writer'[u].stage = "parts" /\ writer'[u].replaced = writer[u].replaced
        /\ writer'[u].folder = writer[u].folder
        /\ \A v \in Version \ {u} : writer'[v] = writer[v]
    <3>1. \/ writer' = [writer EXCEPT ![u] = [writer[u] EXCEPT !.acked = writer[u].acked \cup {n}]]
          \/ writer' = [writer EXCEPT ![u] = [writer[u] EXCEPT !.flight[n] = writer[u].flight[n] + 1]]
      BY <1>0, <1>1 DEF SendPart
    <3>. QED  BY <1>0, <2>1, <3>1 DEF WriterState
  <2>3. Fit(u)'
    BY <1>0, <2>1, <2>2 DEF Fit, StageFits, ChargeOf, PartsFit, Early, Ongoing
  <2>4. Moves(u)
    BY <2>1, <2>2 DEF Moves, Unhoused, Early
  <2>5. \A v \in Version \ {u} : Calm(v)
    BY <2>1, <2>2 DEF Calm
  <2>. QED  BY <1>0, <2>3, <2>4, <2>5, OneFits
<1>2. ASSUME NEW n \in Part, StorePart(u, n)  PROVE AllFit' /\ \A v \in Version : Moves(v)
  <2>1. PICK heard \in {TRUE, FALSE} :
           writer' = [writer EXCEPT ![u].flight[n] = @ - 1,
                                    ![u].acked = IF heard THEN @ \cup {n} ELSE @]
    BY <1>2 DEF StorePart, Exists
  <2>. DEFINE ps == IF heard THEN writer[u].acked \cup {n} ELSE writer[u].acked
              q == [writer[u] EXCEPT !.flight[n] = writer[u].flight[n] - 1, !.acked = ps]
  <2>2. writer' = [writer EXCEPT ![u] = q]
    BY <1>0, <2>1
  <2>3. /\ q.stage = writer[u].stage /\ q.replaced = writer[u].replaced /\ q.manifest = writer[u].manifest
        /\ q.folder = writer[u].folder
        /\ \A m \in Part \ {n} : q.flight[m] = writer[u].flight[m]
    BY <1>0 DEF WriterState
  <2>. HIDE DEF q
  <2>4. writer'[u] = q /\ \A v \in Version \ {u} : writer'[v] = writer[v]
    BY <1>0, <2>2
  <2>5. /\ rows'[u].status = rows[u].status /\ rows'[u].trashed = rows[u].trashed
        /\ rows'[u].size = rows[u].size /\ rows'[u].folder = rows[u].folder
        /\ rows'[u].parts \in {rows[u].parts, rows[u].parts \cup {n}}
        /\ \A v \in Version \ {u} : rows'[v] = rows[v]
    <3>1. CASE Exists(u)
      <4>1. rows' = [rows EXCEPT ![u] = [rows[u] EXCEPT !.parts = rows[u].parts \cup {n}]]
        BY <1>0, <1>2, <3>1 DEF StorePart
      <4>. QED  BY <1>0, <4>1 DEF RowState
    <3>2. CASE ~Exists(u)
      BY <1>2, <3>2 DEF StorePart
    <3>. QED  BY <3>1, <3>2
  <2>6. charge' = charge /\ writer[u].flight[n] > 0
    BY <1>2 DEF StorePart
  <2>7. StageFits(u)' /\ ChargeOf(u)'
    BY <1>0, <2>3, <2>4, <2>5, <2>6 DEF Fit, StageFits, ChargeOf
  <2>8. PartsFit(u)'
    <3>1. SUFFICES ASSUME writer[u].stage = "completing" \/ rows[u].status = "complete"
                   PROVE  /\ rows'[u].parts = writer[u].manifest
                          /\ \A m \in Part \ writer[u].manifest : writer'[u].flight[m] = 0
      BY <2>3, <2>4, <2>5 DEF PartsFit
    <3>2. /\ rows[u].parts = writer[u].manifest
          /\ \A m \in Part \ writer[u].manifest : writer[u].flight[m] = 0
      BY <1>0, <3>1 DEF Fit, PartsFit
    <3>3. n \in writer[u].manifest
      BY <1>0, <2>6, <3>2
    <3>. QED  BY <2>3, <2>4, <2>5, <3>2, <3>3
  <2>9. Moves(u)
    BY <2>3, <2>4, <2>5 DEF Moves, Unhoused
  <2>10. \A v \in Version \ {u} : Calm(v)
    BY <2>4, <2>5, <2>6 DEF Calm
  <2>. QED  BY <1>0, <2>7, <2>8, <2>9, <2>10, OneFits DEF Fit
<1>3. CASE AskComplete(u)
  <2>1. rows' = rows /\ charge' = charge /\ writer[u].stage \in {"parts", "retry"}
    BY <1>3 DEF AskComplete
  <2>2. PICK manifest \in SUBSET writer[u].acked :
          /\ \A n \in Part \ manifest : writer[u].flight[n] = 0
          /\ \/ End(u)
             \/ /\ ManifestOK(u, manifest) /\ Exists(u) /\ rows[u].status # "complete"
                /\ writer' = [writer EXCEPT ![u].stage = "completing", ![u].manifest = manifest,
                                            ![u].replaced = Stale(u)]
    BY <1>3 DEF AskComplete, Failed, Acked
  <2>3. CASE End(u)
    <3>1. Fit(u)'
      BY <1>0, <2>1, <2>3, EndFields DEF Fit, StageFits, ChargeOf, PartsFit, Early, Ongoing
    <3>2. Moves(u)
      BY <1>0, <2>1, <2>3, EndFields DEF Moves, Unhoused, Early
    <3>3. \A v \in Version \ {u} : Calm(v)
      BY <1>0, <2>1, <2>3, EndFields DEF Calm
    <3>. QED  BY <1>0, <3>1, <3>2, <3>3, OneFits
  <2>4. CASE ~End(u)
    <3>1. writer' = [writer EXCEPT ![u] = [writer[u] EXCEPT !.stage = "completing", !.manifest = manifest,
                                                            !.replaced = Stale(u)]]
      BY <1>0, <2>2, <2>4
    <3>2. /\ writer'[u].stage = "completing" /\ writer'[u].manifest = manifest
          /\ writer'[u].replaced = Stale(u) /\ writer'[u].flight = writer[u].flight
          /\ writer'[u].folder = writer[u].folder
          /\ \A v \in Version \ {u} : writer'[v] = writer[v]
      BY <1>0, <3>1 DEF WriterState
    <3>3. rows[u].status = "uploading" /\ rows[u].parts = manifest
      BY <1>0, <2>1, <2>2, <2>4 DEF Fit, StageFits, Ongoing, ManifestOK, Exists
    <3>4. Fit(u)'
      BY <1>0, <2>1, <2>2, <3>2, <3>3, StaleFits
      DEF Fit, StageFits, ChargeOf, PartsFit, Early, Ongoing
    <3>5. Moves(u)
      BY <2>1, <3>2 DEF Moves, Unhoused, Early
    <3>6. \A v \in Version \ {u} : Calm(v)
      BY <2>1, <3>2 DEF Calm
    <3>. QED  BY <1>0, <3>4, <3>5, <3>6, OneFits
  <2>. QED  BY <2>3, <2>4
<1>4. CASE CompleteUpload(u)
  <2>. DEFINE n == Cardinality(writer[u].manifest)
              r == [rows[u] EXCEPT !.status = "complete", !.size = n]
  <2>1. n \in Nat /\ n \in Int
    BY <1>0, SizeTyped
  <2>2. /\ writer[u].stage = "completing" /\ Charge(u, n)
        /\ rows' = Trash([rows EXCEPT ![u].status = "complete", ![u].size = n], writer[u].replaced)
        /\ End(u) \/ (Step(u, "retry") /\ "retry" \in Stages)
    BY <1>4 DEF CompleteUpload, Acked, Stages
  <2>. HIDE DEF n
  <2>3. rows' = Trash([rows EXCEPT ![u] = r], writer[u].replaced)
    <3>1. [rows EXCEPT ![u].status = "complete", ![u].size = n] = [rows EXCEPT ![u] = r]
      BY <1>0
    <3>. QED  BY <2>2, <3>1
  <2>4. /\ r \in RowState /\ r.status = "complete" /\ r.size = n /\ r.parts = rows[u].parts
        /\ r.folder = rows[u].folder /\ r.trashed = rows[u].trashed
    BY <1>0, <2>1 DEF RowState, Status
  <2>. HIDE DEF r
  <2>5. charge'[u] = n /\ \A v \in Version \ {u} : charge'[v] = charge[v]
    BY <1>0, <2>1, <2>2, ChargeTyped DEF Fit, StageFits, ChargeOf, Ongoing
  <2>6. /\ writer'[u].stage \in {"over", "retry"} /\ writer'[u].replaced \in {{}, writer[u].replaced}
        /\ writer'[u].manifest = writer[u].manifest /\ writer'[u].flight = writer[u].flight
        /\ writer'[u].folder = writer[u].folder
        /\ \A v \in Version \ {u} : writer'[v] = writer[v]
    BY <1>0, <2>2, EndFields, StepFields
  <2>7. u \notin writer[u].replaced
    BY <1>0 DEF Fit, StageFits
  <2>8. rows'[u] = r /\ \A v \in Version \ {u} : Calm(v)
    BY <1>0, <2>3, <2>4, <2>5, <2>6, <2>7, TrashCalm
  <2>9. Fit(u)'
    BY <1>0, <2>2, <2>4, <2>5, <2>6, <2>7, <2>8
    DEF Fit, StageFits, ChargeOf, PartsFit, Early, Ongoing
  <2>10. Moves(u)
    BY <1>0, <2>2, <2>4, <2>6, <2>8 DEF Moves, Unhoused, Early, Fit, StageFits, Ongoing
  <2>. QED  BY <1>0, <2>8, <2>9, <2>10, OneFits
<1>5. CASE Abort(u)
  <2>1. /\ Step(u, "aborting") /\ "aborting" \in Stages /\ rows' = rows /\ charge' = charge
        /\ writer[u].stage = "parts" /\ rows[u].status = "uploading"
    BY <1>5 DEF Abort, Stages, Ongoing
  <2>2. Fit(u)'
    BY <1>0, <2>1, StepFields DEF Fit, StageFits, ChargeOf, PartsFit, Early, Ongoing
  <2>3. Moves(u)
    BY <1>0, <2>1, StepFields DEF Moves, Unhoused, Early
  <2>4. \A v \in Version \ {u} : Calm(v)
    BY <1>0, <2>1, StepFields DEF Calm
  <2>. QED  BY <1>0, <2>2, <2>3, <2>4, OneFits
<1>6. CASE DropUpload(u)
  <2>1. /\ End(u) /\ writer[u].stage = "aborting" /\ charge' = charge
        /\ rows'[u].status = "none" /\ \A v \in Version \ {u} : rows'[v] = rows[v]
    BY <1>0, <1>6, ToldEnds DEF DropUpload, NoRow
  <2>2. Fit(u)'
    BY <1>0, <2>1, EndFields DEF Fit, StageFits, ChargeOf, PartsFit, Early, Ongoing
  <2>3. Moves(u)
    BY <1>0, <2>1, EndFields DEF Moves, Unhoused, Early, Fit, StageFits, Ongoing
  <2>4. \A v \in Version \ {u} : Calm(v)
    BY <1>0, <2>1, EndFields DEF Calm
  <2>. QED  BY <1>0, <2>2, <2>3, <2>4, OneFits
<1>. QED  BY <1>1, <1>2, <1>3, <1>4, <1>5, <1>6

-----------------------------------------------------------------------------
(* Deletes, and the messages that they and the aborts remove.               *)

Aims(d) ==
  deleter[d].stage \in {"purge", "delete"} =>
    LET v == deleter[d].target
    IN  v \in Version /\ writer[v].stage \notin Early /\ rows[v].status \in {"complete", "none"}
AllAim == \A d \in Deleter : Aims(d)

Purged(v) == \E n \in Part \cup {0} : <<v, n>> \in gone

PurgeFits(v) ==
  Purged(v) =>
    /\ writer[v].stage \notin Early
    /\ \/ rows[v].status = "none"
       \/ writer[v].stage = "aborting"
       \/ \E d \in Deleter : deleter[d].stage = "delete" /\ deleter[d].target = v
GoneFits == \A v \in Version : PurgeFits(v)

Inv == Typed /\ AllFit /\ AllAim /\ GoneFits

\* The requests that write leave the deletes alone, and no message goes.
LEMMA WriterGone ==
  ASSUME AllAim, GoneFits, \A v \in Version : Moves(v), deleter' = deleter, gone' = gone
  PROVE  AllAim' /\ GoneFits'
<1>1. ASSUME NEW d \in Deleter  PROVE Aims(d)'
  BY DEF AllAim, Aims, Moves
<1>2. ASSUME NEW v \in Version  PROVE PurgeFits(v)'
  <2>1. PurgeFits(v) /\ Moves(v)
    BY DEF GoneFits
  <2>2. Purged(v)' = Purged(v)
    BY DEF Purged
  <2>3. CASE Purged(v) /\ writer[v].stage = "aborting"
    BY <2>1, <2>3 DEF PurgeFits, Moves
  <2>4. CASE Purged(v) /\ rows[v].status = "none"
    BY <2>1, <2>4 DEF PurgeFits, Moves
  <2>5. ASSUME NEW d \in Deleter, Purged(v), deleter[d].stage = "delete", deleter[d].target = v
        PROVE  PurgeFits(v)'
    BY <2>1, <2>5 DEF PurgeFits, Moves
  <2>. QED  BY <2>1, <2>2, <2>3, <2>4, <2>5 DEF PurgeFits
<1>. QED  BY <1>1, <1>2 DEF AllAim, GoneFits

LEMMA WriterFits ==
  ASSUME Inv, NEW w \in Version,
         \/ \E k \in Key : Start(w, k)
         \/ FindFolder(w) \/ MakeFolder(w) \/ Refuse(w) \/ CreateEmpty(w)
         \/ \E path \in Path \cup {"multipart"} : Create(w, path)
         \/ UploadBody(w) \/ UploadFails(w) \/ Report(w) \/ ReportFails(w)
         \/ CompleteDirect(w) \/ Replace(w) \/ StaleCleanup(w)
         \/ \E ok \in BOOLEAN : WorkOff(w, ok)
  PROVE  AllFit' /\ AllAim' /\ GoneFits'
<1>1. AllFit' /\ \A v \in Version : Moves(v)
  BY EarlyFits, CreateFits, PutFits DEF Inv
<1>2. deleter' = deleter /\ gone' = gone
  BY DEF Start, FindFolder, MakeFolder, Refuse, CreateEmpty, Create, UploadBody, UploadFails,
     Report, ReportFails, CompleteDirect, Replace, StaleCleanup, WorkOff
<1>. QED  BY <1>1, <1>2, WriterGone DEF Inv

LEMMA MultipartFits ==
  ASSUME Inv, NEW u \in Upload,
         \/ \E n \in Part : SendPart(u, n) \/ StorePart(u, n)
         \/ AskComplete(u) \/ CompleteUpload(u) \/ Abort(u) \/ DropUpload(u)
  PROVE  AllFit' /\ AllAim' /\ GoneFits'
<1>1. AllFit' /\ \A v \in Version : Moves(v)
  BY UploadFits DEF Inv
<1>2. deleter' = deleter
  BY DEF SendPart, StorePart, AskComplete, CompleteUpload, Abort, DropUpload
<1>3. CASE gone' = gone
  BY <1>1, <1>2, <1>3, WriterGone DEF Inv
<1>4. CASE Abort(u)
  <2>1. /\ Step(u, "aborting") /\ "aborting" \in Stages /\ rows' = rows /\ u \in Version
        /\ gone' = gone \cup Messages(u)
    BY <1>4 DEF Abort, Stages, Ongoing, Version
  <2>2. ASSUME NEW d \in Deleter  PROVE Aims(d)'
    BY <1>1, <1>2 DEF Inv, AllAim, Aims, Moves
  <2>3. ASSUME NEW v \in Version  PROVE PurgeFits(v)'
    <3>1. CASE v = u
      BY <2>1, <3>1, StepFields DEF PurgeFits, Early, Inv
    <3>2. CASE v # u
      <4>1. Purged(v)' = Purged(v)
        BY <2>1, <3>2 DEF Purged, Messages
      <4>. QED  BY <1>2, <2>1, <3>2, <4>1, StepFields, ZenonT(30) DEF PurgeFits, Inv, GoneFits
    <3>. QED  BY <3>1, <3>2
  <2>. QED  BY <1>1, <2>2, <2>3 DEF AllAim, GoneFits
<1>. QED
  BY <1>3, <1>4 DEF SendPart, StorePart, AskComplete, CompleteUpload, DropUpload

LEMMA DeleterFits ==
  ASSUME Inv, NEW d \in Deleter,
         \/ \E k \in Key : FindObject(d, k)
         \/ Purge(d) \/ HardDelete(d) \/ LookEmpty(d) \/ RemoveFolder(d)
  PROVE  AllFit' /\ AllAim' /\ GoneFits'
<1>0. /\ writer' = writer
      /\ deleter \in [Deleter -> DeleterState] /\ deleter[d] \in DeleterState
      /\ rows \in [Version -> RowState] /\ writer \in [Version -> WriterState]
  BY DEF FindObject, Purge, HardDelete, LookEmpty, RemoveFolder, Inv, Typed
<1>. DEFINE v == deleter[d].target
<1>1. /\ \A x \in Deleter \ {d} : deleter'[x] = deleter[x]
      /\ deleter'[d].stage = "delete" => Purge(d) /\ deleter'[d].target = v
      /\ deleter'[d].stage = "purge" =>
           /\ deleter'[d].target \in Version
           /\ rows[deleter'[d].target].status = "complete"
  <2>1. ASSUME NEW k \in Key, FindObject(d, k)  PROVE <1>1
    <3>1. CASE Visible(k) = {}
      <4>1. deleter' = [deleter EXCEPT ![d].stage = "over"]
        BY <2>1, <3>1 DEF FindObject
      <4>. QED  BY <1>0, <4>1 DEF DeleterState
    <3>2. CASE Visible(k) # {}
      <4>1. PICK x \in Visible(k) :
              deleter' = [deleter EXCEPT ![d] = [stage |-> "purge", key |-> k, target |-> x,
                                                 folder |-> rows[x].folder]]
        BY <2>1, <3>2 DEF FindObject
      <4>2. x \in Version /\ rows[x].status = "complete"
        BY <4>1 DEF Visible, Active, At
      <4>. QED  BY <1>0, <4>1, <4>2
    <3>. QED  BY <3>1, <3>2
  <2>2. CASE Purge(d)
    <3>1. \/ deleter' = [deleter EXCEPT ![d].stage = "delete"]
          \/ deleter' = [deleter EXCEPT ![d].stage = "cleanup"]
      BY <2>2 DEF Purge
    <3>. QED  BY <1>0, <2>2, <3>1 DEF DeleterState
  <2>3. CASE HardDelete(d) \/ LookEmpty(d) \/ RemoveFolder(d)
    <3>1. \E s \in {"cleanup", "rmdir", "over"} : deleter' = [deleter EXCEPT ![d].stage = s]
      BY <2>3 DEF HardDelete, LookEmpty, RemoveFolder, Answered
    <3>. QED  BY <1>0, <3>1 DEF DeleterState
  <2>. QED  BY <2>1, <2>2, <2>3
<1>2. CASE rows' = rows /\ charge' = charge /\ (gone' = gone \/ Purge(d))
  <2>1. AllFit'
    BY <1>0, <1>2, CalmFits DEF Inv, AllFit, Calm
  <2>2. ASSUME NEW x \in Deleter  PROVE Aims(x)'
    <3>1. CASE x # d
      BY <1>0, <1>1, <1>2, <3>1 DEF Inv, AllAim, Aims
    <3>2. CASE x = d /\ deleter'[d].stage = "delete"
      <4>1. deleter[d].stage = "purge"
        BY <1>1, <3>2 DEF Purge
      <4>. QED  BY <1>0, <1>1, <1>2, <3>2, <4>1 DEF Inv, AllAim, Aims
    <3>3. CASE x = d /\ deleter'[d].stage = "purge"
      <4>1. rows[deleter'[d].target].status = "complete" /\ deleter'[d].target \in Version
        BY <1>1, <3>3
      <4>2. writer[deleter'[d].target].stage \notin Early
        BY <4>1 DEF Inv, AllFit, Fit, StageFits
      <4>. QED  BY <1>0, <1>2, <3>3, <4>1, <4>2 DEF Aims
    <3>. QED  BY <3>1, <3>2, <3>3 DEF Aims
  <2>3. ASSUME NEW x \in Version  PROVE PurgeFits(x)'
    <3>1. CASE Purge(d) /\ x = v /\ deleter'[d].stage = "delete"
      <4>1. deleter[d].stage = "purge" /\ deleter'[d].target = x
        BY <1>1, <3>1 DEF Purge
      <4>. QED  BY <1>0, <3>1, <4>1 DEF PurgeFits, Inv, AllAim, Aims
    <3>2. CASE ~(Purge(d) /\ x = v /\ deleter'[d].stage = "delete")
      <4>1. Purged(x)' = Purged(x)
        <5>1. CASE gone' = gone
          BY <5>1 DEF Purged
        <5>2. CASE Purge(d) /\ gone' # gone
          <6>1. gone' = gone \cup Messages(v) /\ deleter' = [deleter EXCEPT ![d].stage = "delete"]
            BY <5>2 DEF Purge
          <6>2. x # v
            BY <1>0, <3>2, <5>2, <6>1 DEF DeleterState
          <6>. QED  BY <6>1, <6>2 DEF Purged, Messages
        <5>. QED  BY <1>2, <5>1, <5>2
      <4>2. \A y \in Deleter : deleter[y].stage = "delete" /\ deleter[y].target = x
                               => deleter'[y].stage = "delete" /\ deleter'[y].target = x
        <5>1. deleter[d].stage = "delete" => HardDelete(d)
          BY DEF FindObject, Purge, LookEmpty, RemoveFolder
        <5>2. ~HardDelete(d)
          <6>1. CASE HardDelete(d)
            <7>1. v \in Version /\ rows'[v].status = "none" /\ rows[v].status # "none"
              BY <1>0, <6>1 DEF HardDelete, Exists, Inv, AllAim, Aims, NoRow
            <7>. QED  BY <1>2, <7>1
          <6>. QED  BY <6>1
        <5>. QED  BY <1>1, <5>1, <5>2
      <4>. QED  BY <1>0, <1>2, <4>1, <4>2 DEF PurgeFits, Inv, GoneFits
    <3>. QED  BY <3>1, <3>2
  <2>. QED  BY <2>1, <2>2, <2>3 DEF AllAim, GoneFits
<1>3. CASE HardDelete(d)
  <2>1. PICK t \in Version :
          /\ t = deleter[d].target /\ writer[t].stage \notin Early /\ rows[t].status = "complete"
          /\ rows'[t].status = "none" /\ gone' = gone
          /\ \A x \in Version \ {t} : rows'[x] = rows[x]
          /\ Charge(t, -rows[t].size) /\ -rows[t].size \in Int
    BY <1>0, <1>3 DEF HardDelete, Exists, Inv, AllAim, Aims, NoRow, RowState
  <2>2. \A x \in Version \ {t} : charge'[x] = charge[x]
    BY <2>1, ChargeTyped DEF Inv
  <2>3. Fit(t)
    BY <2>1 DEF Inv, AllFit
  <2>4. Fit(t)'
    BY <1>0, <2>1, <2>3 DEF Fit, StageFits, ChargeOf, PartsFit, Ongoing
  <2>5. Moves(t)
    BY <1>0, <2>1 DEF Moves
  <2>6. \A x \in Version \ {t} : Calm(x)
    BY <1>0, <2>1, <2>2 DEF Calm
  <2>7. AllFit' /\ \A x \in Version : Moves(x)
    BY <2>1, <2>4, <2>5, <2>6, OneFits DEF Inv
  <2>8. deleter'[d].stage = "cleanup"
    BY <1>0, <1>3 DEF HardDelete, DeleterState
  <2>9. ASSUME NEW x \in Deleter  PROVE Aims(x)'
    BY <1>0, <1>1, <2>7, <2>8 DEF Inv, AllAim, Aims, Moves
  <2>10. ASSUME NEW x \in Version  PROVE PurgeFits(x)'
    <3>1. Purged(x)' = Purged(x) /\ PurgeFits(x) /\ Moves(x)
      BY <2>1, <2>7 DEF Purged, Inv, GoneFits
    <3>2. CASE x = t
      BY <1>0, <2>1, <3>2 DEF PurgeFits
    <3>3. CASE x # t
      BY <1>0, <1>1, <2>1, <3>1, <3>3 DEF PurgeFits
    <3>. QED  BY <3>2, <3>3
  <2>. QED  BY <2>7, <2>9, <2>10 DEF AllAim, GoneFits
<1>. QED
  BY <1>2, <1>3 DEF FindObject, Purge, LookEmpty, RemoveFolder

LEMMA InitFits == Init => Inv
<1>. SUFFICES ASSUME Init  PROVE Inv
  OBVIOUS
<1>1. \A v \in Version : /\ rows[v] = NoRow /\ charge[v] = 0 /\ writer[v].stage = "idle"
                         /\ writer[v].replaced = {}
  BY DEF Init
<1>2. AllFit
  BY <1>1 DEF AllFit, Fit, StageFits, ChargeOf, PartsFit, NoRow, Early, Ongoing
<1>3. AllAim /\ GoneFits
  BY DEF Init, AllAim, Aims, GoneFits, PurgeFits, Purged
<1>. QED  BY <1>2, <1>3, InitTyped DEF Inv

LEMMA NextFits == Inv /\ [Next]_vars => Inv'
<1>. SUFFICES ASSUME Inv, [Next]_vars  PROVE Inv'
  OBVIOUS
<1>1. Typed'
  BY NextTyped DEF Inv
<1>2. CASE Next
  BY <1>1, <1>2, WriterFits, MultipartFits, DeleterFits DEF Next, Inv
<1>3. CASE UNCHANGED vars
  <2>1. AllFit'
    BY <1>3 DEF vars, Inv, AllFit, Fit, StageFits, ChargeOf, PartsFit
  <2>2. AllAim' /\ GoneFits'
    BY <1>3 DEF vars, Inv, AllAim, Aims, GoneFits, PurgeFits, Purged
  <2>. QED  BY <1>1, <2>1, <2>2 DEF Inv
<1>. QED  BY <1>2, <1>3

LEMMA Invariant == Spec => []Inv
<1>. QED  BY InitFits, NextFits, PTL DEF Spec

\* What can be read is charged exactly once, and an upload that is not complete is
\* never charged nor released, in any interleaving of puts, multipart uploads,
\* repeated completions, deletes and cleanups, whatever fails.
THEOREM ChargedExactly == Spec => []ChargeFits
<1>1. Inv => ChargeFits
  BY DEF Inv, AllFit, Fit, ChargeOf, ChargeFits
<1>. QED  BY <1>1, Invariant, PTL

\* A complete multipart object has the parts its client declared, and what can be
\* read has its messages, except while the delete of that very version runs.
THEOREM ReadableIsWhole == Spec => []Whole
<1>1. ASSUME Inv  PROVE Whole
  <2>1. ASSUME NEW u \in Upload, rows[u].status = "complete"  PROVE rows[u].parts = writer[u].manifest
    BY <1>1, <2>1 DEF Inv, AllFit, Fit, PartsFit, Version
  <2>2. ASSUME NEW k \in Key, NEW v \in Visible(k), Messages(v) \cap gone # {}
        PROVE  \E d \in Deleter : deleter[d].stage = "delete" /\ deleter[d].target = v
    <3>1. v \in Version /\ rows[v].status = "complete"
      BY DEF Visible, Active, At
    <3>2. rows[v].parts \in SUBSET Part
      BY <1>1, <3>1 DEF Inv, Typed, RowState
    <3>3. Purged(v)
      BY <2>2, <3>2 DEF Purged, Messages
    <3>4. PurgeFits(v) /\ StageFits(v)
      BY <1>1, <3>1 DEF Inv, GoneFits, AllFit, Fit
    <3>. QED  BY <3>1, <3>3, <3>4 DEF PurgeFits, StageFits, Ongoing
  <2>. QED  BY <2>1, <2>2 DEF Whole
<1>. QED  BY <1>1, Invariant, PTL

-----------------------------------------------------------------------------
(* What takes a version out of sight, when a folder that a delete is about  *)
(* to remove is not found by a put.                                         *)

Orderly == "rmdirRace" \notin Faults

HasFolder(d) ==
  deleter[d].stage \notin {"idle", "over"} =>
    deleter[d].folder \in DOMAIN folders /\ folders[deleter[d].folder] # "none"

Emptied(d) ==
  deleter[d].stage = "rmdir" => IsEmpty(deleter[d].folder) /\ Holding(deleter[d].folder) = {}

Vacated ==
  /\ \A v \in Version : writer[v].stage \in Unhoused => writer[v].folder = 0
  /\ \A d \in Deleter : HasFolder(d) /\ Emptied(d)

OldInv == Orderly /\ Inv /\ Vacated

LEMMA HouseKept ==
  ASSUME OldInv, \A v \in Version : Moves(v)
  PROVE  \A v \in Version : writer'[v].stage \in Unhoused => writer'[v].folder = 0
BY DEF OldInv, Vacated, Moves

LEMMA FoldersKept ==
  ASSUME OldInv, DOMAIN folders' = DOMAIN folders,
         \A f \in DOMAIN folders : folders[f] # "none" => folders'[f] # "none",
         NEW d \in Deleter, deleter'[d] = deleter[d]
  PROVE  HasFolder(d)'
BY DEF OldInv, Vacated, HasFolder

\* A folder that was empty and that nobody held stays so.
LEMMA EmptyKept ==
  ASSUME OldInv, \A v \in Version : Moves(v), NEW f \in Nat \ {0},
         IsEmpty(f), Holding(f) = {},
         \A v \in Version : writer'[v].folder = writer[v].folder \/ writer'[v].folder # f
  PROVE  IsEmpty(f)' /\ Holding(f)' = {}
<1>1. \A v \in Version : writer[v].folder = f => writer[v].stage = "over"
  BY DEF OldInv, Vacated, Unhoused, Holding, Over
<1>2. ASSUME NEW v \in Version, rows'[v].status # "none", rows'[v].folder = f  PROVE rows'[v].trashed
  <2>1. Moves(v)
    OBVIOUS
  <2>2. CASE writer[v].stage = "create" /\ rows'[v].folder = writer[v].folder
    BY <1>1, <1>2, <2>2
  <2>3. CASE rows[v].status # "none" /\ rows'[v].folder = rows[v].folder
             /\ (rows[v].trashed => rows'[v].trashed)
    BY <1>2, <2>3 DEF IsEmpty, Exists
  <2>. QED  BY <1>2, <2>1, <2>2, <2>3 DEF Moves
<1>3. ASSUME NEW v \in Version, writer'[v].folder = f  PROVE writer'[v].stage = "over"
  BY <1>1, <1>3 DEF Moves
<1>. QED  BY <1>2, <1>3 DEF IsEmpty, Exists, Holding, Over

LEMMA VacatedInit == Init => Vacated
BY DEF Init, Vacated, Unhoused, HasFolder, Emptied

LEMMA EmptiedKept ==
  ASSUME OldInv, \A v \in Version : Moves(v), deleter' = deleter,
         DOMAIN folders' = DOMAIN folders,
         \A f \in DOMAIN folders : folders[f] # "none" => folders'[f] # "none",
         \/ \A d \in Deleter : deleter[d].stage # "rmdir"
         \/ \A v \in Version : \/ writer'[v].folder = writer[v].folder
                               \/ writer'[v].folder \in DOMAIN folders
                                  /\ folders[writer'[v].folder] = "none"
  PROVE  Vacated'
<1>1. ASSUME NEW d \in Deleter  PROVE Emptied(d)'
  <2>. DEFINE f == deleter[d].folder
  <2>1. CASE deleter[d].stage # "rmdir"
    BY <2>1 DEF Emptied
  <2>2. CASE deleter[d].stage = "rmdir"
    <3>1. IsEmpty(f) /\ Holding(f) = {} /\ f \in DOMAIN folders /\ folders[f] # "none"
      BY <2>2 DEF OldInv, Vacated, Emptied, HasFolder
    <3>2. f \in Nat \ {0}
      BY <3>1, S3Assumption DEF OldInv, Inv, Typed
    <3>3. \A v \in Version : writer'[v].folder = writer[v].folder \/ writer'[v].folder # f
      BY <2>2, <3>1
    <3>4. PICK g \in Nat \ {0} : g = f
      BY <3>2
    <3>5. IsEmpty(g)' /\ Holding(g)' = {}
      BY <3>1, <3>3, <3>4, EmptyKept
    <3>6. deleter'[d].folder = g
      BY <3>4
    <3>. QED  BY <3>5, <3>6 DEF Emptied, IsEmpty, Holding
  <2>. QED  BY <2>1, <2>2
<1>. QED  BY <1>1, HouseKept, FoldersKept DEF Vacated

LEMMA FolderSteps ==
  ASSUME OldInv, NEW w \in Version, FindFolder(w) \/ MakeFolder(w)
  PROVE  Vacated'
<1>1. /\ \A v \in Version : Moves(v)
      /\ deleter' = deleter
      /\ MakeFolder(w) \/ folders' = folders
  BY EarlyFits DEF OldInv, Inv, FindFolder, MakeFolder
<1>2. CASE FindFolder(w)
  <2>1. folders' = folders /\ \A d \in Deleter : deleter[d].stage # "rmdir"
    BY <1>2 DEF FindFolder, OldInv, Orderly
  <2>. QED  BY <1>1, <2>1, EmptiedKept
<1>3. CASE MakeFolder(w)
  <2>1. PICK f \in DOMAIN folders :
           /\ folders[f] = "none" /\ folders' = [folders EXCEPT ![f] = "active"]
           /\ writer' = [writer EXCEPT ![w].stage = "create", ![w].folder = f]
    BY <1>3 DEF MakeFolder
  <2>2. /\ DOMAIN folders' = DOMAIN folders
        /\ \A g \in DOMAIN folders : folders[g] # "none" => folders'[g] # "none"
    BY <2>1 DEF OldInv, Inv, Typed
  <2>3. writer' = [writer EXCEPT ![w] = [writer[w] EXCEPT !.stage = "create", !.folder = f]]
    BY <2>1 DEF OldInv, Inv, Typed
  <2>4. writer'[w].folder = f /\ \A v \in Version \ {w} : writer'[v] = writer[v]
    BY <2>3 DEF OldInv, Inv, Typed, WriterState
  <2>. QED  BY <1>1, <2>1, <2>2, <2>4, EmptiedKept
<1>. QED  BY <1>2, <1>3

LEMMA WriterVacates ==
  ASSUME OldInv, \A v \in Version : Moves(v), deleter' = deleter,
         folders' = folders \/ \E v \in Version : MakeFolder(v)
  PROVE  Vacated'
<1>1. CASE \E v \in Version : FindFolder(v) \/ MakeFolder(v)
  BY <1>1, FolderSteps
<1>2. CASE ~\E v \in Version : FindFolder(v) \/ MakeFolder(v)
  <2>1. \A v \in Version : writer'[v].folder = writer[v].folder
    BY <1>2 DEF Moves
  <2>2. folders' = folders
    BY <1>2
  <2>. QED  BY <2>1, <2>2, EmptiedKept
<1>. QED  BY <1>1, <1>2

\* The steps of the deletes.
LEMMA DeleterVacates ==
  ASSUME OldInv, NEW d \in Deleter,
         \/ \E k \in Key : FindObject(d, k)
         \/ Purge(d) \/ HardDelete(d) \/ LookEmpty(d) \/ RemoveFolder(d)
  PROVE  Vacated'
<1>0. /\ writer' = writer
      /\ deleter \in [Deleter -> DeleterState] /\ deleter[d] \in DeleterState
      /\ folders \in [1..FolderMax -> {"none", "active", "trashed"}]
      /\ rows \in [Version -> RowState]
  BY DEF FindObject, Purge, HardDelete, LookEmpty, RemoveFolder, OldInv, Inv, Typed
<1>1. /\ \A x \in Deleter \ {d} : deleter'[x] = deleter[x]
      /\ deleter'[d].stage = "rmdir" => LookEmpty(d)
      /\ \/ deleter'[d].stage = "over"
         \/ /\ deleter'[d].stage \in {"delete", "cleanup", "rmdir"} /\ deleter'[d].folder = deleter[d].folder
            /\ deleter[d].stage \notin {"idle", "over"}
         \/ /\ deleter'[d].stage = "purge" /\ deleter'[d].folder \in DOMAIN folders
            /\ folders[deleter'[d].folder] # "none"
  <2>1. ASSUME NEW k \in Key, FindObject(d, k)  PROVE <1>1
    <3>1. CASE Visible(k) = {}
      <4>1. deleter' = [deleter EXCEPT ![d].stage = "over"]
        BY <2>1, <3>1 DEF FindObject
      <4>. QED  BY <1>0, <4>1 DEF DeleterState
    <3>2. CASE Visible(k) # {}
      <4>1. PICK x \in Visible(k) :
              deleter' = [deleter EXCEPT ![d] = [stage |-> "purge", key |-> k, target |-> x,
                                                 folder |-> rows[x].folder]]
        BY <2>1, <3>2 DEF FindObject
      <4>2. rows[x].folder \in DOMAIN folders /\ folders[rows[x].folder] # "none"
        BY <4>1 DEF Visible, Active, At, ActiveFolders
      <4>. QED  BY <1>0, <4>1, <4>2
    <3>. QED  BY <3>1, <3>2
  <2>2. CASE Purge(d) \/ HardDelete(d)
    <3>1. \E s \in {"delete", "cleanup"} : deleter' = [deleter EXCEPT ![d].stage = s]
      BY <2>2 DEF Purge, HardDelete
    <3>2. deleter[d].stage \in {"purge", "delete"}
      BY <2>2 DEF Purge, HardDelete
    <3>. QED  BY <1>0, <3>1, <3>2 DEF DeleterState
  <2>3. CASE LookEmpty(d) \/ RemoveFolder(d)
    <3>1. \/ deleter' = [deleter EXCEPT ![d].stage = "over"]
          \/ deleter' = [deleter EXCEPT ![d].stage = "rmdir"] /\ LookEmpty(d)
      BY <2>3 DEF LookEmpty, RemoveFolder, Answered
    <3>2. deleter[d].stage \in {"cleanup", "rmdir"}
      BY <2>3 DEF LookEmpty, RemoveFolder
    <3>. QED  BY <1>0, <3>1, <3>2 DEF DeleterState
  <2>. QED  BY <2>1, <2>2, <2>3
<1>2. /\ DOMAIN folders' = DOMAIN folders
      /\ \A f \in DOMAIN folders : folders[f] # "none" => folders'[f] # "none"
  <2>1. CASE RemoveFolder(d)
    BY <1>0, <2>1 DEF RemoveFolder
  <2>2. CASE folders' = folders
    BY <2>2
  <2>. QED  BY <2>1, <2>2 DEF FindObject, Purge, HardDelete, LookEmpty
<1>3. HasFolder(d)'
  BY <1>1, <1>2 DEF HasFolder, OldInv, Vacated
<1>4. \A x \in Deleter : HasFolder(x)'
  BY <1>1, <1>2, <1>3, FoldersKept
<1>5. \A v \in Version : Moves(v)
  <2>1. CASE HardDelete(d)
    <3>1. PICK t \in Version :
            /\ rows[t].status = "complete" /\ writer[t].stage \notin Early
            /\ rows'[t].status = "none" /\ \A x \in Version \ {t} : rows'[x] = rows[x]
      BY <1>0, <2>1 DEF HardDelete, Exists, OldInv, Inv, AllAim, Aims, NoRow
    <3>. QED  BY <1>0, <3>1 DEF Moves
  <2>2. CASE rows' = rows
    BY <1>0, <2>2 DEF Moves
  <2>. QED  BY <2>1, <2>2 DEF FindObject, Purge, LookEmpty, RemoveFolder
<1>6. ASSUME NEW x \in Deleter  PROVE Emptied(x)'
  <2>1. CASE deleter'[x].stage # "rmdir"
    BY <2>1 DEF Emptied
  <2>2. CASE x = d /\ deleter'[d].stage = "rmdir"
    <3>1. /\ rows' = rows /\ IsEmpty(deleter[d].folder) /\ Holding(deleter[d].folder) = {}
      <4>1. CASE Answered(d)
        <5>1. deleter' = [deleter EXCEPT ![d].stage = "over"]
          BY <4>1 DEF Answered
        <5>. QED  BY <1>0, <2>2, <5>1 DEF DeleterState
      <4>2. LookEmpty(d)
        BY <1>1, <2>2
      <4>. QED  BY <4>1, <4>2 DEF LookEmpty, OldInv, Orderly
    <3>2. deleter'[d].folder = deleter[d].folder
      BY <1>1, <2>2
    <3>. QED  BY <1>0, <2>2, <3>1, <3>2 DEF Emptied, IsEmpty, Holding, Exists
  <2>3. CASE x # d /\ deleter'[x].stage = "rmdir"
    <3>1. /\ deleter[x].stage = "rmdir" /\ deleter'[x].folder = deleter[x].folder
          /\ deleter[x].folder \in DOMAIN folders
          /\ IsEmpty(deleter[x].folder) /\ Holding(deleter[x].folder) = {}
      BY <1>1, <2>3 DEF OldInv, Vacated, Emptied, HasFolder
    <3>2. deleter[x].folder \in Nat \ {0}
      BY <1>0, <3>1, S3Assumption
    <3>3. PICK f \in Nat \ {0} : f = deleter[x].folder
      BY <3>2
    <3>4. IsEmpty(f)' /\ Holding(f)' = {}
      BY <1>0, <1>5, <3>1, <3>3, EmptyKept
    <3>. QED  BY <3>1, <3>3, <3>4 DEF Emptied, IsEmpty, Holding
  <2>. QED  BY <2>1, <2>2, <2>3
<1>. QED  BY <1>4, <1>5, <1>6, HouseKept DEF Vacated

LEMMA NextVacates ==
  ASSUME OldInv, [Next]_vars
  PROVE  Vacated'
<1>1. ASSUME NEW w \in Version,
             \/ \E k \in Key : Start(w, k)
             \/ FindFolder(w) \/ MakeFolder(w) \/ Refuse(w) \/ CreateEmpty(w)
             \/ \E path \in Path \cup {"multipart"} : Create(w, path)
             \/ UploadBody(w) \/ UploadFails(w) \/ Report(w) \/ ReportFails(w)
             \/ CompleteDirect(w) \/ Replace(w) \/ StaleCleanup(w)
             \/ \E ok \in BOOLEAN : WorkOff(w, ok)
      PROVE  Vacated'
  <2>1. \A v \in Version : Moves(v)
    BY <1>1, EarlyFits, CreateFits, PutFits DEF OldInv, Inv
  <2>2. deleter' = deleter /\ (MakeFolder(w) \/ folders' = folders)
    BY <1>1 DEF Start, FindFolder, MakeFolder, Refuse, CreateEmpty, Create, UploadBody, UploadFails,
       Report, ReportFails, CompleteDirect, Replace, StaleCleanup, WorkOff
  <2>. QED  BY <2>1, <2>2, WriterVacates
<1>2. ASSUME NEW u \in Upload,
             \/ \E n \in Part : SendPart(u, n) \/ StorePart(u, n)
             \/ AskComplete(u) \/ CompleteUpload(u) \/ Abort(u) \/ DropUpload(u)
      PROVE  Vacated'
  <2>1. \A v \in Version : Moves(v)
    BY <1>2, UploadFits DEF OldInv, Inv
  <2>2. deleter' = deleter /\ folders' = folders
    BY <1>2 DEF SendPart, StorePart, AskComplete, CompleteUpload, Abort, DropUpload
  <2>. QED  BY <2>1, <2>2, WriterVacates
<1>3. CASE UNCHANGED vars
  BY <1>3 DEF vars, OldInv, Vacated, HasFolder, Emptied, IsEmpty, Exists, Holding
<1>. QED  BY <1>1, <1>2, <1>3, DeleterVacates DEF Next

LEMMA OldInvariant == Orderly /\ Spec => []OldInv
<1>1. Orderly /\ Init => OldInv
  BY InitFits, VacatedInit DEF OldInv
<1>2. OldInv /\ [Next]_vars => OldInv'
  BY NextFits, NextVacates DEF OldInv, Orderly
<1>. QED  BY <1>1, <1>2, PTL DEF Spec

\* A complete version whose row and folder stay is still found.
LEMMA Stays ==
  ASSUME NEW k \in Key, NEW v \in Visible(k),
         /\ rows'[v].status = "complete" /\ ~rows'[v].trashed
         /\ rows'[v].key = rows[v].key /\ rows'[v].folder = rows[v].folder,
         \A f \in DOMAIN folders : folders[f] = "active" => f \in DOMAIN folders' /\ folders'[f] = "active"
  PROVE  v \in Visible(k)'
BY DEF Visible, Active, At, ActiveFolders, Exists

LEMMA VisibleIs ==
  ASSUME NEW k \in Key, NEW v \in Visible(k)
  PROVE  /\ v \in Version /\ rows[v].status = "complete" /\ ~rows[v].trashed
         /\ rows[v].folder \in DOMAIN folders /\ folders[rows[v].folder] = "active"
BY DEF Visible, Active, At, ActiveFolders

\* What a row that can be read must keep to be found.
Same(v) ==
  /\ rows'[v].status = rows[v].status /\ rows'[v].trashed = rows[v].trashed
  /\ rows'[v].key = rows[v].key /\ rows'[v].folder = rows[v].folder

LEMMA NothingHidden ==
  ASSUME \A v \in Version : rows[v].status = "complete" => Same(v),
         \A f \in DOMAIN folders : folders[f] = "active" => f \in DOMAIN folders' /\ folders'[f] = "active",
         NEW k \in Key
  PROVE  Replaces(k)
<1>1. \A v \in Visible(k) : v \in Visible(k)'
  BY VisibleIs, Stays DEF Same
<1>. QED  BY <1>1 DEF Replaces

\* A step of w that trashes versions, with its own one taken in.
LEMMA HiddenBy ==
  ASSUME OldInv, NEW w \in Version, rows'[w].status # "uploading", writer'[w] # writer[w],
         rows[w].status = "complete" => Same(w), folders' = folders, NEW k \in Key
  PROVE  Replaces(k)
<1>1. ASSUME NEW v \in Visible(k) \ Visible(k)'  PROVE w \in Version \ {v}
  <2>1. CASE v = w
    <3>1. v \in Visible(k)'
      BY <2>1, VisibleIs, Stays DEF Same
    <3>. QED  BY <3>1
  <2>. QED  BY <2>1
<1>. QED  BY <1>1 DEF Replaces

LEMMA HiddenByWriter ==
  ASSUME OldInv, NEW w \in Version,
         CreateEmpty(w) \/ Report(w) \/ Replace(w) \/ (w \in Upload /\ CompleteUpload(w)),
         NEW k \in Key
  PROVE  Replaces(k)
<1>0. /\ Typed /\ Fit(w) /\ rows \in [Version -> RowState] /\ rows[w] \in RowState
      /\ folders' = folders
  BY DEF OldInv, Inv, AllFit, Typed, CreateEmpty, Report, Replace, CompleteUpload
<1>1. CASE CreateEmpty(w)
  <2>. DEFINE r == NewRow(w, "complete", 0)
  <2>1. r \in RowState /\ r.status = "complete"
    BY <1>0, NewRowTyped DEF Status
  <2>2. rows' = Trash([rows EXCEPT ![w] = r], Stale(w))
    BY <1>1 DEF CreateEmpty
  <2>. HIDE DEF r
  <2>3. rows'[w].status = "complete"
    BY <1>0, <2>1, <2>2, StaleFits DEF Trash
  <2>4. writer[w].stage = "create" /\ End(w)
    BY <1>1, ToldEnds DEF CreateEmpty
  <2>5. rows[w].status = "none"
    BY <1>0, <2>4 DEF Fit, StageFits, Early
  <2>. QED  BY <1>0, <2>3, <2>4, <2>5, EndFields, HiddenBy
<1>2. CASE Report(w)
  <2>1. rows'[w].status = "complete"
    <3>1. rows' = Trash([rows EXCEPT ![w].status = "complete"], Stale(w)) /\ w \notin Stale(w)
      BY <1>0, <1>2, StaleFits DEF Report
    <3>2. [rows EXCEPT ![w].status = "complete"][w].status = "complete"
      BY <1>0 DEF RowState
    <3>. QED  BY <3>1, <3>2 DEF Trash
  <2>2. writer[w].stage = "report" /\ End(w)
    BY <1>2, ToldEnds DEF Report
  <2>3. rows[w].status = "uploading"
    BY <1>0, <2>2 DEF Fit, StageFits, Ongoing
  <2>. QED  BY <1>0, <2>1, <2>2, <2>3, EndFields, HiddenBy
<1>3. CASE Replace(w)
  <2>1. writer[w].stage = "replace" /\ End(w) /\ rows' = Trash(rows, writer[w].replaced)
    BY <1>3, ToldEnds DEF Replace
  <2>2. rows'[w] = rows[w] /\ rows[w].status # "uploading"
    BY <1>0, <2>1 DEF Fit, StageFits, Trash
  <2>. QED  BY <1>0, <2>1, <2>2, EndFields, HiddenBy DEF Same
<1>4. CASE w \in Upload /\ CompleteUpload(w)
  <2>. DEFINE n == Cardinality(writer[w].manifest)
              rs == [rows EXCEPT ![w].status = "complete", ![w].size = n]
  <2>1. rows' = Trash(rs, writer[w].replaced) /\ w \notin writer[w].replaced
    BY <1>0, <1>4 DEF CompleteUpload, Fit, StageFits
  <2>2. rs[w].status = "complete"
    BY <1>0 DEF RowState
  <2>. HIDE DEF rs
  <2>3. rows'[w].status = "complete"
    BY <2>1, <2>2 DEF Trash
  <2>4. /\ writer[w].stage = "completing"
        /\ End(w) \/ (Step(w, "retry") /\ "retry" \in Stages)
    BY <1>4 DEF CompleteUpload, Acked, Stages
  <2>5. writer'[w] # writer[w]
    BY <1>0, <2>4, EndFields, StepFields
  <2>6. rows[w].status = "uploading"
    BY <1>0, <2>4 DEF Fit, StageFits, Ongoing
  <2>. QED  BY <1>0, <2>3, <2>5, <2>6, HiddenBy
<1>. QED  BY <1>1, <1>2, <1>3, <1>4

\* No other step of a writer touches what can be read.
LEMMA HidesNothing ==
  ASSUME OldInv, NEW w \in Version,
         \/ \E k \in Key : Start(w, k)
         \/ FindFolder(w) \/ MakeFolder(w) \/ Refuse(w)
         \/ \E path \in Path \cup {"multipart"} : Create(w, path)
         \/ UploadBody(w) \/ UploadFails(w) \/ ReportFails(w)
         \/ CompleteDirect(w) \/ StaleCleanup(w)
         \/ \E ok \in BOOLEAN : WorkOff(w, ok),
         NEW k \in Key
  PROVE  Replaces(k)
<1>0. /\ Typed /\ Fit(w) /\ rows \in [Version -> RowState]
      /\ folders \in [1..FolderMax -> {"none", "active", "trashed"}]
  BY DEF OldInv, Inv, AllFit, Typed
<1>1. ASSUME \A v \in Version \ {w} : rows'[v] = rows[v],
             rows'[w] = rows[w] \/ rows[w].status # "complete",
             folders' = folders
      PROVE  Replaces(k)
  BY <1>1, NothingHidden DEF Same
<1>2. CASE (\E j \in Key : Start(w, j)) \/ FindFolder(w) \/ Refuse(w) \/ UploadBody(w) \/ ReportFails(w)
  <2>1. rows' = rows /\ folders' = folders
    BY <1>2 DEF Start, FindFolder, Refuse, UploadBody, ReportFails
  <2>. QED  BY <1>1, <2>1
<1>3. CASE MakeFolder(w)
  <2>1. PICK f \in DOMAIN folders : folders[f] = "none" /\ folders' = [folders EXCEPT ![f] = "active"]
    BY <1>3 DEF MakeFolder
  <2>2. rows' = rows
    BY <1>3 DEF MakeFolder
  <2>3. \A g \in DOMAIN folders : folders[g] = "active" => g \in DOMAIN folders' /\ folders'[g] = "active"
    BY <1>0, <2>1
  <2>. QED  BY <2>2, <2>3, NothingHidden DEF Same
<1>4. ASSUME NEW path \in Path \cup {"multipart"}, Create(w, path)  PROVE Replaces(k)
  <2>1. writer[w].stage = "create" /\ folders' = folders
    BY <1>4 DEF Create
  <2>2. \A v \in Version \ {w} : rows'[v] = rows[v]
    BY <1>0, <1>4 DEF Create
  <2>3. rows[w].status = "none"
    BY <1>0, <2>1 DEF Fit, StageFits, Early
  <2>. QED  BY <1>1, <2>1, <2>2, <2>3
<1>5. CASE UploadFails(w) \/ CompleteDirect(w)
  <2>1. writer[w].stage \in {"upload", "complete"} /\ folders' = folders
    BY <1>5 DEF UploadFails, CompleteDirect
  <2>2. \A v \in Version \ {w} : rows'[v] = rows[v]
    BY <1>0, <1>5 DEF UploadFails, CompleteDirect
  <2>3. rows[w].status = "uploading"
    BY <1>0, <2>1 DEF Fit, StageFits, Ongoing
  <2>. QED  BY <1>1, <2>1, <2>2, <2>3
<1>6. CASE StaleCleanup(w) \/ \E ok \in BOOLEAN : WorkOff(w, ok)
  <2>1. rows[w].status # "complete" /\ folders' = folders
    BY <1>6 DEF StaleCleanup, WorkOff
  <2>2. \A v \in Version \ {w} : rows'[v] = rows[v]
    BY <1>0, <1>6 DEF StaleCleanup, WorkOff
  <2>. QED  BY <1>1, <2>1, <2>2
<1>. QED  BY <1>2, <1>3, <1>4, <1>5, <1>6

LEMMA UploadHides ==
  ASSUME OldInv, NEW u \in Upload,
         \/ \E n \in Part : SendPart(u, n) \/ StorePart(u, n)
         \/ AskComplete(u) \/ CompleteUpload(u) \/ Abort(u) \/ DropUpload(u),
         NEW k \in Key
  PROVE  Replaces(k)
<1>0. /\ Typed /\ Fit(u) /\ rows \in [Version -> RowState] /\ u \in Version
      /\ rows[u] \in RowState
  BY DEF OldInv, Inv, AllFit, Typed, Version
<1>1. CASE CompleteUpload(u)
  BY <1>0, <1>1, HiddenByWriter
<1>2. CASE (\E n \in Part : SendPart(u, n)) \/ AskComplete(u) \/ Abort(u)
  <2>1. rows' = rows /\ folders' = folders
    BY <1>2 DEF SendPart, AskComplete, Abort
  <2>. QED  BY <2>1, NothingHidden DEF Same
<1>3. ASSUME NEW n \in Part, StorePart(u, n)  PROVE Replaces(k)
  <2>1. \/ rows' = rows
        \/ rows' = [rows EXCEPT ![u] = [rows[u] EXCEPT !.parts = rows[u].parts \cup {n}]]
    BY <1>0, <1>3 DEF StorePart
  <2>2. \A v \in Version : Same(v)
    BY <1>0, <2>1 DEF Same, RowState
  <2>3. folders' = folders
    BY <1>3 DEF StorePart
  <2>. QED  BY <2>2, <2>3, NothingHidden
<1>4. CASE DropUpload(u)
  <2>1. rows[u].status = "uploading" /\ folders' = folders
    BY <1>0, <1>4 DEF DropUpload, Fit, StageFits, Ongoing
  <2>2. \A v \in Version \ {u} : rows'[v] = rows[v]
    BY <1>0, <1>4 DEF DropUpload
  <2>. QED  BY <2>1, <2>2, NothingHidden DEF Same
<1>. QED  BY <1>1, <1>2, <1>3, <1>4

LEMMA DeleterHides ==
  ASSUME OldInv, NEW d \in Deleter,
         \/ \E j \in Key : FindObject(d, j)
         \/ Purge(d) \/ HardDelete(d) \/ LookEmpty(d) \/ RemoveFolder(d),
         NEW k \in Key
  PROVE  Replaces(k)
<1>0. /\ rows \in [Version -> RowState]
      /\ deleter \in [Deleter -> DeleterState]
      /\ folders \in [1..FolderMax -> {"none", "active", "trashed"}]
  BY DEF OldInv, Inv, Typed
<1>1. CASE HardDelete(d)
  <2>1. PICK t \in Version :
          /\ t = deleter[d].target /\ deleter[d].stage = "delete" /\ folders' = folders
          /\ \A x \in Version \ {t} : rows'[x] = rows[x]
    BY <1>0, <1>1 DEF HardDelete, OldInv, Inv, AllAim, Aims
  <2>2. deleter'[d].stage = "cleanup"
    BY <1>0, <1>1 DEF HardDelete, DeleterState
  <2>3. ASSUME NEW v \in Visible(k) \ Visible(k)'  PROVE v = t
    <3>1. CASE v # t
      <4>1. v \in Visible(k)'
        BY <2>1, <3>1, VisibleIs, Stays
      <4>. QED  BY <4>1
    <3>. QED  BY <3>1
  <2>. QED  BY <2>1, <2>2, <2>3 DEF Replaces
<1>2. CASE RemoveFolder(d)
  <2>1. /\ rows' = rows /\ deleter[d].stage = "rmdir"
        /\ \A f \in DOMAIN folders \ {deleter[d].folder} :
             f \in DOMAIN folders' /\ folders'[f] = folders[f]
    BY <1>0, <1>2 DEF RemoveFolder
  <2>2. \A v \in Version : rows[v].status # "none" /\ rows[v].folder = deleter[d].folder => rows[v].trashed
    BY <2>1 DEF OldInv, Vacated, Emptied, IsEmpty, Exists
  <2>3. ASSUME NEW v \in Visible(k)  PROVE v \in Visible(k)'
    <3>1. /\ v \in Version /\ rows[v].status = "complete" /\ ~rows[v].trashed
          /\ rows[v].folder \in DOMAIN folders /\ folders[rows[v].folder] = "active"
      BY VisibleIs
    <3>2. rows[v].folder # deleter[d].folder
      BY <2>2, <3>1
    <3>3. rows[v].folder \in DOMAIN folders' /\ folders'[rows[v].folder] = "active"
      BY <2>1, <3>1, <3>2
    <3>. QED  BY <2>1, <3>3 DEF Visible, Active, At, ActiveFolders, Exists
  <2>. QED  BY <2>3 DEF Replaces
<1>3. CASE rows' = rows /\ folders' = folders
  BY <1>3, NothingHidden DEF Same
<1>. QED
  BY <1>1, <1>2, <1>3 DEF FindObject, Purge, LookEmpty

\* Nothing that can be read disappears but by a delete of that very version, or by
\* a request whose own version is in Telegram or in the buffer: true of every
\* interleaving in which no put finds the folder that a delete is about to remove.
THEOREM OldVersionSurvives == Orderly /\ Spec => OldSurvives
<1>1. ASSUME OldInv, [Next]_vars, NEW k \in Key  PROVE UNCHANGED vars \/ Replaces(k)
  BY <1>1, HiddenByWriter, HidesNothing, UploadHides, DeleterHides DEF Next
<1>2. ASSUME OldInv, [Next]_vars  PROVE [\A k \in Key : Replaces(k)]_vars
  BY <1>1, <1>2
<1>. QED  BY <1>2, OldInvariant, PTL DEF Spec, OldSurvives

-----------------------------------------------------------------------------
(* What stands at a key, and what a reader may conclude from the answers.   *)

Standing(v) == Exists(v) /\ ~rows[v].trashed

\* What can be read at a key, and what will be once it is worked off.
Shows(k) == {v \in Version : Standing(v) /\ rows[v].key = k /\ rows[v].status = "complete"}
Holds(k) == {v \in Version : Standing(v) /\ rows[v].key = k /\ rows[v].status \in {"complete", "buffered"}}

\* A request that has the key to itself, unless the index keeps it.
Busy(w) == writer[w].stage \notin Over \cup {"parts", "aborting"}

\* The rest of the version of a request that runs.
Tidy(v) ==
  /\ rows[v].status = "none" => ~rows[v].trashed
  /\ Busy(v) => ~rows[v].trashed
  /\ rows[v].status # "none" => rows[v].key = writer[v].key /\ rows[v].folder = writer[v].folder
  /\ IF writer[v].stage = "idle" THEN writer[v].replaced = {} ELSE writer[v].key \in Key
  /\ writer[v].stage = "replace" /\ writer[v].path # "buffered" => rows[v].status \in {"complete", "none"}
  /\ \A x \in writer[v].replaced : writer[x].key = writer[v].key /\ writer[x].stage \notin Early

-----------------------------------------------------------------------------
(* The shapes of the steps of a request: what they do to rows and answers.  *)

Hidden(x) ==
  /\ rows'[x].trashed
  /\ rows'[x].status = rows[x].status /\ rows'[x].key = rows[x].key /\ rows'[x].folder = rows[x].folder

Beside(w) == \A x \in Version \ {w} : writer'[x] = writer[x] /\ Same(x)

Hiding(w, vs) ==
  \A x \in Version \ {w} :
    /\ writer'[x] = writer[x]
    /\ IF x \in vs /\ Exists(x) THEN Hidden(x) ELSE Same(x)

To(w, s) ==
  /\ writer'[w].stage = s /\ writer'[w].key = writer[w].key /\ writer'[w].path = writer[w].path
  /\ writer'[w].replaced = writer[w].replaced

Ended(w) ==
  /\ writer'[w].stage = "over" /\ writer'[w].key = writer[w].key /\ writer'[w].path = writer[w].path
  /\ writer'[w].replaced = {}

Mute == may' = may /\ mixed' = mixed

\* Its row can be read now.
Read(w) ==
  /\ rows'[w].status = "complete" /\ ~rows'[w].trashed
  /\ rows'[w].key = writer[w].key /\ rows'[w].folder = writer[w].folder

Hears(w) == Answer(w, writer[w].key, TRUE, w) \/ Answer(w, writer[w].key, FALSE, w)

Ways == {<<"find", "mkdir">>, <<"find", "create">>, <<"mkdir", "create">>, <<"upload", "report">>,
         <<"upload", "complete">>, <<"parts", "aborting">>}

Begins(w, k) ==
  /\ writer[w].stage = "idle" /\ Alone(w, k) /\ Beside(w) /\ Same(w)
  /\ writer'[w].stage = "find" /\ writer'[w].key = k /\ writer'[w].path = writer[w].path
  /\ writer'[w].replaced = writer[w].replaced
  /\ may' = may /\ mixed' = [mixed EXCEPT ![k] = ~Quiet(k)]

Goes(w) ==
  /\ Beside(w) /\ Same(w) /\ Mute
  /\ \E s \in Stages : To(w, s) /\ (s = writer[w].stage \/ <<writer[w].stage, s>> \in Ways)

Makes(w) ==
  /\ writer[w].stage = "create" /\ ~Clash(writer[w].key, writer[w].folder) /\ Beside(w) /\ Mute
  /\ ~rows'[w].trashed /\ rows'[w].key = writer[w].key /\ rows'[w].folder = writer[w].folder
  /\ writer'[w].key = writer[w].key /\ writer'[w].replaced = Stale(w)
  /\ \/ rows'[w].status = "uploading" /\ writer'[w].stage \in {"upload", "parts"} 
     \/ rows'[w].status = "buffered" /\ writer'[w].stage = "replace" /\ writer'[w].path = "buffered"

Fails(w) ==
  /\ writer[w].stage \in {"create", "upload", "report", "aborting", "parts", "retry"}
  /\ Beside(w) /\ Ended(w) /\ Answer(w, writer[w].key, FALSE, w)
  /\ \/ Same(w)
     \/ rows[w].status = "uploading" /\ rows'[w].status = "none" /\ ~rows'[w].trashed

Stores(w) ==
  /\ \/ writer[w].stage = "create" /\ ~Clash(writer[w].key, writer[w].folder)
     \/ writer[w].stage = "report" /\ Standing(w)
  /\ Read(w) /\ Hiding(w, Stale(w)) /\ Ended(w) /\ Hears(w)

Lands(w) ==
  /\ writer[w].stage = "complete" /\ Standing(w) /\ Read(w) /\ Beside(w) /\ To(w, "replace") /\ Mute

Swaps(w) ==
  /\ writer[w].stage = "replace" /\ Same(w) /\ Hiding(w, writer[w].replaced) /\ Ended(w) /\ Hears(w)

Turns(w) ==
  /\ writer'[w] = writer[w] /\ Beside(w) /\ Mute
  /\ rows[w].status \in {"uploading", "buffered", "buffer_failed"}
  /\ \/ rows'[w].status = "complete" /\ rows[w].status = "buffered"
     \/ rows'[w].status = "buffer_failed"
     \/ rows'[w].status = "upload_timeout" /\ writer[w].stage \in Over
  /\ rows'[w].trashed = rows[w].trashed /\ rows'[w].key = rows[w].key /\ rows'[w].folder = rows[w].folder

Claims(w) ==
  /\ writer[w].stage = "parts" /\ Alone(w, writer[w].key) /\ Standing(w) /\ Same(w) /\ Beside(w) /\ Mute
  /\ writer'[w].stage = "completing" /\ writer'[w].key = writer[w].key /\ writer'[w].path = writer[w].path
  /\ writer'[w].replaced = Stale(w)

Repeats(w) ==
  /\ writer[w].stage = "retry" /\ rows[w].status = "complete" /\ ~rows[w].trashed
  /\ Same(w) /\ Beside(w) /\ Ended(w) /\ Answer(w, writer[w].key, TRUE, w)

Finishes(w) ==
  /\ writer[w].stage = "completing" /\ Standing(w) /\ Read(w) /\ Hiding(w, writer[w].replaced)
  /\ \/ Ended(w) /\ Answer(w, writer[w].key, TRUE, w)
     \/ To(w, "retry") /\ Mute

Shape(w) ==
  \/ \E k \in Key : Begins(w, k)
  \/ Goes(w) \/ Makes(w) \/ Fails(w) \/ Stores(w) \/ Lands(w) \/ Swaps(w) \/ Turns(w)
  \/ Claims(w) \/ Repeats(w) \/ Finishes(w)

\* The ends of requests.
LEMMA EndShape ==
  ASSUME Typed, NEW w \in Version, End(w)
  PROVE  Ended(w) /\ \A x \in Version \ {w} : writer'[x] = writer[x]
<1>1. writer[w] \in WriterState
  BY DEF Typed
<1>2. /\ writer'[w] = [writer[w] EXCEPT !.stage = "over", !.replaced = {}, !.acked = {}]
      /\ \A x \in Version \ {w} : writer'[x] = writer[x]
  BY EndTyped
<1>. QED  BY <1>1, <1>2 DEF WriterState, Ended

LEMMA StepShape ==
  ASSUME Typed, NEW w \in Version, NEW s \in Stages, Step(w, s)
  PROVE  To(w, s) /\ \A x \in Version \ {w} : writer'[x] = writer[x]
<1>1. writer[w] \in WriterState
  BY DEF Typed
<1>2. writer'[w] = [writer[w] EXCEPT !.stage = s] /\ \A x \in Version \ {w} : writer'[x] = writer[x]
  BY StepTyped
<1>. QED  BY <1>1, <1>2 DEF WriterState, To

LEMMA TrashShape ==
  ASSUME Typed, NEW w \in Version, NEW r \in RowState, NEW vs, w \notin vs,
         rows' = Trash([rows EXCEPT ![w] = r], vs),
         \A x \in Version \ {w} : writer'[x] = writer[x]
  PROVE  rows'[w] = r /\ Hiding(w, vs)
<1>. DEFINE rs == [rows EXCEPT ![w] = r]
<1>1. /\ rs \in [Version -> RowState] /\ rs[w] = r
      /\ \A x \in Version \ {w} : rs[x] = rows[x]
  BY RowKept
<1>2. rows' = Trash(rs, vs)
  OBVIOUS
<1>. HIDE DEF rs
<1>3. rows'[w] = r
  BY <1>1, <1>2 DEF Trash
<1>4. ASSUME NEW x \in Version \ {w}
      PROVE  IF x \in vs /\ Exists(x) THEN Hidden(x) ELSE Same(x)
  <2>1. rows[x] \in RowState
    BY DEF Typed
  <2>2. rows'[x] = IF x \in vs /\ Exists(x) THEN [rows[x] EXCEPT !.trashed = TRUE] ELSE rows[x]
    BY <1>1, <1>2 DEF Trash, Exists
  <2>3. CASE x \in vs /\ Exists(x)
    BY <2>1, <2>2, <2>3 DEF Hidden, RowState
  <2>4. CASE ~(x \in vs /\ Exists(x))
    BY <2>2, <2>4 DEF Same
  <2>. QED  BY <2>3, <2>4
<1>. QED  BY <1>3, <1>4 DEF Hiding

\* A row that is written anew.
LEMMA AnewShape ==
  ASSUME Typed, NEW w \in Version, NEW s \in Status, NEW n \in Nat,
         NEW r \in RowState, r = NewRow(w, s, n)
  PROVE  /\ r.status = s /\ ~r.trashed /\ r.key = writer[w].key /\ r.folder = writer[w].folder
         /\ [rows EXCEPT ![w] = r][w] = r
         /\ \A x \in Version \ {w} : [rows EXCEPT ![w] = r][x] = rows[x]
BY NewRowTyped, RowKept

LEMMA PutShape ==
  ASSUME Typed, NEW w \in Version, Fit(w), Tidy(w),
         \/ \E k \in Key : Start(w, k)
         \/ FindFolder(w) \/ MakeFolder(w) \/ UploadBody(w)
         \/ Refuse(w) \/ ReportFails(w) \/ UploadFails(w)
  PROVE  Shape(w)
<1>0. writer[w] \in WriterState /\ writer \in [Version -> WriterState] /\ rows[w] \in RowState
  BY DEF Typed
<1>1. ASSUME NEW k \in Key, Start(w, k)  PROVE Begins(w, k)
  <2>1. writer' = [writer EXCEPT ![w] = [writer[w] EXCEPT !.stage = "find", !.key = k]]
    BY <1>0, <1>1 DEF Start
  <2>2. /\ writer'[w].stage = "find" /\ writer'[w].key = k /\ writer'[w].path = writer[w].path
        /\ writer'[w].replaced = writer[w].replaced
        /\ \A x \in Version \ {w} : writer'[x] = writer[x]
    BY <1>0, <2>1 DEF WriterState
  <2>. QED  BY <1>1, <2>2 DEF Start, Begins, Beside, Same
<1>2. CASE FindFolder(w) \/ MakeFolder(w)
  <2>1. /\ rows' = rows /\ Mute
        /\ \/ writer[w].stage = "find" /\ Step(w, "mkdir") /\ "mkdir" \in Stages
           \/ /\ writer[w].stage \in {"find", "mkdir"}
              /\ \E f : writer' = [writer EXCEPT ![w].stage = "create", ![w].folder = f]
    BY <1>2 DEF FindFolder, MakeFolder, Step, Mute, Stages, Early
  <2>2. CASE Step(w, "mkdir") /\ "mkdir" \in Stages /\ writer[w].stage = "find"
    BY <2>1, <2>2, StepShape DEF Goes, Beside, Same, Ways, Shape
  <2>3. ASSUME NEW f, writer' = [writer EXCEPT ![w].stage = "create", ![w].folder = f],
               writer[w].stage \in {"find", "mkdir"}
        PROVE  Goes(w)
    <3>1. writer' = [writer EXCEPT ![w] = [writer[w] EXCEPT !.stage = "create", !.folder = f]]
      BY <1>0, <2>3
    <3>2. To(w, "create") /\ \A x \in Version \ {w} : writer'[x] = writer[x]
      BY <1>0, <3>1 DEF WriterState, To
    <3>3. "create" \in Stages
      BY DEF Stages, Early
    <3>. QED  BY <2>1, <2>3, <3>2, <3>3 DEF Goes, Beside, Same, Ways
  <2>. QED  BY <2>1, <2>2, <2>3 DEF Shape
<1>3. CASE UploadBody(w)
  <2>1. PICK s \in {"report", "complete"} : Step(w, s)
    BY <1>3 DEF UploadBody
  <2>2. s \in Stages /\ rows' = rows /\ Mute /\ writer[w].stage = "upload"
    BY <1>3 DEF Stages, Ongoing, UploadBody, Mute
  <2>3. Goes(w)
    BY <2>1, <2>2, StepShape DEF Goes, Beside, Same, Ways
  <2>. QED  BY <2>3 DEF Shape
<1>4. CASE Refuse(w) \/ ReportFails(w)
  <2>1. /\ End(w) /\ writer[w].stage \in {"create", "report"} /\ rows' = rows
        /\ Answer(w, writer[w].key, FALSE, w)
    BY <1>4 DEF Refuse, ReportFails, Failed
  <2>. QED  BY <2>1, EndShape DEF Fails, Beside, Same, Shape
<1>5. CASE UploadFails(w)
  <2>1. /\ End(w) /\ writer[w].stage = "upload" /\ Answer(w, writer[w].key, FALSE, w)
        /\ rows[w].status = "uploading"
    BY <1>5 DEF UploadFails, Failed, Fit, StageFits, Ongoing
  <2>2. \/ rows' = rows
        \/ rows'[w].status = "none" /\ ~rows'[w].trashed /\ \A x \in Version \ {w} : rows'[x] = rows[x]
    BY <1>5 DEF UploadFails, Typed, NoRow
  <2>. QED  BY <2>1, <2>2, EndShape DEF Fails, Beside, Same, Shape
<1>. QED  BY <1>1, <1>2, <1>3, <1>4, <1>5 DEF Shape

LEMMA MadeShape ==
  ASSUME Typed, NEW w \in Version, NEW path \in Path \cup {"multipart"}, Create(w, path)
  PROVE  Makes(w)
<1>. DEFINE st == IF path = "buffered" THEN "buffered" ELSE "uploading"
            n == IF path = "multipart" THEN 0 ELSE 1
            s == CASE path = "multipart" -> "parts"
                   [] path = "buffered" -> "replace"
                   [] OTHER -> "upload"
            r == NewRow(w, st, n)
            q == [writer[w] EXCEPT !.replaced = Stale(w), !.path = path, !.stage = s]
<1>1. /\ st \in Status /\ n \in Nat /\ s \in Stages
      /\ \/ st = "uploading" /\ s \in {"upload", "parts"}
         \/ st = "buffered" /\ s = "replace" /\ path = "buffered"
  BY DEF Status, Stages, Ongoing
<1>2. /\ writer[w] \in WriterState /\ writer \in [Version -> WriterState]
      /\ writer[w].stage = "create" /\ ~Clash(writer[w].key, writer[w].folder) /\ Mute
      /\ rows' = [rows EXCEPT ![w] = r]
  BY DEF Typed, Create, Mute
<1>3. writer' = [writer EXCEPT ![w] = q]
  <2>1. writer' = [writer EXCEPT ![w].replaced = Stale(w), ![w].path = path, ![w].stage = s]
    BY DEF Create
  <2>. HIDE DEF s
  <2>. QED  BY <1>2, <2>1
<1>. HIDE DEF st, n, s
<1>4. r \in RowState
  BY <1>1, NewRowTyped
<1>5. /\ q.stage = s /\ q.replaced = Stale(w) /\ q.key = writer[w].key /\ q.path = path
  BY <1>2 DEF WriterState
<1>. HIDE DEF q
<1>6. /\ writer'[w] = q /\ \A x \in Version \ {w} : writer'[x] = writer[x]
  BY <1>2, <1>3
<1>7. /\ r.status = st /\ ~r.trashed /\ r.key = writer[w].key /\ r.folder = writer[w].folder
      /\ rows'[w] = r /\ \A x \in Version \ {w} : rows'[x] = rows[x]
  BY <1>1, <1>2, <1>4, AnewShape
<1>. QED  BY <1>1, <1>2, <1>5, <1>6, <1>7 DEF Makes, Beside, Same

LEMMA StoreShape ==
  ASSUME Typed, NEW w \in Version, Fit(w), Tidy(w), CreateEmpty(w) \/ Report(w)
  PROVE  Stores(w)
<1>0. rows[w] \in RowState /\ w \notin Stale(w)
  BY StaleFits DEF Typed
<1>1. /\ End(w) /\ Hears(w)
      /\ Ended(w) /\ \A x \in Version \ {w} : writer'[x] = writer[x]
  BY EndShape DEF CreateEmpty, Report, Told, Acked, Failed, Hears
<1>2. CASE CreateEmpty(w)
  <2>. DEFINE r == NewRow(w, "complete", 0)
  <2>1. r \in RowState /\ r.status = "complete" /\ ~r.trashed /\ r.key = writer[w].key
        /\ r.folder = writer[w].folder
    BY NewRowTyped DEF Status
  <2>2. rows' = Trash([rows EXCEPT ![w] = r], Stale(w))
    BY <1>2 DEF CreateEmpty
  <2>. HIDE DEF r
  <2>3. rows'[w] = r /\ Hiding(w, Stale(w))
    BY <1>0, <1>1, <2>1, <2>2, TrashShape
  <2>. QED  BY <1>1, <1>2, <2>1, <2>3 DEF Stores, Read, CreateEmpty
<1>3. CASE Report(w)
  <2>. DEFINE r == [rows[w] EXCEPT !.status = "complete"]
  <2>0. /\ writer[w].stage = "report" /\ rows[w].status = "uploading" /\ ~rows[w].trashed
        /\ rows[w].key = writer[w].key /\ rows[w].folder = writer[w].folder
    BY <1>3 DEF Report, Fit, StageFits, Ongoing, Tidy, Busy, Over
  <2>1. r \in RowState /\ r.status = "complete" /\ ~r.trashed /\ r.key = writer[w].key
        /\ r.folder = writer[w].folder
    BY <1>0, <2>0 DEF RowState, Status
  <2>2. rows' = Trash([rows EXCEPT ![w] = r], Stale(w))
    <3>1. rows' = Trash([rows EXCEPT ![w].status = "complete"], Stale(w))
      BY <1>3 DEF Report
    <3>. QED  BY <3>1, StatusKept DEF Status
  <2>. HIDE DEF r
  <2>3. rows'[w] = r /\ Hiding(w, Stale(w))
    BY <1>0, <1>1, <2>1, <2>2, TrashShape
  <2>. QED  BY <1>1, <2>0, <2>1, <2>3 DEF Stores, Read, Standing, Exists
<1>. QED  BY <1>2, <1>3

LEMMA WorkShape ==
  ASSUME Typed, NEW w \in Version, Fit(w), Tidy(w),
         \/ CompleteDirect(w) \/ Replace(w) \/ StaleCleanup(w)
         \/ \E ok \in BOOLEAN : WorkOff(w, ok)
  PROVE  Shape(w)
<1>0. rows[w] \in RowState /\ writer[w] \in WriterState
  BY DEF Typed
<1>1. CASE CompleteDirect(w)
  <2>1. /\ rows' = [rows EXCEPT ![w].status = "complete"] /\ "complete" \in Status
        /\ Step(w, "replace") /\ "replace" \in Stages /\ Mute /\ writer[w].stage = "complete"
    BY <1>1 DEF CompleteDirect, Status, Stages, Mute
  <2>2. /\ rows[w].status = "uploading" /\ ~rows[w].trashed
        /\ rows[w].key = writer[w].key /\ rows[w].folder = writer[w].folder
    BY <2>1 DEF Fit, StageFits, Ongoing, Tidy, Busy, Over
  <2>. QED  BY <2>1, <2>2, StatusStep, StepShape
  DEF Lands, Standing, Exists, Read, Beside, Same, Shape
<1>2. CASE Replace(w)
  <2>1. /\ writer[w].stage = "replace" /\ w \notin writer[w].replaced
        /\ End(w) /\ Hears(w) /\ rows' = Trash(rows, writer[w].replaced)
    BY <1>2 DEF Replace, Told, Acked, Failed, Hears, Fit, StageFits
  <2>2. rows = [rows EXCEPT ![w] = rows[w]]
    BY DEF Typed
  <2>3. Ended(w) /\ \A x \in Version \ {w} : writer'[x] = writer[x]
    BY <2>1, EndShape
  <2>4. rows'[w] = rows[w] /\ Hiding(w, writer[w].replaced)
    BY <1>0, <2>1, <2>2, <2>3, TrashShape
  <2>. QED  BY <2>1, <2>3, <2>4 DEF Swaps, Same, Shape
<1>3. CASE StaleCleanup(w)
  <2>1. /\ rows' = [rows EXCEPT ![w].status = "upload_timeout"] /\ "upload_timeout" \in Status
        /\ writer' = writer /\ Mute /\ writer[w].stage \in Over
        /\ rows[w].status \in {"uploading", "buffered", "buffer_failed"}
    BY <1>3 DEF StaleCleanup, Status, Mute
  <2>. QED  BY <2>1, StatusStep DEF Turns, Beside, Same, Shape
<1>4. ASSUME NEW ok \in BOOLEAN, WorkOff(w, ok)  PROVE Turns(w)
  <2>1. PICK s \in {"complete", "buffer_failed"} : rows' = [rows EXCEPT ![w].status = s]
    BY <1>4 DEF WorkOff
  <2>2. s \in Status /\ writer' = writer /\ Mute /\ rows[w].status = "buffered"
    BY <1>4 DEF WorkOff, Status, Mute
  <2>. QED  BY <2>1, <2>2, StatusStep DEF Turns, Beside, Same
<1>. QED  BY <1>1, <1>2, <1>3, <1>4 DEF Shape

LEMMA PartShape ==
  ASSUME Typed, NEW u \in Upload, Fit(u), Tidy(u),
         \/ \E n \in Part : SendPart(u, n) \/ StorePart(u, n)
         \/ Abort(u) \/ DropUpload(u)
  PROVE  Shape(u)
<1>0. /\ u \in Version /\ writer[u] \in WriterState /\ rows[u] \in RowState
      /\ writer \in [Version -> WriterState] /\ rows \in [Version -> RowState]
  BY DEF Typed, Version
<1>1. ASSUME NEW n \in Part, SendPart(u, n)  PROVE Goes(u)
  <2>1. rows' = rows /\ Mute /\ writer[u].stage \in Stages
    BY <1>0, <1>1 DEF SendPart, Mute, WriterState
  <2>2. \/ writer' = [writer EXCEPT ![u] = [writer[u] EXCEPT !.acked = writer[u].acked \cup {n}]]
        \/ writer' = [writer EXCEPT ![u] = [writer[u] EXCEPT !.flight[n] = writer[u].flight[n] + 1]]
    BY <1>0, <1>1 DEF SendPart
  <2>3. To(u, writer[u].stage) /\ \A x \in Version \ {u} : writer'[x] = writer[x]
    BY <1>0, <2>2 DEF WriterState, To
  <2>. QED  BY <1>0, <2>1, <2>3 DEF Goes, Beside, Same
<1>2. ASSUME NEW n \in Part, StorePart(u, n)  PROVE Goes(u)
  <2>1. PICK heard \in {TRUE, FALSE} :
           writer' = [writer EXCEPT ![u].flight[n] = @ - 1,
                                    ![u].acked = IF heard THEN @ \cup {n} ELSE @]
    BY <1>2 DEF StorePart, Exists
  <2>. DEFINE ps == IF heard THEN writer[u].acked \cup {n} ELSE writer[u].acked
              q == [writer[u] EXCEPT !.flight[n] = writer[u].flight[n] - 1, !.acked = ps]
  <2>2. writer' = [writer EXCEPT ![u] = q]
    BY <1>0, <2>1
  <2>3. /\ q.stage = writer[u].stage /\ q.replaced = writer[u].replaced /\ q.key = writer[u].key
        /\ q.path = writer[u].path
    BY <1>0 DEF WriterState
  <2>. HIDE DEF q
  <2>4. writer'[u] = q /\ \A v \in Version \ {u} : writer'[v] = writer[v]
    BY <1>0, <2>2
  <2>5. Same(u) /\ \A v \in Version \ {u} : rows'[v] = rows[v]
    <3>1. CASE Exists(u)
      <4>1. rows' = [rows EXCEPT ![u] = [rows[u] EXCEPT !.parts = rows[u].parts \cup {n}]]
        BY <1>0, <1>2, <3>1 DEF StorePart
      <4>. QED  BY <1>0, <4>1 DEF RowState, Same
    <3>2. CASE ~Exists(u)
      BY <1>2, <3>2 DEF StorePart, Same
    <3>. QED  BY <3>1, <3>2
  <2>6. Mute /\ writer[u].stage \in Stages
    BY <1>0, <1>2 DEF StorePart, Mute, WriterState
  <2>. QED  BY <2>3, <2>4, <2>5, <2>6 DEF Goes, To, Beside, Same
<1>3. CASE Abort(u)
  <2>1. /\ Step(u, "aborting") /\ "aborting" \in Stages /\ rows' = rows /\ Mute
        /\ writer[u].stage = "parts"
    BY <1>3 DEF Abort, Stages, Ongoing, Mute
  <2>. QED  BY <1>0, <2>1, StepShape DEF Goes, Beside, Same, Ways, Shape
<1>4. CASE DropUpload(u)
  <2>1. /\ End(u) /\ Answer(u, writer[u].key, FALSE, u) /\ writer[u].stage = "aborting"
        /\ rows[u].status = "uploading"
        /\ rows'[u].status = "none" /\ ~rows'[u].trashed /\ \A v \in Version \ {u} : rows'[v] = rows[v]
    BY <1>0, <1>4 DEF DropUpload, Failed, NoRow, Fit, StageFits, Ongoing
  <2>. QED  BY <1>0, <2>1, EndShape DEF Fails, Beside, Same, Shape
<1>. QED  BY <1>1, <1>2, <1>3, <1>4 DEF Shape

LEMMA CompleteShape ==
  ASSUME Typed, NEW u \in Upload, Fit(u), Tidy(u), AskComplete(u) \/ CompleteUpload(u)
  PROVE  Shape(u)
<1>0. /\ u \in Version /\ writer[u] \in WriterState /\ rows[u] \in RowState
      /\ writer \in [Version -> WriterState] /\ rows \in [Version -> RowState]
      /\ writer[u].manifest \in SUBSET Part
  BY DEF Typed, Version, WriterState
<1>1. CASE AskComplete(u)
  <2>1. rows' = rows /\ writer[u].stage \in {"parts", "retry"} /\ Alone(u, writer[u].key)
    BY <1>1 DEF AskComplete
  <2>2. PICK manifest \in SUBSET writer[u].acked :
          \/ Failed(u)
          \/ Exists(u) /\ ~rows[u].trashed /\ rows[u].status = "complete" /\ Acked(u)
          \/ /\ Exists(u) /\ ~rows[u].trashed /\ rows[u].status # "complete" /\ Mute
             /\ writer' = [writer EXCEPT ![u].stage = "completing", ![u].manifest = manifest,
                                         ![u].replaced = Stale(u)]
    BY <1>1 DEF AskComplete, Mute
  <2>3. writer[u].stage = "parts" => rows[u].status = "uploading"
    BY DEF Fit, StageFits, Ongoing
  <2>4. writer[u].stage = "retry" => rows[u].status \in {"complete", "none"}
    BY DEF Fit, StageFits
  <2>5. CASE Failed(u)
    BY <1>0, <2>1, <2>5, EndShape DEF Failed, Fails, Beside, Same, Shape
  <2>6. CASE ~rows[u].trashed /\ rows[u].status = "complete" /\ Acked(u)
    BY <1>0, <2>1, <2>3, <2>6, EndShape DEF Acked, Repeats, Beside, Same, Shape
  <2>7. CASE /\ Exists(u) /\ ~rows[u].trashed /\ rows[u].status # "complete" /\ Mute
             /\ writer' = [writer EXCEPT ![u].stage = "completing", ![u].manifest = manifest,
                                         ![u].replaced = Stale(u)]
    <3>1. writer' = [writer EXCEPT ![u] = [writer[u] EXCEPT !.stage = "completing", !.manifest = manifest,
                                                            !.replaced = Stale(u)]]
      BY <1>0, <2>7
    <3>2. /\ writer'[u].stage = "completing" /\ writer'[u].key = writer[u].key
          /\ writer'[u].replaced = Stale(u) /\ writer'[u].path = writer[u].path
          /\ \A v \in Version \ {u} : writer'[v] = writer[v]
      BY <1>0, <3>1 DEF WriterState
    <3>. QED  BY <2>1, <2>4, <2>7, <3>2 DEF Claims, Standing, Exists, Beside, Same, Shape
  <2>. QED  BY <2>2, <2>5, <2>6, <2>7
<1>2. CASE CompleteUpload(u)
  <2>. DEFINE n == Cardinality(writer[u].manifest)
              r == [rows[u] EXCEPT !.status = "complete", !.size = n]
  <2>1. n \in Nat
    BY <1>0, SizeTyped
  <2>2. /\ writer[u].stage = "completing"
        /\ rows' = Trash([rows EXCEPT ![u].status = "complete", ![u].size = n], writer[u].replaced)
        /\ \/ End(u) /\ Answer(u, writer[u].key, TRUE, u)
           \/ Step(u, "retry") /\ "retry" \in Stages /\ Mute
    BY <1>2 DEF CompleteUpload, Acked, Stages, Mute
  <2>. HIDE DEF n
  <2>3. rows' = Trash([rows EXCEPT ![u] = r], writer[u].replaced)
    <3>1. [rows EXCEPT ![u].status = "complete", ![u].size = n] = [rows EXCEPT ![u] = r]
      BY <1>0
    <3>. QED  BY <2>2, <3>1
  <2>4. /\ rows[u].status = "uploading" /\ ~rows[u].trashed
        /\ rows[u].key = writer[u].key /\ rows[u].folder = writer[u].folder
    BY <2>2 DEF Fit, StageFits, Ongoing, Tidy, Busy, Over
  <2>5. /\ r \in RowState /\ r.status = "complete" /\ ~r.trashed
        /\ r.key = writer[u].key /\ r.folder = writer[u].folder
    BY <1>0, <2>1, <2>4 DEF RowState, Status
  <2>. HIDE DEF r
  <2>6. /\ \/ Ended(u) /\ Answer(u, writer[u].key, TRUE, u)
           \/ To(u, "retry") /\ Mute
        /\ \A v \in Version \ {u} : writer'[v] = writer[v]
    BY <1>0, <2>2, EndShape, StepShape
  <2>7. u \notin writer[u].replaced
    BY DEF Fit, StageFits
  <2>8. rows'[u] = r /\ Hiding(u, writer[u].replaced)
    BY <1>0, <2>3, <2>5, <2>6, <2>7, TrashShape
  <2>. QED  BY <2>2, <2>4, <2>5, <2>6, <2>8 DEF Finishes, Standing, Exists, Read, Shape
<1>. QED  BY <1>1, <1>2

-----------------------------------------------------------------------------
(* Folders, keys and overlaps.                                              *)

Noted == may \in [Key -> SUBSET (Version \cup {None})] /\ mixed \in [Key -> BOOLEAN]

\* Who was heard of has ended.
Heard(k) == \A v \in may[k] \ {None} : writer[v].stage = "over" /\ writer[v].key = k

Lodged ==
  /\ \A f, g \in ActiveFolders : f = g
  /\ \A w \in Version : writer[w].stage = "mkdir" =>
       ActiveFolders = {} /\ \A x \in Version : writer[x].stage = "mkdir" => x = w

Placed(v) ==
  /\ writer[v].stage \notin Over \cup Unhoused => writer[v].folder \in ActiveFolders
  /\ Standing(v) => rows[v].folder \in ActiveFolders

Marked(d) ==
  deleter[d].stage \notin Over =>
    LET v == deleter[d].target
    IN  v \in Version /\ deleter[d].key \in Key
        /\ deleter[d].key = writer[v].key /\ deleter[d].folder = writer[v].folder
        /\ writer[v].stage \notin Early

\* Requests that overlap are noted.
Sole(k) == ~mixed[k] => \A r, q \in Writing(k) \cup Deleting(k) : r = q

\* Without the index one request at a time is busy with a key, with it one row
\* stands there.
Apart == ~index => \A w, x \in Version : Busy(w) /\ Busy(x) /\ writer[w].key = writer[x].key => w = x

Unique ==
  index => /\ \A v, x \in Version : Standing(v) /\ Standing(x) /\ rows[v].key = rows[x].key => v = x
           /\ \A v \in Version : ~rows[v].trashed /\ writer[v].replaced = {}

Order ==
  /\ OldInv /\ Noted /\ Lodged /\ Apart /\ Unique
  /\ \A v \in Version : Tidy(v) /\ Placed(v)
  /\ \A d \in Deleter : Marked(d)
  /\ \A k \in Key : Heard(k) /\ Sole(k)

\* A step of a request.
Lodges(w) ==
  \/ /\ folders' = folders /\ writer'[w].folder = writer[w].folder
     /\ writer[w].stage \in {"find", "mkdir"} => writer'[w].stage = writer[w].stage
  \/ FindFolder(w) \/ MakeFolder(w)

Walks(w) ==
  /\ index' = index /\ deleter' = deleter /\ Lodges(w) /\ Shape(w)
  /\ \A v \in Version : Moves(v)

LEMMA Steps ==
  ASSUME Order, NEW w \in Version,
         \/ \/ \E k \in Key : Start(w, k)
            \/ FindFolder(w) \/ MakeFolder(w) \/ Refuse(w) \/ CreateEmpty(w)
            \/ \E path \in Path \cup {"multipart"} : Create(w, path)
            \/ UploadBody(w) \/ UploadFails(w) \/ Report(w) \/ ReportFails(w)
            \/ CompleteDirect(w) \/ Replace(w) \/ StaleCleanup(w)
            \/ \E ok \in BOOLEAN : WorkOff(w, ok)
         \/ /\ w \in Upload
            /\ \/ \E n \in Part : SendPart(w, n) \/ StorePart(w, n)
               \/ AskComplete(w) \/ CompleteUpload(w) \/ Abort(w) \/ DropUpload(w)
  PROVE  Walks(w)
<1>1. Typed /\ AllFit /\ Fit(w) /\ Tidy(w)
  BY DEF Order, OldInv, Inv, AllFit
<1>2. \A v \in Version : Moves(v)
  BY <1>1, EarlyFits, CreateFits, PutFits, UploadFits
<1>3. index' = index /\ deleter' = deleter /\ (MakeFolder(w) \/ folders' = folders)
  BY DEF Start, FindFolder, MakeFolder, Refuse, CreateEmpty, Create, UploadBody, UploadFails,
     Report, ReportFails, CompleteDirect, Replace, StaleCleanup, WorkOff, SendPart, StorePart,
     AskComplete, CompleteUpload, Abort, DropUpload
<1>4. Shape(w)
  BY <1>1, PutShape, MadeShape, StoreShape, WorkShape, PartShape, CompleteShape DEF Shape
<1>5. CASE FindFolder(w) \/ MakeFolder(w)
  BY <1>2, <1>3, <1>4, <1>5 DEF Walks, Lodges
<1>6. CASE ~(FindFolder(w) \/ MakeFolder(w))
  <2>1. writer[w].stage \notin {"find", "mkdir"} \/ writer'[w].stage = writer[w].stage
    <3>1. CASE \E k \in Key : Start(w, k)
      BY <3>1 DEF Start
    <3>2. CASE CreateEmpty(w) \/ \E path \in Path \cup {"multipart"} : Create(w, path)
      BY <3>2 DEF CreateEmpty, Create
    <3>3. CASE Refuse(w) \/ UploadBody(w) \/ UploadFails(w) \/ Report(w) \/ ReportFails(w)
      BY <3>3 DEF Refuse, UploadBody, UploadFails, Report, ReportFails
    <3>4. CASE CompleteDirect(w) \/ Replace(w)
      BY <3>4 DEF CompleteDirect, Replace
    <3>5. CASE StaleCleanup(w) \/ \E ok \in BOOLEAN : WorkOff(w, ok)
      BY <1>1, <3>5 DEF StaleCleanup, WorkOff, Fit, StageFits, Early
    <3>6. CASE \E n \in Part : SendPart(w, n)
      BY <3>6 DEF SendPart
    <3>7. ASSUME NEW n \in Part, StorePart(w, n)  PROVE writer'[w].stage = writer[w].stage
      <4>1. PICK heard \in {TRUE, FALSE} :
               writer' = [writer EXCEPT ![w].flight[n] = @ - 1,
                                        ![w].acked = IF heard THEN @ \cup {n} ELSE @]
        BY <3>7 DEF StorePart, Exists
      <4>. QED  BY <1>1, <4>1 DEF Typed, WriterState
    <3>8. CASE AskComplete(w) \/ CompleteUpload(w) \/ Abort(w) \/ DropUpload(w)
      BY <3>8 DEF AskComplete, CompleteUpload, Abort, DropUpload
    <3>. QED  BY <1>6, <3>1, <3>2, <3>3, <3>4, <3>5, <3>6, <3>7, <3>8
  <2>2. writer'[w].folder = writer[w].folder /\ folders' = folders
    BY <1>2, <1>3, <1>6 DEF Moves
  <2>. QED  BY <1>2, <1>3, <1>4, <2>1, <2>2 DEF Walks, Lodges
<1>. QED  BY <1>5, <1>6

\* What an answer changes.
LEMMA AnswerIs ==
  ASSUME Noted, NEW k \in Key, NEW ok \in BOOLEAN, NEW r, NEW v \in Version \cup {None},
         Answer(r, k, ok, v)
  PROVE  /\ Noted' /\ \A l \in Key \ {k} : may'[l] = may[l] /\ mixed'[l] = mixed[l]
         /\ \/ may'[k] = may[k] \cup {v}
            \/ may'[k] = {v} /\ ok /\ ~mixed[k]
         /\ mixed'[k] <=> mixed[k] /\ (Writing(k) \cup Deleting(k)) \ {r} # {}
<1>1. /\ may' = [may EXCEPT ![k] = IF ok /\ ~mixed[k] THEN {v} ELSE may[k] \cup {v}]
      /\ mixed' = [mixed EXCEPT ![k] = mixed[k] /\ (Writing(k) \cup Deleting(k)) \ {r} # {}]
  BY DEF Answer, Noted
<1>2. (mixed[k] /\ (Writing(k) \cup Deleting(k)) \ {r} # {}) \in BOOLEAN
  BY DEF Noted
<1>3. Noted'
  BY <1>1, <1>2 DEF Noted
<1>4. /\ \A l \in Key \ {k} : may'[l] = may[l] /\ mixed'[l] = mixed[l]
      /\ mixed'[k] = (mixed[k] /\ (Writing(k) \cup Deleting(k)) \ {r} # {})
      /\ may'[k] = IF ok /\ ~mixed[k] THEN {v} ELSE may[k] \cup {v}
  BY <1>1, <1>2 DEF Noted
<1>. QED  BY <1>3, <1>4

\* The other versions of a step: at most they are hidden, by a busy request for
\* their key, and never where the index is.
LEMMA Aside ==
  ASSUME Order, NEW w \in Version, Walks(w), NEW x \in Version \ {w}
  PROVE  /\ writer'[x] = writer[x]
         /\ rows'[x].status = rows[x].status /\ rows'[x].key = rows[x].key
         /\ rows'[x].folder = rows[x].folder
         /\ \/ rows'[x].trashed = rows[x].trashed
            \/ /\ rows'[x].trashed /\ Exists(x) /\ ~index /\ ~Busy(x) /\ Busy(w)
               /\ writer[x].key = writer[w].key
<1>1. CASE Beside(w)
  BY <1>1 DEF Beside, Same
<1>2. ASSUME NEW vs, Hiding(w, vs), Busy(w),
             x \in vs /\ Exists(x) => ~index /\ writer[x].key = writer[w].key
      PROVE  /\ writer'[x] = writer[x]
             /\ rows'[x].status = rows[x].status /\ rows'[x].key = rows[x].key
             /\ rows'[x].folder = rows[x].folder
             /\ \/ rows'[x].trashed = rows[x].trashed
                \/ /\ rows'[x].trashed /\ Exists(x) /\ ~index /\ ~Busy(x) /\ Busy(w)
                   /\ writer[x].key = writer[w].key
  <2>1. writer'[x] = writer[x] /\ IF x \in vs /\ Exists(x) THEN Hidden(x) ELSE Same(x)
    BY <1>2 DEF Hiding
  <2>2. CASE x \in vs /\ Exists(x)
    <3>1. ~Busy(x)
      BY <1>2, <2>2 DEF Order, Apart
    <3>. QED  BY <1>2, <2>1, <2>2, <3>1 DEF Hidden
  <2>3. CASE ~(x \in vs /\ Exists(x))
    BY <2>1, <2>3 DEF Same
  <2>. QED  BY <2>2, <2>3
<1>3. CASE Stores(w)
  <2>1. Busy(w) /\ Hiding(w, Stale(w))
    BY <1>3 DEF Stores, Busy, Over
  <2>2. ASSUME x \in Stale(w)  PROVE ~index /\ writer[x].key = writer[w].key
    <3>1. /\ Standing(x) /\ rows[x].key = writer[w].key
          /\ x \in Active(writer[w].key, writer[w].folder)
      BY <2>2 DEF Stale, Active, At, Standing
    <3>2. Tidy(x) /\ Tidy(w)
      BY DEF Order
    <3>3. writer[x].key = writer[w].key
      BY <3>1, <3>2 DEF Tidy, Standing, Exists
    <3>4. ~index
      <4>1. CASE ~Clash(writer[w].key, writer[w].folder)
        BY <3>1, <4>1 DEF Clash
      <4>2. CASE Standing(w)
        <5>1. rows[w].key = writer[w].key
          BY <3>2, <4>2 DEF Tidy, Standing, Exists
        <5>. QED  BY <3>1, <4>2, <5>1 DEF Order, Unique
      <4>. QED  BY <1>3, <4>1, <4>2 DEF Stores
    <3>. QED  BY <3>3, <3>4
  <2>. QED  BY <1>2, <2>1, <2>2
<1>4. CASE Swaps(w) \/ Finishes(w)
  <2>1. Busy(w) /\ Hiding(w, writer[w].replaced)
    BY <1>4 DEF Swaps, Finishes, Busy, Over
  <2>2. ASSUME x \in writer[w].replaced  PROVE ~index /\ writer[x].key = writer[w].key
    BY <2>2 DEF Order, Unique, Tidy
  <2>. QED  BY <1>2, <2>1, <2>2
<1>. QED
  BY <1>1, <1>3, <1>4 DEF Walks, Shape, Begins, Goes, Makes, Fails, Lands, Turns, Claims, Repeats

\* What w itself becomes.
LEMMA Itself ==
  ASSUME Order, NEW w \in Version, Walks(w)
  PROVE  /\ writer[w].stage # "idle" => writer'[w].key = writer[w].key
         /\ Busy(w)' => \/ Busy(w) /\ writer'[w].key = writer[w].key
                        \/ \E k \in Key : Begins(w, k)
                        \/ Claims(w)
         /\ writer'[w].stage = "mkdir" => writer[w].stage \in {"find", "mkdir"}
BY DEF Walks, Shape, Begins, Goes, To, Ways, Makes, Fails, Stores, Ended, Lands, Swaps, Turns,
   Claims, Repeats, Finishes, Busy, Over

\* A key is as it was, or a request for it begins or ends.
Still(w, k) ==
  /\ may'[k] = may[k] /\ (mixed'[k] <=> mixed[k])
  /\ \A x \in Version : x \in Writing(k)' <=> x \in Writing(k)

Joins(w, k) ==
  /\ Begins(w, k) /\ may'[k] = may[k] /\ (mixed'[k] <=> ~Quiet(k))
  /\ w \notin Writing(k) /\ w \in Writing(k)'
  /\ \A x \in Version \ {w} : x \in Writing(k)' <=> x \in Writing(k)

Leaves(w, k) ==
  /\ writer[w].key = k /\ Ended(w)
  /\ \/ may'[k] = may[k] \cup {w}
     \/ may'[k] = {w} /\ ~mixed[k] /\ (Stores(w) \/ Swaps(w) \/ Repeats(w) \/ Finishes(w))
  /\ mixed'[k] <=> mixed[k] /\ (Writing(k) \cup Deleting(k)) \ {w} # {}
  /\ w \in Writing(k) /\ w \notin Writing(k)'
  /\ \A x \in Version \ {w} : x \in Writing(k)' <=> x \in Writing(k)

LEMMA Notes ==
  ASSUME Order, NEW w \in Version, Walks(w), NEW k \in Key
  PROVE  /\ Noted' /\ Deleting(k)' = Deleting(k)
         /\ Still(w, k) \/ Joins(w, k) \/ Leaves(w, k)
<1>0. /\ Noted /\ Tidy(w)
      /\ \A x \in Version \ {w} : x \in Writing(k)' <=> x \in Writing(k)
      /\ Deleting(k)' = Deleting(k)
  <2>1. deleter' = deleter /\ \A x \in Version \ {w} : writer'[x] = writer[x]
    BY Aside DEF Walks
  <2>. QED  BY <2>1 DEF Order, Writing, Deleting
<1>1. ASSUME NEW l \in Key, Begins(w, l)  PROVE Noted' /\ (Still(w, k) \/ Joins(w, k))
  <2>1. may' = may /\ mixed' = [mixed EXCEPT ![l] = ~Quiet(l)]
    BY <1>1 DEF Begins
  <2>2. Noted'
    BY <1>0, <2>1 DEF Noted
  <2>3. CASE l = k
    <3>1. w \notin Writing(k) /\ w \in Writing(k)'
      BY <1>1, <2>3 DEF Begins, Writing, Over
    <3>2. mixed'[k] <=> ~Quiet(k)
      BY <1>0, <2>1, <2>3 DEF Noted
    <3>. QED  BY <1>0, <1>1, <2>1, <2>2, <2>3, <3>1, <3>2 DEF Joins
  <2>4. CASE l # k
    <3>1. w \notin Writing(k) /\ w \notin Writing(k)'
      BY <1>1, <2>4 DEF Begins, Writing, Over
    <3>2. mixed'[k] <=> mixed[k]
      BY <1>0, <2>1, <2>4 DEF Noted
    <3>. QED  BY <1>0, <2>1, <2>2, <3>1, <3>2 DEF Still
  <2>. QED  BY <2>3, <2>4
<1>2. ASSUME NEW ok \in BOOLEAN, Ended(w), Answer(w, writer[w].key, ok, w), writer[w].stage \notin Over,
             ok => Stores(w) \/ Swaps(w) \/ Repeats(w) \/ Finishes(w)
      PROVE  Noted' /\ (Still(w, k) \/ Leaves(w, k))
  <2>. DEFINE l == writer[w].key
  <2>1. l \in Key
    BY <1>0, <1>2 DEF Tidy, Over
  <2>2. /\ Noted' /\ \A j \in Key \ {l} : may'[j] = may[j] /\ mixed'[j] = mixed[j]
        /\ \/ may'[l] = may[l] \cup {w}
           \/ may'[l] = {w} /\ ok /\ ~mixed[l]
        /\ mixed'[l] <=> mixed[l] /\ (Writing(l) \cup Deleting(l)) \ {w} # {}
    BY <1>0, <1>2, <2>1, AnswerIs
  <2>3. CASE l = k
    <3>1. w \in Writing(k) /\ w \notin Writing(k)'
      BY <1>2, <2>3 DEF Ended, Writing, Over
    <3>. QED  BY <1>0, <1>2, <2>2, <2>3, <3>1 DEF Leaves
  <2>4. CASE l # k
    <3>1. w \notin Writing(k) /\ w \notin Writing(k)'
      BY <1>2, <2>4 DEF Ended, Writing, Over
    <3>. QED  BY <1>0, <2>2, <2>4, <3>1 DEF Still
  <2>. QED  BY <2>3, <2>4
<1>3. ASSUME Mute, writer'[w].key = writer[w].key, writer'[w].stage \in Over <=> writer[w].stage \in Over
      PROVE  Noted' /\ Still(w, k)
  BY <1>0, <1>3 DEF Mute, Noted, Still, Writing
<1>4. CASE Fails(w)
  BY <1>0, <1>2, <1>4 DEF Fails, Over
<1>5. CASE Stores(w) \/ Swaps(w) \/ Repeats(w)
  BY <1>0, <1>2, <1>5 DEF Stores, Swaps, Repeats, Over, Hears
<1>6. CASE Finishes(w)
  BY <1>0, <1>2, <1>3, <1>6 DEF Finishes, To, Over
<1>7. CASE Goes(w) \/ Makes(w) \/ Lands(w) \/ Turns(w) \/ Claims(w)
  BY <1>0, <1>3, <1>7 DEF Goes, Makes, Lands, Turns, Claims, To, Ways, Over
<1>. QED
  BY <1>0, <1>1, <1>4, <1>5, <1>6, <1>7 DEF Walks, Shape

LEMMA NotesStep ==
  ASSUME Order, NEW w \in Version, Walks(w)
  PROVE  Noted' /\ \A k \in Key : Heard(k)' /\ Sole(k)'
<1>1. Noted'
  <2>1. CASE Mute
    BY <2>1 DEF Mute, Order, Noted
  <2>2. CASE ~Mute
    <3>1. Tidy(w)
      BY DEF Order
    <3>2. Key # {}
      BY <2>2, <3>1 DEF Walks, Shape, Begins, Goes, Makes, Fails, Stores, Lands, Swaps, Turns,
         Claims, Repeats, Finishes, Tidy
    <3>. QED  BY <3>2, Notes
  <2>. QED  BY <2>1, <2>2
<1>2. ASSUME NEW k \in Key  PROVE Heard(k)'
  <2>1. ASSUME NEW v \in Version, v \in may[k]  PROVE writer'[v].stage = "over" /\ writer'[v].key = k
    <3>1. writer[v].stage = "over" /\ writer[v].key = k /\ Moves(v)
      BY <2>1, S3Assumption DEF Order, Heard, Walks, Version
    <3>2. writer'[v].stage = "over" /\ writer'[v].key = k
      BY <3>1, Aside, Itself DEF Moves
    <3>. QED  BY <3>2
  <2>2. may'[k] \subseteq may[k] \/ (may'[k] \subseteq may[k] \cup {w} /\ Ended(w) /\ writer[w].key = k)
    BY Notes DEF Still, Joins, Leaves
  <2>3. \A v \in may[k] : v = None \/ v \in Version
    BY DEF Order, Noted
  <2>. QED  BY <2>1, <2>2, <2>3 DEF Heard, Ended
<1>3. ASSUME NEW k \in Key  PROVE Sole(k)'
  <2>1. Sole(k) /\ Writing(k) \subseteq Version /\ Writing(k)' \subseteq Version
    BY DEF Order, Writing
  <2>2. Deleting(k)' = Deleting(k)
    BY Notes
  <2>3. CASE Still(w, k)
    BY <2>1, <2>2, <2>3 DEF Still, Sole
  <2>4. CASE Joins(w, k)
    BY <2>1, <2>2, <2>4 DEF Joins, Sole, Quiet
  <2>5. CASE Leaves(w, k)
    BY <2>1, <2>2, <2>5 DEF Leaves, Sole
  <2>. QED  BY <2>3, <2>4, <2>5, Notes
<1>. QED  BY <1>1, <1>2, <1>3

\* What stands after the step stood before, or w made it.
LEMMA Stands ==
  ASSUME Order, NEW w \in Version, Walks(w)
  PROVE  /\ \A x \in Version \ {w} : Standing(x)' =>
              Standing(x) /\ rows'[x].key = rows[x].key /\ rows'[x].folder = rows[x].folder
         /\ Standing(w)' =>
              \/ Standing(w) /\ rows'[w].key = rows[w].key /\ rows'[w].folder = rows[w].folder
              \/ /\ writer[w].stage = "create" /\ ~Clash(writer[w].key, writer[w].folder)
                 /\ rows'[w].key = writer[w].key /\ rows'[w].folder = writer[w].folder
<1>1. ASSUME NEW x \in Version \ {w}, Standing(x)'
      PROVE  Standing(x) /\ rows'[x].key = rows[x].key /\ rows'[x].folder = rows[x].folder
  BY <1>1, Aside DEF Standing, Exists, Order, OldInv, Inv, Typed, RowState
<1>2. Tidy(w)
  BY DEF Order
<1>3. CASE Same(w) \/ Turns(w)
  BY <1>1, <1>3 DEF Same, Turns, Standing, Exists
<1>4. CASE Makes(w)
  BY <1>1, <1>4 DEF Makes
<1>5. CASE Fails(w)
  BY <1>1, <1>3, <1>5 DEF Fails, Standing, Exists
<1>6. CASE Stores(w) \/ Lands(w) \/ Finishes(w)
  BY <1>1, <1>2, <1>6 DEF Stores, Lands, Finishes, Read, Standing, Exists, Tidy
<1>. QED
  BY <1>3, <1>4, <1>5, <1>6 DEF Walks, Shape, Begins, Goes, Swaps, Claims, Repeats

LEMMA FoldersStep ==
  ASSUME Order, NEW w \in Version, Walks(w)
  PROVE  Lodged' /\ \A v \in Version : Placed(v)'
<1>0. /\ Lodged /\ \A v \in Version : Placed(v)
      /\ writer[w] \in WriterState /\ writer \in [Version -> WriterState]
      /\ folders \in [1..FolderMax -> {"none", "active", "trashed"}]
      /\ Tidy(w) /\ (writer[w].stage \in Early => rows[w].status = "none")
  BY DEF Order, OldInv, Inv, Typed, AllFit, Fit, StageFits
<1>1. \A x \in Version \ {w} : writer'[x] = writer[x]
  BY Aside
<1>2. \A v \in Version :
        \/ ~Standing(v)'
        \/ Standing(v) /\ rows'[v].folder = rows[v].folder
        \/ v = w /\ writer[w].stage = "create" /\ rows'[w].folder = writer[w].folder
  BY Stands
<1>3. CASE /\ folders' = folders /\ writer'[w].folder = writer[w].folder
           /\ writer[w].stage \in {"find", "mkdir"} => writer'[w].stage = writer[w].stage
  <2>1. ActiveFolders' = ActiveFolders
    BY <1>3 DEF ActiveFolders
  <2>2. writer'[w].stage = "mkdir" => writer[w].stage = "mkdir"
    BY <1>3, Itself
  <2>3. Lodged'
    BY <1>0, <1>1, <2>1, <2>2 DEF Lodged
  <2>4. writer'[w].stage \notin Over \cup Unhoused => writer[w].stage \notin Over \cup Unhoused
    BY <1>3 DEF Walks, Shape, Begins, Goes, To, Ways, Makes, Fails, Stores, Ended, Lands, Swaps,
       Turns, Claims, Repeats, Finishes, Over, Unhoused
  <2>5. ASSUME NEW v \in Version  PROVE Placed(v)'
    <3>1. writer[w].stage = "create" => writer[w].folder \in ActiveFolders
      BY <1>0 DEF Placed, Over, Unhoused
    <3>. QED  BY <1>0, <1>1, <1>2, <1>3, <2>1, <2>4, <3>1 DEF Placed
  <2>. QED  BY <2>3, <2>5
<1>4. CASE FindFolder(w)
  <2>1. /\ ActiveFolders' = ActiveFolders /\ writer[w].stage = "find"
        /\ \A x \in Version : writer[x].stage # "mkdir"
    BY <1>4 DEF FindFolder, ActiveFolders
  <2>2. \/ writer'[w].stage = "mkdir" /\ ActiveFolders = {}
        \/ writer'[w].stage = "create" /\ writer'[w].folder \in ActiveFolders
    <3>1. CASE FolderFound
      <4>1. PICK f \in ActiveFolders : writer' = [writer EXCEPT ![w].stage = "create", ![w].folder = f]
        BY <1>4, <3>1 DEF FindFolder, FolderFound
      <4>2. writer' = [writer EXCEPT ![w] = [writer[w] EXCEPT !.stage = "create", !.folder = f]]
        BY <1>0, <4>1
      <4>. QED  BY <1>0, <4>2 DEF WriterState
    <3>2. CASE ~FolderFound
      <4>1. writer' = [writer EXCEPT ![w].stage = "mkdir"]
        BY <1>4, <3>2 DEF FindFolder
      <4>. QED  BY <1>0, <3>2, <4>1 DEF FolderFound, WriterState
    <3>. QED  BY <3>1, <3>2
  <2>3. Lodged'
    BY <1>0, <1>1, <2>1, <2>2 DEF Lodged
  <2>4. ASSUME NEW v \in Version  PROVE Placed(v)'
    BY <1>0, <1>1, <1>2, <2>1, <2>2 DEF Placed, Unhoused
  <2>. QED  BY <2>3, <2>4
<1>5. CASE MakeFolder(w)
  <2>1. PICK f \in DOMAIN folders :
          /\ folders' = [folders EXCEPT ![f] = "active"]
          /\ writer' = [writer EXCEPT ![w].stage = "create", ![w].folder = f]
    BY <1>5 DEF MakeFolder
  <2>2. writer' = [writer EXCEPT ![w] = [writer[w] EXCEPT !.stage = "create", !.folder = f]]
    BY <1>0, <2>1
  <2>3. writer'[w].stage = "create" /\ writer'[w].folder = f /\ writer[w].stage = "mkdir"
    BY <1>0, <1>5, <2>2 DEF WriterState, MakeFolder
  <2>4. ActiveFolders = {} /\ ActiveFolders' = {f}
    BY <1>0, <2>1, <2>3 DEF ActiveFolders, Lodged
  <2>5. Lodged'
    BY <1>0, <1>1, <2>3, <2>4 DEF Lodged
  <2>6. ASSUME NEW v \in Version  PROVE Placed(v)'
    BY <1>0, <1>1, <1>2, <2>3, <2>4 DEF Placed
  <2>. QED  BY <2>5, <2>6
<1>. QED  BY <1>3, <1>4, <1>5 DEF Walks, Lodges

\* A row that stands at the key of a new one.
LEMMA Neighbour ==
  ASSUME Order, NEW w \in Version, NEW x \in Version, Standing(x), rows[x].key = writer[w].key,
         writer[w].stage \notin Over \cup Unhoused
  PROVE  x \in Active(writer[w].key, writer[w].folder)
<1>1. rows[x].folder = writer[w].folder
  BY DEF Order, Placed, Lodged
<1>. QED  BY <1>1 DEF Active, At, Standing

LEMMA ApartStep ==
  ASSUME Order, NEW w \in Version, Walks(w)
  PROVE  Apart' /\ Unique'
<1>1. Apart'
  <2>. SUFFICES ASSUME ~index, NEW x \in Version \ {w}, Busy(w)', Busy(x), writer'[w].key = writer[x].key
                PROVE  FALSE
    BY Aside DEF Apart, Busy, Walks, Order
  <2>1. CASE Busy(w) /\ writer'[w].key = writer[w].key
    BY <2>1 DEF Order, Apart
  <2>2. CASE Claims(w) \/ \E k \in Key : Begins(w, k)
    BY <2>2 DEF Claims, Begins, Alone, Writing, Busy
  <2>. QED  BY <2>1, <2>2, Itself
<1>2. ASSUME index, NEW v \in Version, NEW x \in Version,
             Standing(v)', Standing(x)', rows'[v].key = rows'[x].key
      PROVE  v = x
  <2>1. ASSUME NEW z \in Version \ {w}, Standing(w)', Standing(z)', rows'[w].key = rows'[z].key
        PROVE  FALSE
    <3>1. Standing(z) /\ rows'[z].key = rows[z].key
      BY <2>1, Stands
    <3>2. CASE Standing(w) /\ rows'[w].key = rows[w].key
      BY <1>2, <2>1, <3>1, <3>2 DEF Order, Unique
    <3>3. CASE /\ writer[w].stage = "create" /\ ~Clash(writer[w].key, writer[w].folder)
               /\ rows'[w].key = writer[w].key
      BY <1>2, <2>1, <3>1, <3>3, Neighbour DEF Clash, Over, Unhoused
    <3>. QED  BY <2>1, <3>2, <3>3, Stands
  <2>. QED  BY <1>2, <2>1, Stands DEF Order, Unique
<1>3. ASSUME index, NEW v \in Version  PROVE ~rows'[v].trashed /\ writer'[v].replaced = {}
  <2>1. ~rows[v].trashed /\ writer[v].replaced = {}
    BY <1>3 DEF Order, Unique
  <2>2. CASE v # w
    BY <1>3, <2>1, <2>2, Aside
  <2>3. CASE v = w
    <3>1. Makes(w) => Stale(w) = {}
      BY <1>3 DEF Makes, Clash, Stale
    <3>2. Claims(w) => Stale(w) = {}
      <4>. SUFFICES ASSUME Claims(w), NEW x \in Stale(w)  PROVE FALSE
        OBVIOUS
      <4>1. Standing(x) /\ rows[x].key = writer[w].key /\ x \in Version \ {w} /\ Standing(w)
        BY DEF Stale, Active, At, Standing, Claims
      <4>2. rows[w].key = writer[w].key
        BY <4>1 DEF Order, Tidy, Standing, Exists
      <4>. QED  BY <1>3, <4>1, <4>2 DEF Order, Unique
    <3>. QED
      BY <2>1, <2>3, <3>1, <3>2 DEF Walks, Shape, Begins, Goes, To, Makes, Fails, Stores, Ended,
         Lands, Swaps, Turns, Claims, Repeats, Finishes, Same, Read
  <2>. QED  BY <2>2, <2>3
<1>. QED  BY <1>1, <1>2, <1>3 DEF Unique, Walks

LEMMA TidyStep ==
  ASSUME Order, NEW w \in Version, Walks(w), NEW v \in Version
  PROVE  Tidy(v)'
<1>0. /\ \A x \in Version : Tidy(x) /\ Moves(x)
      /\ \A x \in Version : writer[x].stage # "idle" => writer'[x].key = writer[x].key
      /\ writer[w].stage \in Early => rows[w].status = "none"
      /\ v \in Version
  BY Aside, Itself DEF Order, Walks, OldInv, Inv, AllFit, Fit, StageFits
<1>1. ASSUME NEW x \in Version, writer[x].stage \notin Early
      PROVE  writer'[x].key = writer[x].key /\ writer'[x].stage \notin Early
  BY <1>0, <1>1 DEF Moves, Early
<1>2. CASE v # w
  <2>1. writer'[v] = writer[v]
    BY <1>2, Aside
  <2>2. \A x \in writer[v].replaced : writer'[x].key = writer[v].key /\ writer'[x].stage \notin Early
    <3>1. writer[v].replaced \subseteq Version
      BY DEF Order, OldInv, Inv, Typed, WriterState
    <3>. QED  BY <1>0, <1>1, <3>1 DEF Tidy
  <2>3. Busy(v) => ~rows'[v].trashed
    BY <1>0, <1>2, Aside DEF Tidy
  <2>. QED  BY <1>0, <1>2, <2>1, <2>2, <2>3, Aside DEF Tidy, Busy, Exists
<1>3. CASE v = w
  <2>1. \A x \in Stale(w) : writer'[x].key = writer[w].key /\ writer'[x].stage \notin Early
    <3>. SUFFICES ASSUME NEW x \in Stale(w)
                  PROVE  writer'[x].key = writer[w].key /\ writer'[x].stage \notin Early
      OBVIOUS
    <3>1. x \in Version /\ rows[x].status # "none" /\ rows[x].key = writer[w].key
      BY DEF Stale, Active, At, Exists
    <3>2. writer[x].stage \notin Early /\ writer[x].key = writer[w].key
      BY <1>0, <3>1 DEF Tidy, Order, OldInv, Inv, AllFit, Fit, StageFits
    <3>. QED  BY <1>1, <3>1, <3>2
  <2>2. \A x \in writer[w].replaced : writer'[x].key = writer[w].key /\ writer'[x].stage \notin Early
    <3>1. writer[w].replaced \subseteq Version
      BY DEF Order, OldInv, Inv, Typed, WriterState
    <3>. QED  BY <1>0, <1>1, <3>1 DEF Tidy
  <2>3. writer'[w].folder = writer[w].folder \/ rows'[w].status = "none"
    <3>1. ASSUME writer[w].stage \in {"find", "mkdir"}  PROVE rows'[w].status = "none"
      BY <1>0, <3>1 DEF Walks, Shape, Begins, Goes, Makes, Fails, Stores, Lands, Swaps, Turns,
         Claims, Repeats, Finishes, Same, Early
    <3>. QED  BY <3>1 DEF Walks, Lodges, FindFolder, MakeFolder
  <2>4. ASSUME rows'[w].status # "none"
        PROVE  rows'[w].key = writer'[w].key /\ rows'[w].folder = writer'[w].folder
    <3>1. CASE Same(w) \/ Turns(w)
      <4>1. rows[w].status # "none" /\ rows'[w].key = rows[w].key /\ rows'[w].folder = rows[w].folder
        BY <2>4, <3>1 DEF Same, Turns
      <4>. QED  BY <1>0, <2>3, <2>4, <4>1 DEF Tidy, Early
    <3>2. CASE Makes(w)
      BY <2>3, <2>4, <3>2 DEF Makes
    <3>3. CASE Stores(w) \/ Lands(w) \/ Finishes(w)
      BY <2>3, <2>4, <3>3 DEF Stores, Lands, Finishes, Read, To, Ended
    <3>. QED
      BY <2>4, <3>1, <3>2, <3>3 DEF Walks, Shape, Begins, Goes, Fails, Swaps, Claims, Repeats
  <2>5. rows'[w].status = "none" => ~rows'[w].trashed
    BY <1>0 DEF Walks, Shape, Begins, Goes, Makes, Fails, Stores, Lands, Swaps, Turns, Claims,
       Repeats, Finishes, Same, Read, Tidy
  <2>6. ASSUME Busy(w)'  PROVE ~rows'[w].trashed
    <3>1. CASE Busy(w)
      BY <1>0, <3>1 DEF Walks, Shape, Begins, Goes, Makes, Fails, Stores, Lands, Swaps, Turns,
         Claims, Repeats, Finishes, Same, Read, Tidy
    <3>2. ASSUME NEW k \in Key, Begins(w, k)  PROVE ~rows'[w].trashed
      BY <1>0, <3>2 DEF Begins, Same, Tidy, Early
    <3>3. CASE Claims(w)
      BY <3>3 DEF Claims, Same, Standing
    <3>. QED  BY <2>6, <3>1, <3>2, <3>3, Itself
  <2>7. writer'[w].stage # "idle" => writer'[w].key \in Key
    <3>1. CASE writer[w].stage # "idle"
      BY <1>0, <3>1 DEF Tidy
    <3>2. CASE writer[w].stage = "idle"
      BY <1>0, <3>2 DEF Walks, Shape, Begins, Goes, To, Ways, Makes, Fails, Stores, Lands, Swaps,
         Turns, Claims, Repeats, Finishes
    <3>. QED  BY <3>1, <3>2
  <2>8. writer'[w].stage = "replace" /\ writer'[w].path # "buffered" =>
          rows'[w].status \in {"complete", "none"}
    <3>1. CASE Goes(w)
      BY <1>0, <3>1 DEF Goes, To, Ways, Same, Tidy
    <3>2. CASE Makes(w) \/ Lands(w)
      BY <3>2 DEF Makes, Lands, Read
    <3>3. CASE Turns(w)
      BY <1>0, <3>3 DEF Turns, Tidy
    <3>4. CASE writer'[w].stage # "replace"
      BY <3>4
    <3>. QED
      BY <3>1, <3>2, <3>3, <3>4
      DEF Walks, Shape, Begins, Fails, Stores, Ended, Swaps, Claims, Repeats, Finishes, To
  <2>9. \A x \in writer'[w].replaced : writer'[x].key = writer'[w].key /\ writer'[x].stage \notin Early
    <3>1. CASE Makes(w) \/ Claims(w)
      BY <2>1, <3>1 DEF Makes, Claims
    <3>2. ASSUME NEW k \in Key, Begins(w, k)  PROVE writer'[w].replaced = {}
      BY <1>0, <3>2 DEF Begins, Tidy
    <3>3. CASE writer'[w].replaced = {}
      BY <3>3
    <3>4. CASE writer'[w].replaced = writer[w].replaced /\ writer'[w].key = writer[w].key
      BY <2>2, <3>4
    <3>. QED
      BY <3>1, <3>2, <3>3, <3>4
      DEF Walks, Shape, Goes, To, Fails, Stores, Ended, Lands, Swaps, Turns, Repeats, Finishes
  <2>10. writer'[w].stage = "idle" => writer'[w].replaced = {}
    BY <1>0 DEF Walks, Shape, Begins, Goes, To, Ways, Makes, Fails, Stores, Ended, Lands, Swaps,
       Turns, Claims, Repeats, Finishes, Tidy
  <2>. QED  BY <1>3, <2>4, <2>5, <2>6, <2>7, <2>8, <2>9, <2>10 DEF Tidy, Exists, Busy
<1>. QED  BY <1>2, <1>3

LEMMA MarkedStep ==
  ASSUME Order, NEW w \in Version, Walks(w), NEW d \in Deleter
  PROVE  Marked(d)'
<1>1. deleter' = deleter /\ Marked(d)
  BY DEF Order, Walks
<1>2. ASSUME NEW v \in Version, writer[v].stage \notin Early
      PROVE  /\ writer'[v].key = writer[v].key /\ writer'[v].folder = writer[v].folder
             /\ writer'[v].stage \notin Early
  <2>1. CASE v # w
    BY <1>2, <2>1, Aside
  <2>2. CASE v = w
    <3>1. ~FindFolder(w) /\ ~MakeFolder(w)
      BY <1>2, <2>2 DEF FindFolder, MakeFolder, Early
    <3>2. Moves(w)
      BY DEF Walks
    <3>. QED  BY <1>2, <2>2, <3>1, <3>2, Itself DEF Walks, Lodges, Moves, Early
  <2>. QED  BY <2>1, <2>2
<1>. QED  BY <1>1, <1>2 DEF Marked

\* The shapes of the steps of a delete.
Others(d) ==
  /\ index' = index /\ writer' = writer
  /\ \A x \in Deleter \ {d} : deleter'[x] = deleter[x]

Misses(d, k) ==
  /\ deleter[d].stage = "idle" /\ deleter'[d].stage = "over" /\ Visible(k) = {}
  /\ rows' = rows /\ folders' = folders /\ mixed' = mixed
  /\ may' = [may EXCEPT ![k] = IF Quiet(k) /\ Waiting(k) = {} THEN {None} ELSE @ \cup {None}]

Finds(d, k) ==
  /\ deleter[d].stage = "idle" /\ rows' = rows /\ folders' = folders
  /\ deleter'[d].stage = "purge" /\ deleter'[d].key = k /\ deleter'[d].target \in Visible(k)
  /\ deleter'[d].folder = rows[deleter'[d].target].folder
  /\ may' = may /\ mixed' = [mixed EXCEPT ![k] = ~Quiet(k)]

Aimed(d) ==
  /\ deleter'[d].key = deleter[d].key /\ deleter'[d].target = deleter[d].target
  /\ deleter'[d].folder = deleter[d].folder

Passes(d) ==
  /\ rows' = rows /\ folders' = folders /\ Mute /\ Aimed(d)
  /\ \/ deleter[d].stage = "purge" /\ deleter'[d].stage = "delete"
     \/ /\ deleter[d].stage = "purge" /\ deleter'[d].stage = "cleanup"
        /\ deleter[d].target \notin Active(deleter[d].key, deleter[d].folder)
     \/ deleter[d].stage = "cleanup" /\ deleter'[d].stage = "rmdir"

Drops(d) ==
  /\ deleter[d].stage = "delete" /\ deleter'[d].stage = "cleanup" /\ Aimed(d)
  /\ folders' = folders /\ Mute /\ Exists(deleter[d].target)
  /\ \A x \in Version : IF x = deleter[d].target THEN rows'[x] = NoRow ELSE rows'[x] = rows[x]

Answers(d) ==
  /\ deleter[d].stage \in {"cleanup", "rmdir"} /\ deleter'[d].stage = "over"
  /\ rows' = rows /\ Answer(d, deleter[d].key, TRUE, None)
  /\ \/ folders' = folders
     \/ /\ deleter[d].stage = "rmdir"
        /\ \A f \in DOMAIN folders \ {deleter[d].folder} : folders'[f] = folders[f]
        /\ DOMAIN folders' = DOMAIN folders
        /\ folders'[deleter[d].folder] # "active"

Deletes(d) ==
  /\ Others(d)
  /\ \/ \E k \in Key : Misses(d, k) \/ Finds(d, k)
     \/ Passes(d) \/ Drops(d) \/ Answers(d)

LEMMA DeleteShape ==
  ASSUME Order, NEW d \in Deleter,
         \/ \E k \in Key : FindObject(d, k)
         \/ Purge(d) \/ HardDelete(d) \/ LookEmpty(d) \/ RemoveFolder(d)
  PROVE  Deletes(d)
<1>0. /\ deleter \in [Deleter -> DeleterState] /\ deleter[d] \in DeleterState
      /\ rows \in [Version -> RowState]
      /\ folders \in [1..FolderMax -> {"none", "active", "trashed"}]
      /\ index' = index /\ writer' = writer
  BY DEF Order, OldInv, Inv, Typed, FindObject, Purge, HardDelete, LookEmpty, RemoveFolder
<1>1. ASSUME NEW s \in {"delete", "cleanup", "rmdir", "over"},
             deleter' = [deleter EXCEPT ![d].stage = s]
      PROVE  Others(d) /\ Aimed(d) /\ deleter'[d].stage = s
  <2>1. deleter' = [deleter EXCEPT ![d] = [deleter[d] EXCEPT !.stage = s]]
    BY <1>0, <1>1
  <2>2. deleter'[d] = [deleter[d] EXCEPT !.stage = s]
        /\ \A x \in Deleter \ {d} : deleter'[x] = deleter[x]
    BY <1>0, <2>1
  <2>. QED  BY <1>0, <2>2 DEF DeleterState, Others, Aimed
<1>2. ASSUME NEW k \in Key, FindObject(d, k)  PROVE Deletes(d)
  <2>1. CASE Visible(k) = {}
    <3>1. deleter' = [deleter EXCEPT ![d].stage = "over"]
      BY <1>2, <2>1 DEF FindObject
    <3>2. Others(d) /\ deleter'[d].stage = "over"
      BY <1>1, <3>1
    <3>. QED  BY <1>2, <2>1, <3>2 DEF FindObject, Misses, Deletes
  <2>2. CASE Visible(k) # {}
    <3>1. PICK v \in Visible(k) :
            deleter' = [deleter EXCEPT ![d] = [stage |-> "purge", key |-> k, target |-> v,
                                               folder |-> rows[v].folder]]
      BY <1>2, <2>2 DEF FindObject
    <3>2. /\ deleter'[d] = [stage |-> "purge", key |-> k, target |-> v, folder |-> rows[v].folder]
          /\ \A x \in Deleter \ {d} : deleter'[x] = deleter[x]
      BY <1>0, <3>1
    <3>3. deleter[d].stage = "idle" /\ rows' = rows /\ folders' = folders /\ may' = may
          /\ mixed' = [mixed EXCEPT ![k] = ~Quiet(k)]
      BY <1>2, <2>2 DEF FindObject
    <3>4. Finds(d, k)
      BY <3>1, <3>2, <3>3 DEF Finds
    <3>. QED  BY <1>0, <3>2, <3>4 DEF Others, Deletes
  <2>. QED  BY <2>1, <2>2
<1>3. CASE Purge(d)
  <2>1. /\ deleter[d].stage = "purge" /\ rows' = rows /\ folders' = folders /\ Mute
        /\ \/ deleter' = [deleter EXCEPT ![d].stage = "delete"]
           \/ /\ deleter' = [deleter EXCEPT ![d].stage = "cleanup"]
              /\ deleter[d].target \notin Active(deleter[d].key, deleter[d].folder)
    BY <1>3 DEF Purge, Mute
  <2>. QED  BY <1>1, <2>1 DEF Passes, Deletes
<1>4. CASE HardDelete(d)
  <2>1. /\ deleter[d].stage = "delete" /\ Exists(deleter[d].target) /\ folders' = folders /\ Mute
        /\ rows' = [rows EXCEPT ![deleter[d].target] = NoRow]
        /\ deleter' = [deleter EXCEPT ![d].stage = "cleanup"]
    BY <1>4 DEF HardDelete, Mute
  <2>2. \A x \in Version : IF x = deleter[d].target THEN rows'[x] = NoRow ELSE rows'[x] = rows[x]
    BY <1>0, <2>1
  <2>. QED  BY <1>1, <2>1, <2>2 DEF Drops, Deletes
<1>5. CASE LookEmpty(d)
  <2>1. /\ deleter[d].stage = "cleanup" /\ rows' = rows /\ folders' = folders
        /\ \/ deleter' = [deleter EXCEPT ![d].stage = "rmdir"] /\ Mute
           \/ Answered(d)
    BY <1>5 DEF LookEmpty, Mute
  <2>. QED  BY <1>1, <2>1 DEF Passes, Answers, Answered, Deletes
<1>6. CASE RemoveFolder(d)
  <2>1. /\ deleter[d].stage = "rmdir" /\ rows' = rows /\ Answered(d)
        /\ folders' = [folders EXCEPT ![deleter[d].folder] = "trashed"]
    BY <1>6 DEF RemoveFolder
  <2>2. deleter[d].folder \in DOMAIN folders
    BY <2>1 DEF Order, OldInv, Vacated, HasFolder
  <2>3. /\ \A f \in DOMAIN folders \ {deleter[d].folder} : folders'[f] = folders[f]
        /\ DOMAIN folders' = DOMAIN folders
        /\ folders'[deleter[d].folder] # "active"
    BY <1>0, <2>1, <2>2
  <2>4. Others(d) /\ Answer(d, deleter[d].key, TRUE, None) /\ deleter'[d].stage = "over"
    BY <1>1, <2>1 DEF Answered
  <2>5. Answers(d)
    BY <2>1, <2>3, <2>4 DEF Answers
  <2>. QED  BY <2>4, <2>5 DEF Deletes
<1>. QED  BY <1>2, <1>3, <1>4, <1>5, <1>6

\* The rows only lose a target.
LEMMA Spared ==
  ASSUME Order, NEW d \in Deleter, Deletes(d), NEW x \in Version
  PROVE  \/ rows'[x] = rows[x]
         \/ Drops(d) /\ x = deleter[d].target /\ rows'[x].status = "none" /\ ~rows'[x].trashed
<1>1. CASE Drops(d)
  <2>1. NoRow.status = "none" /\ ~NoRow.trashed
    BY DEF NoRow
  <2>. QED  BY <1>1, <2>1 DEF Drops
<1>2. CASE ~Drops(d)
  <2>1. rows' = rows
    BY <1>2 DEF Deletes, Misses, Finds, Passes, Answers
  <2>. QED  BY <2>1
<1>. QED  BY <1>1, <1>2

\* A key is as it was, or a delete of it begins, goes on or ends.
Rests(d, k) ==
  /\ may'[k] = may[k] /\ (mixed'[k] <=> mixed[k])
  /\ \A x \in Deleter : x \in Deleting(k)' <=> x \in Deleting(k)
  /\ Answers(d) => deleter[d].key # k

Asks(d, k) ==
  /\ Misses(d, k) /\ (mixed'[k] <=> mixed[k])
  /\ \/ may'[k] = may[k] \cup {None}
     \/ may'[k] = {None} /\ Quiet(k) /\ Waiting(k) = {}
  /\ \A x \in Deleter : x \in Deleting(k)' <=> x \in Deleting(k)

Opens(d, k) ==
  /\ Finds(d, k) /\ may'[k] = may[k] /\ (mixed'[k] <=> ~Quiet(k))
  /\ d \notin Deleting(k) /\ \A x \in Deleter : x \in Deleting(k)' <=> x = d \/ x \in Deleting(k)

Closes(d, k) ==
  /\ Answers(d) /\ deleter[d].key = k
  /\ \/ may'[k] = may[k] \cup {None}
     \/ may'[k] = {None} /\ ~mixed[k]
  /\ mixed'[k] <=> mixed[k] /\ (Writing(k) \cup Deleting(k)) \ {d} # {}
  /\ d \in Deleting(k) /\ \A x \in Deleter : x \in Deleting(k)' <=> x # d /\ x \in Deleting(k)

LEMMA DeleteNotes ==
  ASSUME Order, NEW d \in Deleter, Deletes(d), NEW k \in Key
  PROVE  /\ Noted' /\ Writing(k)' = Writing(k)
         /\ Rests(d, k) \/ Asks(d, k) \/ Opens(d, k) \/ Closes(d, k)
<1>0. /\ Noted /\ Marked(d) /\ Others(d) /\ Writing(k)' = Writing(k)
      /\ \A x \in Deleter \ {d} : x \in Deleting(k)' <=> x \in Deleting(k)
  BY DEF Order, Deletes, Others, Writing, Deleting
<1>1. ASSUME NEW l \in Key, Misses(d, l)  PROVE Noted' /\ (Rests(d, k) \/ Asks(d, k))
  <2>1. /\ mixed' = mixed
        /\ may' = [may EXCEPT ![l] = IF Quiet(l) /\ Waiting(l) = {} THEN {None} ELSE may[l] \cup {None}]
    BY <1>0, <1>1 DEF Misses, Noted
  <2>2. Noted'
    BY <1>0, <2>1 DEF Noted
  <2>3. d \notin Deleting(k) /\ d \notin Deleting(k)'
    BY <1>1 DEF Misses, Deleting, Over
  <2>4. CASE l = k
    <3>1. \/ may'[k] = may[k] \cup {None}
          \/ may'[k] = {None} /\ Quiet(k) /\ Waiting(k) = {}
      BY <1>0, <2>1, <2>4 DEF Noted
    <3>. QED  BY <1>0, <1>1, <2>1, <2>2, <2>3, <2>4, <3>1 DEF Asks
  <2>5. CASE l # k
    <3>1. may'[k] = may[k]
      BY <1>0, <2>1, <2>5 DEF Noted
    <3>. QED  BY <1>0, <1>1, <2>1, <2>2, <2>3, <3>1 DEF Rests, Misses, Answers
  <2>. QED  BY <2>4, <2>5
<1>2. ASSUME NEW l \in Key, Finds(d, l)  PROVE Noted' /\ (Rests(d, k) \/ Opens(d, k))
  <2>1. may' = may /\ mixed' = [mixed EXCEPT ![l] = ~Quiet(l)]
    BY <1>2 DEF Finds
  <2>2. Noted'
    BY <1>0, <2>1 DEF Noted
  <2>3. d \notin Deleting(k) /\ (d \in Deleting(k)' <=> l = k)
    BY <1>2 DEF Finds, Deleting, Over
  <2>4. CASE l = k
    <3>1. mixed'[k] <=> ~Quiet(k)
      BY <1>0, <2>1, <2>4 DEF Noted
    <3>. QED  BY <1>0, <1>2, <2>1, <2>2, <2>3, <2>4, <3>1 DEF Opens
  <2>5. CASE l # k
    <3>1. mixed'[k] <=> mixed[k]
      BY <1>0, <2>1, <2>5 DEF Noted
    <3>2. ~Answers(d)
      BY <1>2 DEF Finds, Answers
    <3>. QED  BY <1>0, <2>1, <2>2, <2>3, <2>5, <3>1, <3>2 DEF Rests
  <2>. QED  BY <2>4, <2>5
<1>3. CASE Passes(d) \/ Drops(d)
  <2>1. Mute /\ (d \in Deleting(k)' <=> d \in Deleting(k))
    BY <1>3 DEF Passes, Drops, Aimed, Deleting, Over
  <2>2. ~Answers(d)
    BY <1>3 DEF Passes, Drops, Answers
  <2>. QED  BY <1>0, <2>1, <2>2 DEF Mute, Noted, Rests
<1>4. CASE Answers(d)
  <2>. DEFINE l == deleter[d].key
  <2>1. l \in Key /\ deleter[d].stage \notin Over
    BY <1>0, <1>4 DEF Answers, Marked, Over
  <2>2. /\ Noted' /\ \A j \in Key \ {l} : may'[j] = may[j] /\ mixed'[j] = mixed[j]
        /\ \/ may'[l] = may[l] \cup {None}
           \/ may'[l] = {None} /\ ~mixed[l]
        /\ mixed'[l] <=> mixed[l] /\ (Writing(l) \cup Deleting(l)) \ {d} # {}
    <3>1. \E ok \in BOOLEAN : Answer(d, l, ok, None)
      BY <1>4 DEF Answers
    <3>. HIDE DEF l
    <3>. QED  BY <1>0, <2>1, <3>1, AnswerIs
  <2>3. d \notin Deleting(k)' /\ (d \in Deleting(k) <=> l = k)
    BY <1>4, <2>1 DEF Answers, Deleting, Over
  <2>4. CASE l = k
    BY <1>0, <1>4, <2>2, <2>3, <2>4 DEF Closes
  <2>5. CASE l # k
    BY <1>0, <1>4, <2>1, <2>2, <2>3, <2>5 DEF Rests
  <2>. QED  BY <2>4, <2>5
<1>. QED  BY <1>0, <1>1, <1>2, <1>3, <1>4 DEF Deletes

\* What a delete found.
LEMMA VisibleShows ==
  ASSUME Order, NEW k \in Key
  PROVE  Visible(k) = Shows(k)
<1>1. ASSUME NEW v \in Visible(k)  PROVE v \in Shows(k)
  BY DEF Visible, Active, At, Shows, Standing
<1>2. ASSUME NEW v \in Shows(k)  PROVE v \in Visible(k)
  <2>1. v \in Version /\ Standing(v) /\ rows[v].key = k /\ rows[v].status = "complete"
    BY DEF Shows
  <2>2. rows[v].folder \in ActiveFolders
    BY <2>1 DEF Order, Placed
  <2>. QED  BY <2>1, <2>2 DEF Visible, Active, At, Standing
<1>. QED  BY <1>1, <1>2

LEMMA DeleteOrder ==
  ASSUME Order, NEW d \in Deleter, Deletes(d)
  PROVE  /\ Noted' /\ Apart' /\ Unique' /\ Lodged'
         /\ \A v \in Version : Tidy(v)' /\ Placed(v)'
         /\ \A x \in Deleter : Marked(x)'
         /\ \A k \in Key : Heard(k)' /\ Sole(k)'
<1>0. /\ Others(d) /\ index' = index /\ writer' = writer
      /\ \A x \in Version : \/ rows'[x] = rows[x]
                            \/ rows'[x].status = "none" /\ ~rows'[x].trashed
  BY Spared DEF Deletes, Others
<1>1. Apart' /\ Unique'
  <2>1. Apart'
    BY <1>0 DEF Order, Apart, Busy
  <2>2. Unique'
    BY <1>0 DEF Order, Unique, Standing, Exists
  <2>. QED  BY <2>1, <2>2
<1>2. ASSUME NEW v \in Version  PROVE Tidy(v)'
  BY <1>0 DEF Order, Tidy, Busy
<1>3. Lodged' /\ \A v \in Version : Placed(v)'
  <2>1. CASE folders' = folders
    <3>1. ActiveFolders' = ActiveFolders
      BY <2>1 DEF ActiveFolders
    <3>2. Lodged'
      BY <1>0, <3>1 DEF Order, Lodged
    <3>. QED  BY <1>0, <3>1, <3>2 DEF Order, Placed, Standing, Exists
  <2>2. CASE folders' # folders
    <3>. DEFINE f == deleter[d].folder
    <3>1. /\ deleter[d].stage = "rmdir" /\ rows' = rows
          /\ \A g \in DOMAIN folders \ {f} : folders'[g] = folders[g]
          /\ DOMAIN folders' = DOMAIN folders /\ folders'[f] # "active"
      BY <2>2 DEF Deletes, Misses, Finds, Passes, Drops, Answers
    <3>2. IsEmpty(f) /\ Holding(f) = {}
      BY <3>1 DEF Order, OldInv, Vacated, Emptied
    <3>3. ActiveFolders' = ActiveFolders \ {f}
      BY <3>1 DEF ActiveFolders
    <3>. HIDE DEF f
    <3>4. Lodged'
      BY <1>0, <3>3 DEF Order, Lodged
    <3>5. ASSUME NEW v \in Version  PROVE Placed(v)'
      <4>1. writer[v].stage \notin Over => writer[v].folder # f
        BY <3>2 DEF Holding
      <4>2. Standing(v) => rows[v].folder # f
        BY <3>2 DEF IsEmpty, Standing
      <4>3. Standing(v)' <=> Standing(v)
        BY <3>1 DEF Standing, Exists
      <4>. QED  BY <1>0, <3>1, <3>3, <4>1, <4>2, <4>3 DEF Order, Placed
    <3>. QED  BY <3>4, <3>5
  <2>. QED  BY <2>1, <2>2
<1>4. ASSUME NEW x \in Deleter  PROVE Marked(x)'
  <2>1. CASE x # d
    BY <1>0, <2>1 DEF Order, Marked, Others
  <2>2. ASSUME NEW k \in Key, Finds(d, k)  PROVE Marked(d)'
    <3>. DEFINE v == deleter'[d].target
    <3>1. v \in Shows(k) /\ deleter'[d].key = k /\ deleter'[d].folder = rows[v].folder
      BY <2>2, VisibleShows DEF Finds
    <3>. HIDE DEF v
    <3>2. v \in Version /\ rows[v].status # "none" /\ rows[v].key = k
      BY <3>1 DEF Shows
    <3>3. Tidy(v) /\ Fit(v)
      BY <3>2 DEF Order, OldInv, Inv, AllFit
    <3>4. writer[v].key = k /\ writer[v].folder = rows[v].folder /\ writer[v].stage \notin Early
      BY <3>2, <3>3 DEF Tidy, Fit, StageFits
    <3>. QED  BY <1>0, <3>1, <3>2, <3>4 DEF Marked, v
  <2>3. CASE x = d /\ (Passes(d) \/ Drops(d))
    <3>1. deleter[d].stage \notin Over /\ Aimed(d)
      BY <2>3 DEF Passes, Drops, Over
    <3>. QED  BY <1>0, <2>3, <3>1 DEF Order, Marked, Aimed
  <2>4. CASE x = d /\ deleter'[d].stage = "over"
    BY <2>4 DEF Marked, Over
  <2>. QED  BY <2>1, <2>2, <2>3, <2>4 DEF Deletes, Misses, Answers
<1>5. ASSUME NEW k \in Key  PROVE Noted' /\ Heard(k)' /\ Sole(k)'
  <2>1. Heard(k) /\ Sole(k) /\ Deleting(k) \subseteq Deleter /\ Deleting(k)' \subseteq Deleter
        /\ Writing(k) \subseteq Version
    BY DEF Order, Deleting, Writing
  <2>2. Noted' /\ Writing(k)' = Writing(k)
    BY DeleteNotes
  <2>3. Heard(k)'
    <3>1. may'[k] \subseteq may[k] \cup {None}
      BY DeleteNotes DEF Rests, Asks, Opens, Closes
    <3>. QED  BY <1>0, <2>1, <3>1 DEF Heard
  <2>4. CASE Rests(d, k) \/ Asks(d, k)
    BY <2>1, <2>2, <2>3, <2>4 DEF Rests, Asks, Sole
  <2>5. CASE Opens(d, k)
    BY <2>1, <2>2, <2>3, <2>5 DEF Opens, Sole, Quiet
  <2>6. CASE Closes(d, k)
    BY <2>1, <2>2, <2>3, <2>6 DEF Closes, Sole
  <2>. QED  BY <2>4, <2>5, <2>6, DeleteNotes
<1>6. Noted'
  <2>1. CASE Key = {}
    BY <2>1, <1>0
    DEF Order, Noted, Deletes, Misses, Finds, Passes, Drops, Mute, Answers, Marked, Over
  <2>. QED  BY <1>5, <2>1
<1>. QED  BY <1>1, <1>2, <1>3, <1>4, <1>5, <1>6

LEMMA OrderInit == Orderly /\ Init => Order
<1>. SUFFICES ASSUME Orderly, Init  PROVE Order
  OBVIOUS
<1>1. OldInv
  BY InitFits, VacatedInit DEF OldInv
<1>2. /\ \A v \in Version : /\ rows[v] = NoRow /\ writer[v].stage = "idle" /\ writer[v].replaced = {}
                            /\ rows[v].status = "none" /\ ~rows[v].trashed
      /\ \A d \in Deleter : deleter[d].stage = "idle"
      /\ may = [k \in Key |-> {None}] /\ mixed = [k \in Key |-> FALSE]
      /\ ActiveFolders = {}
  BY DEF Init, NoRow, ActiveFolders
<1>3. Noted /\ Lodged
  BY <1>2 DEF Noted, Lodged
<1>4. Apart /\ Unique
  BY <1>2 DEF Apart, Unique, Busy, Over, Standing, Exists
<1>5. \A v \in Version : Tidy(v) /\ Placed(v)
  BY <1>2 DEF Tidy, Placed, Busy, Over, Standing, Exists
<1>6. \A d \in Deleter : Marked(d)
  BY <1>2 DEF Marked, Over
<1>7. \A k \in Key : Heard(k) /\ Sole(k)
  BY <1>2 DEF Heard, Sole, Writing, Deleting, Over
<1>. QED  BY <1>1, <1>3, <1>4, <1>5, <1>6, <1>7 DEF Order

LEMMA OrderNext ==
  ASSUME Order, [Next]_vars
  PROVE  Order'
<1>1. OldInv'
  BY NextFits, NextVacates DEF Order, OldInv, Orderly
<1>2. ASSUME NEW w \in Version, Walks(w)  PROVE Order'
  BY <1>1, <1>2, NotesStep, FoldersStep, ApartStep, TidyStep, MarkedStep DEF Order
<1>3. ASSUME NEW d \in Deleter, Deletes(d)  PROVE Order'
  BY <1>1, <1>3, DeleteOrder DEF Order
<1>4. CASE UNCHANGED vars
  <2>1. /\ Noted' /\ Lodged' /\ Apart' /\ Unique'
    BY <1>4 DEF vars, Order, Noted, Lodged, ActiveFolders, Apart, Unique, Busy, Standing, Exists
  <2>2. \A v \in Version : Tidy(v)' /\ Placed(v)'
    BY <1>4 DEF vars, Order, Tidy, Placed, ActiveFolders, Busy, Standing, Exists
  <2>3. \A d \in Deleter : Marked(d)'
    BY <1>4 DEF vars, Order, Marked
  <2>4. \A k \in Key : Heard(k)' /\ Sole(k)'
    BY <1>4 DEF vars, Order, Heard, Sole, Writing, Deleting
  <2>. QED  BY <1>1, <2>1, <2>2, <2>3, <2>4 DEF Order
<1>5. CASE Next
  <2>1. (\E w \in Version : Walks(w)) \/ (\E d \in Deleter : Deletes(d))
    BY <1>5, Steps, DeleteShape DEF Next, Version
  <2>. QED  BY <1>2, <1>3, <2>1
<1>. QED  BY <1>4, <1>5

-----------------------------------------------------------------------------
(* What the answers of a key tell of what stands there.                     *)

Clearing(k) == {d \in Deleter : deleter[d].key = k /\ deleter[d].stage \in {"cleanup", "rmdir"}}

\* A request that runs knows what its version is to replace.
Covers(w, k) ==
  writer[w].key = k /\ (~index \/ ~mixed[k]) =>
    /\ writer[w].stage \in {"upload", "report", "complete", "replace", "completing"} =>
         Holds(k) \ {w} \subseteq writer[w].replaced
    /\ writer[w].stage = "retry" => Holds(k) \subseteq {w}

\* The version of a request that is not yet answered may be deleted.
Missed(w, k) ==
  writer[w].key = k /\ writer[w].stage \in {"replace", "retry"} /\ rows[w].status = "none" =>
    (mixed[k] /\ None \in may[k]) \/ Clearing(k) # {}

Deferred(v) == writer[v].path = "buffered" /\ rows[v].status # "complete" /\ ~rows[v].trashed

Shown(k) ==
  \/ Shows(k) # {} \/ None \in may[k] \/ Clearing(k) # {}
  \/ \E v \in may[k] \cap Version : Deferred(v)

Known(k) == Holds(k) \subseteq may[k] \cup Writing(k)

Single(k) == \A v, x \in Holds(k) : v # x => writer[v].stage = "replace" \/ writer[x].stage = "replace"

Cleared(d, k) ==
  d \in Deleting(k) /\ ~mixed[k] =>
    /\ Holds(k) \subseteq {deleter[d].target}
    /\ d \in Clearing(k) => Holds(k) = {}

Tale(k) ==
  /\ Shown(k) /\ Known(k) /\ Single(k)
  /\ \A w \in Version : Covers(w, k) /\ Missed(w, k)
  /\ \A d \in Deleter : Cleared(d, k)

\* A key that a step is not about.
LEMMA Elsewhere ==
  ASSUME Order, NEW w \in Version, Walks(w), NEW k \in Key, writer'[w].key # k
  PROVE  /\ \A x \in Version : (x \in Holds(k)' <=> x \in Holds(k)) /\ (x \in Shows(k)' <=> x \in Shows(k))
         /\ Still(w, k)
<1>1. Still(w, k)
  BY Notes DEF Joins, Leaves, Begins, Ended
<1>2. Tidy(w) /\ Tidy(w)' /\ (writer[w].stage \in Early => rows[w].status = "none")
  BY TidyStep DEF Order, OldInv, Inv, AllFit, Fit, StageFits
<1>3. writer[w].stage # "idle" => writer[w].key # k
  BY Itself
<1>4. w \notin Holds(k) /\ w \notin Holds(k)' /\ w \notin Shows(k) /\ w \notin Shows(k)'
  BY <1>2, <1>3 DEF Tidy, Holds, Shows, Standing, Exists, Early
<1>5. ASSUME NEW x \in Version \ {w}
      PROVE  (x \in Holds(k)' <=> x \in Holds(k)) /\ (x \in Shows(k)' <=> x \in Shows(k))
  <2>1. CASE Same(x)
    BY <2>1 DEF Same, Holds, Shows, Standing, Exists
  <2>2. CASE ~Same(x)
    <3>1. /\ Exists(x) /\ writer[x].key = writer[w].key /\ Tidy(x) /\ rows'[x].key = rows[x].key
          /\ writer[w].stage # "idle"
      BY <2>2, Aside DEF Same, Order, Busy, Over
    <3>2. rows[x].key # k /\ rows'[x].key # k
      BY <1>3, <3>1 DEF Tidy, Exists
    <3>. QED  BY <3>2 DEF Holds, Shows
  <2>. QED  BY <2>1, <2>2
<1>. QED  BY <1>1, <1>4, <1>5

LEMMA TaleElsewhere ==
  ASSUME Order, NEW w \in Version, Walks(w), NEW k \in Key, Tale(k), writer'[w].key # k
  PROVE  Tale(k)'
<1>0. /\ Holds(k)' = Holds(k) /\ Shows(k)' = Shows(k) /\ Still(w, k)
      /\ Holds(k) \subseteq Version
      /\ deleter' = deleter /\ index' = index /\ Deleting(k)' = Deleting(k) /\ Clearing(k)' = Clearing(k)
  BY Elsewhere, Notes DEF Holds, Shows, Walks, Clearing
<1>1. /\ \A x \in Version \ {w} : writer'[x] = writer[x] /\ rows'[x].status = rows[x].status
      /\ \A x \in Version \ {w} : writer[x].key = k => rows'[x].trashed = rows[x].trashed
  <2>1. writer[w].stage # "idle" => writer[w].key # k
    BY Itself
  <2>. QED  BY <2>1, Aside DEF Busy, Over
<1>2. may'[k] = may[k] /\ (mixed'[k] <=> mixed[k]) /\ Writing(k)' = Writing(k)
  BY <1>0 DEF Still, Writing
<1>3. w \notin may[k]
  BY S3Assumption, Itself DEF Order, Heard, Version
<1>4. \A v \in may[k] \cap Version : writer[v].key = k
  BY S3Assumption DEF Order, Heard, Version
<1>5. Shown(k)'
  BY <1>0, <1>1, <1>2, <1>3, <1>4 DEF Tale, Shown, Deferred
<1>6. Known(k)'
  BY <1>0, <1>2 DEF Tale, Known
<1>7. Single(k)'
  <2>1. w \notin Holds(k)
    <3>1. Tidy(w)' /\ w \notin Holds(k)'
      BY <1>0, TidyStep DEF Tidy, Holds, Standing, Exists
    <3>. QED  BY <1>0, <3>1
  <2>. QED  BY <1>0, <1>1, <2>1 DEF Tale, Single
<1>8. ASSUME NEW x \in Version  PROVE Covers(x, k)' /\ Missed(x, k)'
  <2>1. CASE x = w
    BY <2>1 DEF Covers, Missed
  <2>2. CASE x # w
    BY <1>0, <1>1, <1>2, <2>2 DEF Tale, Covers, Missed
  <2>. QED  BY <2>1, <2>2
<1>9. ASSUME NEW d \in Deleter  PROVE Cleared(d, k)'
  BY <1>0, <1>2 DEF Tale, Cleared
<1>. QED  BY <1>5, <1>6, <1>7, <1>8, <1>9 DEF Tale

\* The key that a step is about.
LEMMA Here ==
  ASSUME Order, NEW w \in Version, Walks(w), NEW k \in Key, writer'[w].key = k
  PROVE  /\ \A x \in Version \ {w} : x \in Holds(k)' => x \in Holds(k)
         /\ w \in Holds(k)' =>
              \/ w \in Holds(k)
              \/ Busy(w) /\ writer[w].key = k /\ (Makes(w) \/ Stores(w) \/ Lands(w) \/ Finishes(w))
         /\ Stores(w) => Holds(k)' \subseteq {w}
         /\ Swaps(w) \/ Finishes(w) => Holds(k)' \subseteq (Holds(k) \ writer[w].replaced) \cup {w}
         /\ \/ Shows(k) \subseteq Shows(k)'
            \/ Stores(w) \/ Swaps(w) \/ Finishes(w)
<1>0. /\ Tidy(w) /\ Tidy(w)' /\ (writer[w].stage \in Early => rows[w].status = "none")
  BY TidyStep DEF Order, OldInv, Inv, AllFit, Fit, StageFits
<1>1. ASSUME NEW x \in Version \ {w}, x \in Holds(k)'  PROVE x \in Holds(k)
  BY <1>1, Aside DEF Holds, Standing, Exists
<1>2. ASSUME w \in Holds(k)', w \notin Holds(k)
      PROVE  Busy(w) /\ writer[w].key = k /\ (Makes(w) \/ Stores(w) \/ Lands(w) \/ Finishes(w))
  <2>1. CASE Same(w) \/ Turns(w)
    BY <1>2, <2>1 DEF Same, Turns, Holds, Standing, Exists
  <2>2. CASE Makes(w) \/ Stores(w) \/ Lands(w) \/ Finishes(w)
    BY <2>2, Itself DEF Makes, Stores, Lands, Finishes, Busy, Over
  <2>3. CASE Fails(w)
    BY <1>2, <2>1, <2>3 DEF Fails, Holds
  <2>. QED  BY <2>1, <2>2, <2>3 DEF Walks, Shape, Begins, Goes, Swaps, Claims, Repeats
<1>3. ASSUME Stores(w)  PROVE Holds(k)' \subseteq {w}
  <2>. SUFFICES ASSUME NEW x \in Holds(k)', x # w  PROVE FALSE
    OBVIOUS
  <2>1. x \in Version /\ Standing(x)' /\ Standing(x) /\ rows[x].key = writer[w].key
        /\ writer[w].stage \notin Over \cup Unhoused
    BY <1>1, <1>3 DEF Holds, Stores, Ended, Over, Unhoused
  <2>2. x \in Stale(w)
    BY <2>1, Neighbour DEF Stale
  <2>. QED  BY <1>3, <2>1, <2>2 DEF Stores, Hiding, Hidden, Standing
<1>4. ASSUME Swaps(w) \/ Finishes(w)
      PROVE  Holds(k)' \subseteq (Holds(k) \ writer[w].replaced) \cup {w}
  <2>. SUFFICES ASSUME NEW x \in Holds(k)', x # w, x \in writer[w].replaced  PROVE FALSE
    BY <1>1 DEF Holds
  <2>1. x \in Version /\ Standing(x)' /\ Standing(x)
    BY <1>1 DEF Holds
  <2>. QED  BY <1>4, <2>1 DEF Swaps, Finishes, Hiding, Hidden, Standing
<1>5. ASSUME ~(Stores(w) \/ Swaps(w) \/ Finishes(w)), NEW x \in Shows(k)  PROVE x \in Shows(k)'
  <2>1. Beside(w)
    BY <1>5 DEF Walks, Shape, Begins, Goes, Makes, Fails, Lands, Turns, Claims, Repeats
  <2>2. x \in Version /\ Standing(x) /\ rows[x].key = k /\ rows[x].status = "complete"
    BY DEF Shows
  <2>3. CASE x # w \/ Same(w)
    <3>1. Same(x)
      BY <2>1, <2>2, <2>3 DEF Beside
    <3>. QED  BY <2>2, <3>1 DEF Same, Shows, Standing, Exists
  <2>4. CASE x = w /\ Lands(w)
    BY <2>2, <2>4 DEF Lands, Read, To, Shows, Standing, Exists
  <2>5. CASE x = w /\ ~Lands(w) /\ ~Same(w)
    BY <1>0, <1>5, <2>2, <2>5
    DEF Walks, Shape, Begins, Goes, Makes, Fails, Turns, Claims, Repeats, Early
  <2>. QED  BY <2>3, <2>4, <2>5
<1>. QED  BY <1>1, <1>2, <1>3, <1>4, <1>5

LEMMA KnownStep ==
  ASSUME Order, NEW w \in Version, Walks(w), NEW k \in Key, Tale(k), writer'[w].key = k
  PROVE  Known(k)'
<1>. SUFFICES ASSUME NEW x \in Holds(k)'  PROVE x \in may'[k] \/ x \in Writing(k)'
  BY DEF Known
<1>0. x \in Version /\ Known(k) /\ Covers(w, k)
  BY DEF Holds, Tale
<1>1. CASE x \notin Holds(k)
  <2>1. x = w /\ Busy(w) /\ writer[w].key = k
    BY <1>0, <1>1, Here
  <2>2. CASE Ended(w)
    <3>1. Leaves(w, k)
      BY <2>1, <2>2, Notes DEF Still, Joins, Begins, Writing, Ended, Busy, Over
    <3>. QED  BY <2>1, <3>1 DEF Leaves
  <2>3. CASE ~Ended(w)
    <3>1. w \in Writing(k)
      BY <2>1 DEF Writing, Busy, Over
    <3>2. Still(w, k)
      BY <2>3, <3>1, Notes DEF Leaves, Joins
    <3>. QED  BY <2>1, <3>1, <3>2 DEF Still
  <2>. QED  BY <2>2, <2>3
<1>2. CASE x \in Holds(k) /\ (Still(w, k) \/ Joins(w, k))
  BY <1>0, <1>2 DEF Known, Still, Joins
<1>3. CASE x \in Holds(k) /\ Leaves(w, k)
  <2>1. CASE may'[k] = may[k] \cup {w}
    BY <1>0, <1>3, <2>1 DEF Known, Leaves
  <2>2. CASE /\ may'[k] = {w} /\ ~mixed[k] /\ writer[w].key = k
             /\ Stores(w) \/ Swaps(w) \/ Repeats(w) \/ Finishes(w)
    <3>1. CASE Stores(w)
      BY <2>2, <3>1, Here
    <3>2. CASE Swaps(w) \/ Finishes(w)
      <4>1. Holds(k) \ {w} \subseteq writer[w].replaced
        BY <1>0, <2>2, <3>2 DEF Covers, Swaps, Finishes
      <4>. QED  BY <2>2, <3>2, <4>1, Here
    <3>3. CASE Repeats(w)
      BY <1>0, <1>3, <2>2, <3>3 DEF Covers, Repeats
    <3>. QED  BY <2>2, <3>1, <3>2, <3>3
  <2>. QED  BY <1>3, <2>1, <2>2 DEF Leaves
<1>. QED  BY <1>1, <1>2, <1>3, Notes

LEMMA SingleStep ==
  ASSUME Order, NEW w \in Version, Walks(w), NEW k \in Key, Tale(k), writer'[w].key = k
  PROVE  Single(k)'
<1>. SUFFICES ASSUME NEW v \in Holds(k)', NEW x \in Holds(k)', v # x, writer'[v].stage # "replace"
              PROVE  writer'[x].stage = "replace"
  BY DEF Single
<1>0. v \in Version /\ x \in Version /\ Single(k) /\ Covers(w, k)
  BY DEF Holds, Tale
<1>1. ~index
  <2>. SUFFICES ASSUME index  PROVE FALSE
    OBVIOUS
  <2>1. Unique' /\ index'
    BY ApartStep DEF Walks
  <2>2. Standing(v)' /\ Standing(x)' /\ rows'[v].key = rows'[x].key
    BY DEF Holds
  <2>. QED  BY <1>0, <2>1, <2>2 DEF Unique
<1>2. CASE Stores(w)
  BY <1>2, Here
<1>3. CASE Swaps(w) \/ Finishes(w)
  <2>1. writer[w].key = k
    BY <1>3, Itself DEF Swaps, Finishes
  <2>2. Holds(k) \ {w} \subseteq writer[w].replaced
    BY <1>0, <1>1, <1>3, <2>1 DEF Covers, Swaps, Finishes
  <2>. QED  BY <1>3, <2>2, Here
<1>4. CASE Makes(w) \/ Lands(w)
  <2>1. w \in Holds(k)' /\ w \notin Holds(k) => writer'[w].stage = "replace"
    BY <1>4 DEF Makes, Lands, To, Holds
  <2>2. writer[w].stage # "replace"
    BY <1>4 DEF Makes, Lands
  <2>3. v \in Holds(k) => writer[v].stage # "replace"
    BY <1>0, <2>2, Aside
  <2>4. CASE v \in Holds(k) /\ x \in Holds(k)
    <3>1. writer[x].stage = "replace"
      BY <1>0, <2>3, <2>4 DEF Single
    <3>. QED  BY <1>0, <2>2, <3>1, Aside
  <2>. QED  BY <1>0, <2>1, <2>4, Here
<1>5. CASE ~(Stores(w) \/ Swaps(w) \/ Finishes(w) \/ Makes(w) \/ Lands(w))
  <2>1. v \in Holds(k) /\ x \in Holds(k)
    BY <1>0, <1>5, Here
  <2>2. writer[w].stage = "replace" => writer'[w].stage = "replace"
    BY <1>5 DEF Walks, Shape, Begins, Goes, To, Ways, Fails, Turns, Claims, Repeats
  <2>. QED  BY <1>0, <2>1, <2>2, Aside DEF Single
<1>. QED  BY <1>2, <1>3, <1>4, <1>5

LEMMA ShownStep ==
  ASSUME Order, NEW w \in Version, Walks(w), NEW k \in Key, Tale(k), writer'[w].key = k
  PROVE  Shown(k)'
<1>0. /\ Shown(k) /\ Missed(w, k) /\ Tidy(w) /\ Clearing(k)' = Clearing(k) /\ Heard(k)
      /\ writer[w].stage # "idle" => writer[w].key = k
  BY Itself DEF Tale, Order, Clearing, Walks
<1>1. CASE Stores(w) \/ Finishes(w)
  <2>1. w \in Shows(k)'
    BY <1>0, <1>1 DEF Stores, Finishes, Read, Shows, Standing, Exists
  <2>. QED  BY <2>1 DEF Shown
<1>2. CASE Swaps(w)
  <2>1. /\ writer[w].stage = "replace" /\ writer[w].key = k /\ ~rows[w].trashed /\ Same(w) /\ Ended(w)
        /\ rows[w].status # "none" => rows[w].key = k
    BY <1>0, <1>2 DEF Swaps, Tidy, Busy, Over
  <2>2. Leaves(w, k)
    BY <2>1, Notes DEF Still, Joins, Begins, Writing, Ended, Over
  <2>3. CASE rows[w].status = "complete"
    <3>1. w \in Shows(k)'
      BY <2>1, <2>3 DEF Shows, Same, Standing, Exists
    <3>. QED  BY <3>1 DEF Shown
  <2>4. CASE rows[w].status # "complete" /\ writer[w].path = "buffered"
    <3>1. Deferred(w)' /\ w \in may'[k]
      BY <2>1, <2>2, <2>4 DEF Deferred, Same, Ended, Leaves
    <3>. QED  BY <3>1 DEF Shown
  <2>5. CASE rows[w].status # "complete" /\ writer[w].path # "buffered"
    <3>1. rows[w].status = "none"
      BY <1>0, <2>1, <2>5 DEF Tidy
    <3>2. (mixed[k] /\ None \in may[k]) \/ Clearing(k) # {}
      BY <1>0, <2>1, <3>1 DEF Missed
    <3>. QED  BY <1>0, <2>2, <3>2 DEF Shown, Leaves
  <2>. QED  BY <2>3, <2>4, <2>5
<1>3. CASE Repeats(w)
  <2>1. w \in Shows(k)'
    BY <1>0, <1>3 DEF Repeats, Same, Tidy, Shows, Standing, Exists
  <2>. QED  BY <2>1 DEF Shown
<1>4. CASE ~(Stores(w) \/ Swaps(w) \/ Finishes(w) \/ Repeats(w))
  <2>1. Shows(k) \subseteq Shows(k)' /\ may[k] \subseteq may'[k]
    BY <1>4, Here, Notes DEF Still, Joins, Leaves
  <2>2. ASSUME NEW v \in may[k] \cap Version, Deferred(v)
        PROVE  Deferred(v)' \/ v \in Shows(k)'
    <3>1. writer[v].stage = "over" /\ writer[v].key = k /\ Tidy(v)
      BY <1>0, <2>2, S3Assumption DEF Heard, Version, Order
    <3>2. CASE v # w
      <4>1. Beside(w)
        BY <1>4 DEF Walks, Shape, Begins, Goes, Makes, Fails, Lands, Turns, Claims
      <4>. QED  BY <2>2, <3>2, <4>1 DEF Beside, Same, Deferred
    <3>3. CASE v = w /\ Turns(w)
      <4>1. writer'[w].path = writer[w].path /\ ~rows'[w].trashed /\ rows'[w].key = k
        BY <2>2, <3>1, <3>3 DEF Turns, Deferred, Tidy
      <4>2. CASE rows'[w].status = "complete"
        BY <3>3, <4>1, <4>2 DEF Shows, Standing, Exists
      <4>3. CASE rows'[w].status # "complete"
        BY <2>2, <3>3, <4>1, <4>3 DEF Deferred
      <4>. QED  BY <4>2, <4>3
    <3>4. CASE v = w /\ ~Turns(w)
      <4>1. Goes(w)
        BY <1>4, <3>1, <3>4 DEF Walks, Shape, Begins, Makes, Fails, Lands, Claims
      <4>. QED  BY <2>2, <3>4, <4>1 DEF Goes, To, Same, Deferred
    <3>. QED  BY <3>2, <3>3, <3>4
  <2>. QED  BY <1>0, <2>1, <2>2 DEF Shown
<1>. QED  BY <1>1, <1>2, <1>3, <1>4

\* While another request for the key runs, unmixed, w adds nothing.
LEMMA Lone ==
  ASSUME Order, NEW w \in Version, Walks(w), NEW k \in Key, writer'[w].key = k,
         NEW r \in (Writing(k) \cup Deleting(k)) \ {w}, ~mixed'[k]
  PROVE  ~mixed[k] /\ Holds(k)' \subseteq Holds(k)
<1>1. ~mixed[k]
  BY Notes DEF Still, Joins, Leaves, Quiet
<1>2. w \notin Writing(k)
  BY <1>1 DEF Order, Sole
<1>3. ASSUME NEW x \in Holds(k)'  PROVE x \in Holds(k)
  <2>1. x \in Version
    BY DEF Holds
  <2>2. ~(Busy(w) /\ writer[w].key = k)
    BY <1>2 DEF Writing, Busy, Over
  <2>. QED  BY <2>1, <2>2, Here
<1>. QED  BY <1>1, <1>3

LEMMA CoversStep ==
  ASSUME Order, NEW w \in Version, Walks(w), NEW k \in Key, Tale(k), writer'[w].key = k,
         NEW x \in Version
  PROVE  Covers(x, k)'
<1>0. /\ Covers(x, k) /\ index' = index /\ Tidy(w)
      /\ Holds(k)' \subseteq Version /\ Holds(k) \subseteq Version
  BY DEF Tale, Walks, Order, Holds
<1>1. CASE x # w
  <2>. SUFFICES ASSUME writer[x].key = k, ~index \/ ~mixed'[k], Busy(x)
                PROVE  (~index \/ ~mixed[k]) /\ Holds(k)' \subseteq Holds(k)
    BY <1>0, <1>1, Aside DEF Covers, Busy, Over
  <2>1. x \in Writing(k) \ {w}
    BY <1>1 DEF Writing, Busy, Over
  <2>2. CASE ~mixed'[k]
    BY <2>1, <2>2, Lone
  <2>3. CASE ~index
    <3>1. ~(Busy(w) /\ writer[w].key = k)
      BY <1>1, <2>3 DEF Order, Apart
    <3>. QED  BY <1>0, <2>3, <3>1, Here
  <2>. QED  BY <2>2, <2>3
<1>2. CASE x = w
  <2>. SUFFICES ASSUME ~index \/ ~mixed'[k]
                PROVE  /\ writer'[w].stage \in {"upload", "report", "complete", "replace", "completing"} =>
                            Holds(k)' \ {w} \subseteq writer'[w].replaced
                       /\ writer'[w].stage = "retry" => Holds(k)' \subseteq {w}
    BY <1>0, <1>2 DEF Covers
  <2>1. CASE Makes(w) \/ Claims(w)
    <3>1. ASSUME NEW v \in Holds(k)' \ {w}  PROVE v \in Stale(w)
      <4>1. v \in Version /\ Standing(v) /\ rows[v].key = k
        BY <1>0, Here DEF Holds
      <4>2. writer[w].key = k /\ writer[w].stage \notin Over \cup Unhoused
        BY <2>1 DEF Makes, Claims, Over, Unhoused
      <4>. QED  BY <4>1, <4>2, Neighbour DEF Stale
    <3>. QED  BY <2>1, <3>1 DEF Makes, Claims
  <2>2. CASE Goes(w) \/ Lands(w) \/ Turns(w)
    <3>1. /\ writer'[w].replaced = writer[w].replaced /\ writer[w].key = k /\ mixed' = mixed
          /\ writer'[w].stage \in {"upload", "report", "complete", "replace", "completing"} =>
               writer[w].stage \in {"upload", "report", "complete", "replace", "completing"}
          /\ writer'[w].stage = "retry" => writer[w].stage = "retry"
      BY <2>2 DEF Goes, Lands, Turns, To, Ways, Mute
    <3>. QED  BY <1>0, <1>2, <3>1, Here DEF Covers
  <2>3. CASE Finishes(w) /\ writer'[w].stage = "retry"
    <3>1. writer[w].key = k /\ mixed' = mixed /\ writer[w].stage = "completing"
      BY <2>3 DEF Finishes, To, Ended, Mute
    <3>. QED  BY <1>0, <1>2, <2>3, <3>1, Here DEF Covers
  <2>4. CASE writer'[w].stage \in {"find", "over"}
    BY <2>4
  <2>. QED  BY <2>1, <2>2, <2>3, <2>4
  DEF Walks, Shape, Begins, Fails, Stores, Swaps, Repeats, Finishes, Ended, To
<1>. QED  BY <1>1, <1>2

LEMMA MissedStep ==
  ASSUME Order, NEW w \in Version, Walks(w), NEW k \in Key, Tale(k), writer'[w].key = k,
         NEW x \in Version
  PROVE  Missed(x, k)'
<1>. SUFFICES ASSUME writer'[x].key = k, writer'[x].stage \in {"replace", "retry"}, rows'[x].status = "none"
              PROVE  (mixed'[k] /\ None \in may'[k]) \/ Clearing(k)' # {}
  BY DEF Missed
<1>0. Missed(x, k) /\ Clearing(k)' = Clearing(k)
  BY DEF Tale, Walks, Clearing
<1>1. CASE x # w
  <2>1. writer'[x] = writer[x] /\ rows[x].status = "none" /\ x \in Writing(k)
    BY <1>1, Aside DEF Writing, Over
  <2>2. (mixed[k] /\ None \in may[k]) => (mixed'[k] /\ None \in may'[k])
    BY <1>1, <2>1, Notes DEF Still, Joins, Leaves, Quiet
  <2>. QED  BY <1>0, <2>1, <2>2 DEF Missed
<1>2. CASE x = w
  <2>1. Goes(w) /\ writer[w].stage = writer'[w].stage
    BY <1>2 DEF Walks, Shape, Begins, Goes, To, Ways, Makes, Fails, Stores, Ended, Lands, Read,
       Swaps, Turns, Claims, Repeats, Finishes
  <2>2. writer[w].key = k /\ rows[w].status = "none" /\ may' = may /\ mixed' = mixed
    BY <1>2, <2>1 DEF Goes, To, Same, Mute
  <2>. QED  BY <1>0, <1>2, <2>1, <2>2 DEF Missed
<1>. QED  BY <1>1, <1>2

LEMMA ClearedStep ==
  ASSUME Order, NEW w \in Version, Walks(w), NEW k \in Key, Tale(k), writer'[w].key = k,
         NEW d \in Deleter
  PROVE  Cleared(d, k)'
<1>0. /\ Cleared(d, k) /\ deleter' = deleter /\ Clearing(k)' = Clearing(k) /\ Deleting(k)' = Deleting(k)
      /\ d # w
  BY S3Assumption, Notes DEF Tale, Walks, Clearing, Version
<1>1. d \in Deleting(k) /\ ~mixed'[k] => ~mixed[k] /\ Holds(k)' \subseteq Holds(k)
  BY <1>0, Lone
<1>. QED  BY <1>0, <1>1 DEF Cleared

LEMMA TaleStep ==
  ASSUME Order, NEW w \in Version, Walks(w), NEW k \in Key, Tale(k)
  PROVE  Tale(k)'
<1>1. CASE writer'[w].key # k
  BY <1>1, TaleElsewhere
<1>2. CASE writer'[w].key = k
  <2>1. Shown(k)' /\ Known(k)' /\ Single(k)'
    BY <1>2, ShownStep, KnownStep, SingleStep
  <2>2. \A x \in Version : Covers(x, k)' /\ Missed(x, k)'
    BY <1>2, CoversStep, MissedStep
  <2>3. \A d \in Deleter : Cleared(d, k)'
    BY <1>2, ClearedStep
  <2>. QED  BY <2>1, <2>2, <2>3 DEF Tale
<1>. QED  BY <1>1, <1>2

\* What a delete takes is gone, or it was no longer there.
LEMMA Taken ==
  ASSUME Order, NEW d \in Deleter, Deletes(d), NEW k \in Key
  PROVE  /\ writer' = writer /\ index' = index /\ Holds(k)' \subseteq Holds(k)
         /\ ~Drops(d) => rows' = rows
         /\ Drops(d) /\ deleter[d].key # k => Shows(k)' = Shows(k)
         /\ \A v \in Version : Deferred(v) => Deferred(v)'
<1>1. writer' = writer /\ index' = index /\ (~Drops(d) => rows' = rows)
  BY DEF Deletes, Others, Misses, Finds, Passes, Answers
<1>2. Holds(k)' \subseteq Holds(k)
  BY Spared DEF Holds, Standing, Exists
<1>3. ASSUME Drops(d), deleter[d].key # k  PROVE Shows(k)' = Shows(k)
  <2>1. PICK t \in Version : t = deleter[d].target /\ writer[t].key = deleter[d].key /\ Tidy(t)
    BY <1>3 DEF Order, Marked, Drops, Over
  <2>2. t \notin Shows(k) /\ t \notin Shows(k)'
    BY <1>3, <2>1, Spared DEF Tidy, Shows, Standing, Exists
  <2>3. \A x \in Version \ {t} : rows'[x] = rows[x]
    BY <2>1, Spared
  <2>. QED  BY <2>2, <2>3 DEF Shows, Standing, Exists
<1>4. ASSUME NEW v \in Version, Deferred(v)  PROVE Deferred(v)'
  BY <1>1, <1>4, Spared DEF Deferred
<1>. QED  BY <1>1, <1>2, <1>3, <1>4

LEMMA DeleteShown ==
  ASSUME Order, NEW d \in Deleter, Deletes(d), NEW k \in Key, Tale(k)
  PROVE  Shown(k)'
<1>0. Shown(k) /\ Others(d)
  BY DEF Tale, Deletes
<1>1. CASE None \in may'[k]
  BY <1>1 DEF Shown
<1>2. CASE Rests(d, k) \/ Opens(d, k)
  <2>1. may'[k] = may[k]
    BY <1>2 DEF Rests, Opens
  <2>2. Clearing(k) \subseteq Clearing(k)'
    <3>1. ASSUME d \in Clearing(k)  PROVE d \in Clearing(k)'
      <4>1. ~Answers(d)
        BY <1>2, <3>1 DEF Rests, Opens, Finds, Answers, Clearing
      <4>. QED  BY <3>1, <4>1 DEF Deletes, Misses, Finds, Passes, Drops, Aimed, Clearing
    <3>. QED  BY <1>0, <3>1 DEF Others, Clearing
  <2>3. CASE Drops(d) /\ deleter[d].key = k
    <3>1. d \in Clearing(k)'
      BY <2>3 DEF Drops, Aimed, Clearing
    <3>. QED  BY <3>1 DEF Shown
  <2>4. CASE ~(Drops(d) /\ deleter[d].key = k)
    <3>1. Shows(k)' = Shows(k)
      BY <2>4, Taken DEF Shows, Standing, Exists
    <3>. QED  BY <1>0, <2>1, <2>2, <3>1, Taken DEF Shown
  <2>. QED  BY <2>3, <2>4
<1>. QED  BY <1>1, <1>2, DeleteNotes DEF Asks, Closes

LEMMA DeleteKnown ==
  ASSUME Order, NEW d \in Deleter, Deletes(d), NEW k \in Key, Tale(k)
  PROVE  Known(k)' /\ Single(k)'
<1>0. /\ Known(k) /\ Single(k) /\ Writing(k)' = Writing(k) /\ Holds(k)' \subseteq Holds(k)
      /\ writer' = writer /\ Cleared(d, k)
  BY DeleteNotes, Taken DEF Tale
<1>1. Single(k)'
  BY <1>0 DEF Single
<1>2. CASE may[k] \subseteq may'[k]
  BY <1>0, <1>1, <1>2 DEF Known
<1>3. CASE Asks(d, k) /\ Quiet(k) /\ Waiting(k) = {}
  <2>1. Holds(k) = {}
    <3>1. Shows(k) = {}
      BY <1>3, VisibleShows DEF Asks, Misses
    <3>. QED  BY <1>3, <3>1 DEF Holds, Shows, Waiting
  <2>. QED  BY <1>0, <1>1, <2>1 DEF Known
<1>4. CASE Closes(d, k) /\ ~mixed[k]
  <2>1. Holds(k) = {}
    BY <1>0, <1>4 DEF Cleared, Closes, Answers, Clearing
  <2>. QED  BY <1>0, <1>1, <2>1 DEF Known
<1>. QED  BY <1>2, <1>3, <1>4, DeleteNotes DEF Rests, Asks, Opens, Closes

LEMMA DeleteCovers ==
  ASSUME Order, NEW d \in Deleter, Deletes(d), NEW k \in Key, Tale(k), NEW w \in Version
  PROVE  Covers(w, k)' /\ Missed(w, k)'
<1>0. /\ Covers(w, k) /\ Missed(w, k) /\ Holds(k)' \subseteq Holds(k) /\ writer' = writer /\ index' = index
      /\ Others(d)
  BY Taken DEF Tale, Deletes
<1>1. writer[w].key = k /\ writer[w].stage \notin Over => w \in Writing(k)
  BY DEF Writing
<1>2. ASSUME w \in Writing(k)  PROVE ~mixed'[k] => ~mixed[k]
  <2>1. w # d
    BY S3Assumption DEF Version
  <2>. QED  BY <1>2, <2>1, DeleteNotes DEF Rests, Asks, Opens, Closes, Quiet
<1>3. Covers(w, k)'
  BY <1>0, <1>1, <1>2 DEF Covers, Over
<1>4. Missed(w, k)'
  <2>. SUFFICES ASSUME w \in Writing(k), writer[w].key = k, writer[w].stage \in {"replace", "retry"},
                       rows'[w].status = "none"
                PROVE  (mixed'[k] /\ None \in may'[k]) \/ Clearing(k)' # {}
    BY <1>0, <1>1 DEF Missed, Over
  <2>1. CASE Drops(d) /\ deleter[d].target = w
    <3>1. deleter[d].key = k
      BY <2>1 DEF Order, Marked, Drops, Over
    <3>2. d \in Clearing(k)'
      BY <2>1, <3>1 DEF Drops, Aimed, Clearing
    <3>. QED  BY <3>2
  <2>2. CASE rows[w].status = "none" /\ mixed[k] /\ None \in may[k]
    <3>1. None \in may'[k]
      BY <2>2, DeleteNotes DEF Rests, Asks, Opens, Closes
    <3>. QED  BY <1>2, <2>2, <3>1
  <2>3. ASSUME NEW e \in Clearing(k)  PROVE (mixed'[k] /\ None \in may'[k]) \/ Clearing(k)' # {}
    <3>1. CASE Closes(d, k)
      <4>1. mixed[k]
        <5>1. d \in Writing(k) \cup Deleting(k) /\ w \in Writing(k) \cup Deleting(k) /\ d # w
          BY <3>1, S3Assumption DEF Closes, Version
        <5>. QED  BY <5>1 DEF Order, Sole
      <4>. QED  BY <1>2, <3>1, <4>1 DEF Closes
    <3>2. CASE ~Closes(d, k)
      <4>1. e \in Clearing(k)'
        <5>1. CASE e # d
          BY <1>0, <5>1 DEF Clearing, Others
        <5>2. CASE e = d
          <6>1. ~Answers(d)
            BY <3>2, <5>2, DeleteNotes DEF Clearing, Rests, Asks, Opens, Misses, Finds
          <6>. QED  BY <5>2, <6>1 DEF Deletes, Misses, Finds, Passes, Drops, Aimed, Clearing
        <5>. QED  BY <5>1, <5>2
      <4>. QED  BY <4>1
    <3>. QED  BY <3>1, <3>2
  <2>. QED  BY <1>0, <2>1, <2>2, <2>3, Spared DEF Missed
<1>. QED  BY <1>3, <1>4

LEMMA DeleteCleared ==
  ASSUME Order, NEW d \in Deleter, Deletes(d), NEW k \in Key, Tale(k), NEW e \in Deleter
  PROVE  Cleared(e, k)'
<1>0. /\ Cleared(e, k) /\ Holds(k)' \subseteq Holds(k) /\ Others(d) /\ Holds(k) \subseteq Version
      /\ Single(k) /\ Marked(d)
  BY Taken DEF Tale, Deletes, Holds, Order
<1>. SUFFICES ASSUME e \in Deleting(k)', ~mixed'[k]
              PROVE  /\ Holds(k)' \subseteq {deleter'[e].target}
                     /\ e \in Clearing(k)' => Holds(k)' = {}
  BY DEF Cleared
<1>1. CASE e # d
  <2>1. e \in Deleting(k) /\ ~mixed[k] /\ deleter'[e] = deleter[e]
    BY <1>0, <1>1, DeleteNotes DEF Rests, Asks, Opens, Closes, Quiet, Others
  <2>. QED  BY <1>0, <2>1 DEF Cleared, Clearing
<1>2. CASE e = d /\ Opens(d, k)
  <2>1. Quiet(k) /\ deleter'[d].target \in Shows(k) /\ deleter'[d].stage = "purge"
    BY <1>2, VisibleShows DEF Opens, Finds
  <2>2. ASSUME NEW x \in Holds(k)  PROVE x = deleter'[d].target
    <3>. DEFINE t == deleter'[d].target
    <3>1. t \in Holds(k)
      BY <2>1 DEF Holds, Shows
    <3>. HIDE DEF t
    <3>2. \A v \in Holds(k) : writer[v].stage # "replace"
      <4>. SUFFICES ASSUME NEW v \in Holds(k), writer[v].stage = "replace"  PROVE FALSE
        OBVIOUS
      <4>1. Standing(v) /\ rows[v].key = k /\ Tidy(v)
        BY <1>0 DEF Holds, Order
      <4>2. v \in Writing(k)
        BY <1>0, <4>1 DEF Writing, Over, Tidy, Standing, Exists
      <4>. QED  BY <2>1, <4>2 DEF Quiet
    <3>3. x = t
      BY <1>0, <3>1, <3>2 DEF Single
    <3>. QED  BY <3>3 DEF t
  <2>. QED  BY <1>0, <1>2, <2>1, <2>2 DEF Clearing
<1>3. CASE e = d /\ Rests(d, k)
  <2>1. /\ d \in Deleting(k) /\ ~mixed[k] /\ deleter[d].stage \notin Over /\ deleter[d].key = k
        /\ Holds(k) \subseteq {deleter[d].target}
    BY <1>0, <1>3 DEF Rests, Cleared, Deleting
  <2>2. (Passes(d) \/ Drops(d)) /\ Aimed(d)
    BY <1>3, <2>1 DEF Rests, Deletes, Misses, Finds, Passes, Drops, Over
  <2>3. CASE Drops(d)
    <3>1. deleter[d].target \notin Holds(k)'
      BY <2>3, Spared DEF Holds, Standing, Exists, Drops, NoRow
    <3>. QED  BY <1>0, <1>3, <2>1, <2>2, <3>1 DEF Aimed
  <2>4. CASE Passes(d) /\ deleter[d].stage = "cleanup"
    BY <1>0, <1>3, <2>1, <2>2, <2>4 DEF Aimed, Cleared, Clearing
  <2>5. CASE /\ Passes(d) /\ deleter[d].stage = "purge" /\ deleter'[d].stage = "cleanup"
             /\ deleter[d].target \notin Active(deleter[d].key, deleter[d].folder)
    <3>1. deleter[d].target \notin Holds(k)
      <4>. SUFFICES ASSUME deleter[d].target \in Holds(k)  PROVE FALSE
        OBVIOUS
      <4>1. PICK t \in Holds(k) : t = deleter[d].target
        OBVIOUS
      <4>2. t \in Version /\ Standing(t) /\ rows[t].key = k /\ Tidy(t)
        BY <1>0 DEF Holds, Order
      <4>3. rows[t].folder = deleter[d].folder
        BY <1>0, <2>1, <4>1, <4>2 DEF Marked, Tidy, Standing, Exists
      <4>. QED  BY <2>1, <2>5, <4>1, <4>2, <4>3 DEF Active, At, Standing
    <3>. QED  BY <1>0, <1>3, <2>1, <2>2, <3>1 DEF Aimed
  <2>6. CASE Passes(d) /\ deleter'[d].stage = "delete"
    BY <1>0, <1>3, <2>1, <2>2, <2>6 DEF Aimed, Clearing
  <2>. QED  BY <2>2, <2>3, <2>4, <2>5, <2>6 DEF Passes
<1>4. CASE e = d /\ (Asks(d, k) \/ Closes(d, k))
  BY <1>4 DEF Asks, Closes, Misses, Answers, Deleting, Over
<1>. QED  BY <1>1, <1>2, <1>3, <1>4, DeleteNotes

LEMMA TaleNext ==
  ASSUME Order, [Next]_vars, NEW k \in Key, Tale(k)
  PROVE  Tale(k)'
<1>1. ASSUME NEW d \in Deleter, Deletes(d)  PROVE Tale(k)'
  BY <1>1, DeleteShown, DeleteKnown, DeleteCovers, DeleteCleared DEF Tale
<1>2. CASE UNCHANGED vars
  <2>1. /\ Shown(k)' /\ Known(k)' /\ Single(k)'
    BY <1>2 DEF vars, Tale, Shown, Known, Single, Shows, Holds, Standing, Exists, Clearing,
       Deferred, Writing
  <2>2. \A w \in Version : Covers(w, k)' /\ Missed(w, k)'
    BY <1>2 DEF vars, Tale, Covers, Missed, Holds, Standing, Exists, Clearing
  <2>3. \A d \in Deleter : Cleared(d, k)'
    BY <1>2 DEF vars, Tale, Cleared, Holds, Standing, Exists, Clearing, Deleting
  <2>. QED  BY <2>1, <2>2, <2>3 DEF Tale
<1>3. CASE Next
  <2>1. (\E w \in Version : Walks(w)) \/ (\E d \in Deleter : Deletes(d))
    BY <1>3, Steps, DeleteShape DEF Next, Version
  <2>. QED  BY <1>1, <2>1, TaleStep
<1>. QED  BY <1>2, <1>3

LEMMA TaleInit ==
  ASSUME Init, NEW k \in Key
  PROVE  Tale(k)
<1>1. /\ \A v \in Version : rows[v].status = "none" /\ writer[v].stage = "idle"
      /\ \A d \in Deleter : deleter[d].stage = "idle"
      /\ None \in may[k]
  BY DEF Init, NoRow
<1>2. Holds(k) = {} /\ Shown(k)
  BY <1>1 DEF Holds, Standing, Exists, Shown
<1>. QED  BY <1>1, <1>2 DEF Tale, Known, Single, Covers, Missed, Cleared, Clearing

\* Durable read off a key at rest.
LEMMA DurableHolds ==
  ASSUME Order, \A k \in Key : Tale(k)
  PROVE  Durable
<1>. SUFFICES ASSUME NEW k \in Key, Quiet(k)
              PROVE  /\ Cardinality(Visible(k)) <= 1 /\ Visible(k) \subseteq may[k]
                     /\ Visible(k) = {} =>
                          \/ None \in may[k]
                          \/ \E v \in may[k] : writer[v].path = "buffered" /\ rows[v].status # "complete"
  BY DEF Durable
<1>0. /\ Visible(k) = Shows(k) /\ Shows(k) \subseteq Holds(k) /\ Holds(k) \subseteq Version
      /\ Shown(k) /\ Known(k) /\ Single(k)
  BY VisibleShows DEF Shows, Holds, Tale
<1>1. Shows(k) \subseteq may[k]
  BY <1>0 DEF Known, Quiet
<1>2. \A v, x \in Shows(k) : v = x
  <2>1. \A v \in Holds(k) : writer[v].stage # "replace"
    <3>. SUFFICES ASSUME NEW v \in Holds(k), writer[v].stage = "replace"  PROVE FALSE
      OBVIOUS
    <3>1. Standing(v) /\ rows[v].key = k /\ Tidy(v)
      BY <1>0 DEF Holds, Order
    <3>2. v \in Writing(k)
      BY <1>0, <3>1 DEF Writing, Over, Tidy, Standing, Exists
    <3>. QED  BY <3>2 DEF Quiet
  <2>. QED  BY <1>0, <2>1 DEF Single
<1>3. Cardinality(Shows(k)) <= 1
  <2>1. CASE Shows(k) = {}
    BY <2>1, FS_EmptySet
  <2>2. CASE Shows(k) # {}
    <3>1. PICK v \in Shows(k) : Shows(k) = {v}
      BY <1>2, <2>2
    <3>2. Cardinality({v}) = 1
      BY FS_Singleton
    <3>. QED  BY <3>1, <3>2
  <2>. QED  BY <2>1, <2>2
<1>4. ASSUME Shows(k) = {}
      PROVE  \/ None \in may[k]
             \/ \E v \in may[k] : writer[v].path = "buffered" /\ rows[v].status # "complete"
  <2>1. Clearing(k) = {}
    BY DEF Quiet, Deleting, Clearing, Over
  <2>. QED  BY <1>0, <1>4, <2>1 DEF Shown, Deferred
<1>. QED  BY <1>0, <1>1, <1>3, <1>4

\* When no request for a key runs, a read finds one object at most; it is that of
\* an acknowledged put which nothing acknowledged has replaced since, or of a put
\* that failed after it, and it finds nothing only if such an outcome allows that,
\* however the puts, uploads, deletes, cleanups and lost answers interleave, as long
\* as no put finds the folder that a delete is about to remove.
THEOREM AcknowledgedSurvives == Orderly /\ Spec => []Durable
<1>. DEFINE I == Order /\ \A k \in Key : Tale(k)
<1>1. Orderly /\ Init => I
  BY OrderInit, TaleInit
<1>2. I /\ [Next]_vars => I'
  BY OrderNext, TaleNext
<1>3. I => Durable
  BY DurableHolds
<1>. QED  BY <1>1, <1>2, <1>3, PTL DEF Spec

-----------------------------------------------------------------------------
(* Proofs about Accounts, for any number of users, requests and rows and any *)
(* lifetime of the cache.  A name or an address is written as it was asked;  *)
(* what is written of an address has one spelling (Addressed), so the index  *)
(* sees every double.  What a request takes for open is dated by when it     *)
(* came, and an entry of the cache by its expiry (Timely, Punctual).         *)

\* The names that are there at first, and everything that a request or a row may hold.
Given == UNION {{start.names[a] : a \in DOMAIN start.names} : start \in Starts}
Value == Users!Emails \cup Names \cup Given \cup Users!Passwords \cup {"limited", "default", "ADMIN", "USER"}
           \cup BOOLEAN \cup Row \cup {Nobody, Unnamed}

UserRow == [name : Value, email : Value, password : Value, limit : Value, role : Value]

AskedState ==
  [pc : {"idle", "read", "lookup", "gather", "create", "sign", "check", "write", "invalidate",
         "list", "files", "rest", "user", "done"},
   op : Users!Ops \cup {"none"}, by : Account \cup {Nobody}, target : Account \cup {Nobody},
   arg : Value, old : Value, row : UserRow \cup {Nobody}, came : Nat,
   open : BOOLEAN \cup {Nobody}, got : BOOLEAN \cup {Nobody},
   count : {"none", "some", Nobody}, todo : SUBSET Row]

UsersTyped ==
  /\ accounts \in [Account -> UserRow \cup {Nobody}] /\ born \subseteq Account
  /\ ownerOf \in [Row -> Account \cup {Nobody}] /\ enabled \in BOOLEAN
  /\ cached \in [value : BOOLEAN, expiry : Nat] \cup {Nobody}
  /\ \A t \in tokens : t.user \in Account
  /\ asked \in [Requests -> AskedState]
  /\ time \in Nat /\ late \in BOOLEAN

\* Everything that an argument or a column may be.
LEMMA AccountValues ==
  /\ Users!Emails \subseteq Value /\ Names \subseteq Value /\ Users!Passwords \subseteq Value
  /\ "limited" \in Value /\ "default" \in Value /\ "ADMIN" \in Value /\ "USER" \in Value
  /\ BOOLEAN \subseteq Value /\ Row \subseteq Value /\ Nobody \in Value /\ Unnamed \in Value
  /\ \A start \in Starts : \A a \in DOMAIN start.names : start.names[a] \in Value
BY DEF Value, Given

\* The users and requests that are there at first have their types.
LEMMA UsersTypedInit ==
  ASSUME Users!AccountsFit, Users!Init PROVE UsersTyped
<1>1. PICK start \in Starts :
       /\ born = DOMAIN start.names
       /\ accounts = [a \in Account |-> IF a \notin born THEN Nobody ELSE
            [name |-> start.names[a], email |-> Nobody, password |-> "first",
             limit |-> "default", role |-> IF a = 1 THEN "ADMIN" ELSE "USER"]]
       /\ ownerOf = start.ownerOf /\ enabled = start.enabled
       /\ asked = [q \in Requests |-> [Users!Idle EXCEPT !.op = start.ops[q]]]
  BY DEF Users!Init
<1>2. born \subseteq Account /\ \A a \in born : start.names[a] \in Value
  BY <1>1, AccountValues DEF Users!AccountsFit
<1>3. ASSUME NEW a \in Account PROVE accounts[a] \in UserRow \cup {Nobody}
  <2>1. CASE a \notin born  BY <2>1, <1>1
  <2>2. CASE a \in born
    <3> DEFINE role == IF a = 1 THEN "ADMIN" ELSE "USER"
    <3>1. role \in Value  BY AccountValues
    <3>2. "first" \in Value /\ "default" \in Value  BY AccountValues DEF Users!Passwords
    <3>3. accounts[a] = [name |-> start.names[a], email |-> Nobody, password |-> "first",
                         limit |-> "default", role |-> role]
      BY <2>2, <1>1, Zenon
    <3> HIDE DEF role
    <3> QED BY <1>2, <2>2, <3>1, <3>2, <3>3, AccountValues DEF UserRow
  <2> QED BY <2>1, <2>2
<1>4. accounts \in [Account -> UserRow \cup {Nobody}]
  BY <1>1, <1>3
<1>5. \A t \in tokens : t.user \in Account
  BY <1>2 DEF Users!Init, Users!Token
<1>6. ASSUME NEW q \in Requests PROVE asked[q] \in AskedState
  <2>1. start.ops[q] \in Users!Ops  BY DEF Users!AccountsFit
  <2>2. asked[q] = [Users!Idle EXCEPT !.op = start.ops[q]]  BY <1>1
  <2>3. Users!Idle \in AskedState
    BY AccountValues DEF Users!Idle, AskedState
  <2> QED BY <2>1, <2>2, <2>3 DEF AskedState
<1>7. asked \in [Requests -> AskedState]
  BY <1>1, <1>6
<1> QED BY <1>1, <1>2, <1>4, <1>5, <1>7 DEF Users!AccountsFit, Users!Init, UsersTyped

\* Addresses have one spelling, from the moment a request is about to check one.
Address == [word : {"mail"}, plain : {TRUE}]

Spelled(q) ==
  /\ asked[q].pc \in {"read", "sign"} => asked[q].target \in Account
  /\ (asked[q].pc = "write" /\ asked[q].op = "setting") => asked[q].arg \in BOOLEAN
  /\ asked[q].op = "email" =>
       /\ asked[q].pc = "read" => asked[q].arg \in Users!Emails \cup {Nobody, Unnamed}
       /\ asked[q].pc \in {"check", "write"} => asked[q].arg \in Address \cup {Nobody}

Addressed ==
  /\ \A a \in Users!Live : accounts[a].email \in Address \cup {Nobody}
  /\ \A a, b \in Users!Live : accounts[a].email = accounts[b].email /\ accounts[a].email # Nobody => a = b

\* What is taken for open is dated: an entry of the cache by its expiry, what a request has
\* read by when it came.
Timely ==
  /\ openAt \in Nat /\ openAt <= time /\ ~late
  /\ Users!Open => openAt = time
  /\ (cached # Nobody /\ cached.value = TRUE) => cached.expiry <= openAt + Ttl

Punctual(q) ==
  /\ asked[q].came <= time
  /\ asked[q].open = TRUE => asked[q].came < openAt + Ttl

UsersInv ==
  /\ UsersTyped /\ Addressed /\ Timely
  /\ \A q \in Requests : Spelled(q) /\ Punctual(q)

\* The invariant holds at first: no address is stored, and no request has come.
LEMMA UsersInvInit ==
  ASSUME Users!AccountsFit, Users!Init PROVE UsersInv
<1>1. UsersTyped  BY UsersTypedInit
<1>2. PICK start \in Starts :
       /\ born = DOMAIN start.names
       /\ accounts = [a \in Account |-> IF a \notin born THEN Nobody ELSE
            [name |-> start.names[a], email |-> Nobody, password |-> "first",
             limit |-> "default", role |-> IF a = 1 THEN "ADMIN" ELSE "USER"]]
       /\ asked = [q \in Requests |-> [Users!Idle EXCEPT !.op = start.ops[q]]]
  BY DEF Users!Init
<1>3. ASSUME NEW a \in Users!Live PROVE accounts[a].email = Nobody
  <2>1. a \in Account /\ accounts[a] # Nobody  BY DEF Users!Live
  <2>2. a \in born  BY <1>2, <2>1
  <2>3. accounts[a] = [name |-> start.names[a], email |-> Nobody, password |-> "first",
             limit |-> "default", role |-> IF a = 1 THEN "ADMIN" ELSE "USER"]
    BY <1>2, <2>1, <2>2, Zenon
  <2> QED BY <2>3
<1>4. Addressed  BY <1>3 DEF Addressed
<1>5. ASSUME NEW q \in Requests PROVE asked[q].pc = "idle" /\ asked[q].came = 0
  <2>1. asked[q] = [Users!Idle EXCEPT !.op = start.ops[q]]  BY <1>2
  <2> QED BY <2>1 DEF Users!Idle
<1>6. \A q \in Requests : Spelled(q) /\ Punctual(q)
  BY <1>5 DEF Spelled, Punctual, Users!Init, Users!AccountsFit
<1>7. Timely
  BY DEF Timely, Users!Init
<1> QED BY <1>1, <1>4, <1>6, <1>7 DEF UsersInv

\* A request that has answered is forgotten.
LEMMA RequestEnded ==
  /\ [Users!Idle EXCEPT !.pc = "done"] \in AskedState
  /\ [Users!Idle EXCEPT !.pc = "done"].pc = "done" /\ [Users!Idle EXCEPT !.pc = "done"].op = "none"
  /\ [Users!Idle EXCEPT !.pc = "done"].came = 0 /\ [Users!Idle EXCEPT !.pc = "done"].open = Nobody
  /\ [Users!Idle EXCEPT !.pc = "done"].got = Nobody
BY AccountValues DEF Users!Idle, AskedState

\* A step of one request keeps the types.
LEMMA UsersTypedStep ==
  ASSUME Users!AccountsFit, UsersInv, NEW q \in Requests, Users!Step(q) PROVE UsersTyped'
<1> USE DEF UsersInv, UsersTyped
<1>1. asked[q] \in AskedState  OBVIOUS
<1>0. Users!Ends(q) => asked' \in [Requests -> AskedState]
  BY RequestEnded DEF Users!Ends
<1>2. CASE Users!Begin(q)
  <2>1. asked' \in [Requests -> AskedState]
    <3>1. CASE Users!Public(q, asked[q].op)
      <4>1. ASSUME NEW n \in Names, asked' = [asked EXCEPT ![q].pc = "lookup", ![q].arg = n]
            PROVE  asked' \in [Requests -> AskedState]
        BY <1>1, <4>1, AccountValues, ZenonT(60) DEF AskedState
      <4>2. ASSUME NEW n \in Names, NEW p \in Users!Passwords,
                   asked' = [asked EXCEPT ![q].pc = "lookup", ![q].arg = n, ![q].old = p]
            PROVE  asked' \in [Requests -> AskedState]
        BY <1>1, <4>2, AccountValues, ZenonT(60) DEF AskedState
      <4>3. ASSUME Users!AsksStatus(q) PROVE asked' \in [Requests -> AskedState]
        BY <1>1, <4>3 DEF Users!AsksStatus, AskedState
      <4> QED BY <3>1, <4>1, <4>2, <4>3 DEF Users!Public
    <3>2. ASSUME NEW t \in tokens, Users!Own(q, asked[q].op, t)
          PROVE  asked' \in [Requests -> AskedState]
      <4>1. t.user \in Account  OBVIOUS
      <4>2. ASSUME NEW e \in Users!Emails \cup {Nobody, Unnamed},
                   asked' = [asked EXCEPT ![q].pc = "read", ![q].target = t.user, ![q].arg = e]
            PROVE  asked' \in [Requests -> AskedState]
        <5>1. e \in Value  BY AccountValues
        <5> QED BY <1>1, <4>1, <4>2, <5>1, ZenonT(60) DEF AskedState
      <4>3. ASSUME NEW p \in Users!Passwords, NEW n \in Users!Passwords,
                   asked' = [asked EXCEPT ![q].pc = "read", ![q].target = t.user, ![q].arg = n, ![q].old = p]
            PROVE  asked' \in [Requests -> AskedState]
        <5>1. n \in Value /\ p \in Value  BY AccountValues
        <5> QED BY <1>1, <4>1, <4>3, <5>1, ZenonT(60) DEF AskedState
      <4>4. Users!Args("email") = Users!Emails \cup {Nobody, Unnamed}
        BY DEF Users!Args
      <4> QED BY <3>2, <4>2, <4>3, <4>4 DEF Users!Own
    <3>3. ASSUME NEW t \in tokens, Users!Admin(q, asked[q].op, t)
          PROVE  asked' \in [Requests -> AskedState]
      <4>1. \A op \in {"email", "reset", "limit", "remove", "drop"} : Users!Args(op) \subseteq Value
        BY AccountValues DEF Users!Args
      <4>2. ASSUME NEW a \in born, NEW v \in Value,
                   asked' = [asked EXCEPT ![q].pc = "read", ![q].by = t.user, ![q].target = a, ![q].arg = v]
            PROVE  asked' \in [Requests -> AskedState]
        <5>1. a \in Account /\ t.user \in Account  OBVIOUS
        <5> QED BY <1>1, <4>2, <5>1, ZenonT(60) DEF AskedState
      <4>3. ASSUME NEW a \in born, NEW v \in Users!Roles,
                   asked' = [asked EXCEPT ![q].pc = "write", ![q].target = a, ![q].arg = v]
            PROVE  asked' \in [Requests -> AskedState]
        <5>1. a \in Account  OBVIOUS
        <5>2. v \in Value  BY AccountValues DEF Users!Roles
        <5> QED BY <1>1, <4>3, <5>1, <5>2, ZenonT(60) DEF AskedState
      <4>4. ASSUME NEW v \in Value, Users!Configures(q, v) PROVE asked' \in [Requests -> AskedState]
        BY <1>1, <4>4, ZenonT(60) DEF Users!Configures, AskedState
      <4>5. BOOLEAN \subseteq Value  BY AccountValues
      <4> QED BY <3>3, <4>1, <4>2, <4>3, <4>4, <4>5 DEF Users!Admin
    <3> QED BY <1>2, <3>1, <3>2, <3>3 DEF Users!Begin
  <2> QED BY <1>2, <2>1 DEF Users!Begin
<1>3. CASE Users!LookUp(q)
  BY <1>0, <1>1, <1>3 DEF Users!LookUp, AskedState, Users!Fresh
<1>4. CASE Users!ReadSetting(q)
  BY <1>1, <1>4 DEF Users!ReadSetting, AskedState
<1>5. CASE Users!CacheSetting(q)
  <2>1. asked[q].got \in BOOLEAN  BY <1>1, <1>5 DEF Users!CacheSetting, AskedState
  <2>2. cached' \in [value : BOOLEAN, expiry : Nat]
    BY <1>5, <2>1 DEF Users!CacheSetting, Users!AccountsFit
  <2>3. asked' \in [Requests -> AskedState]
    BY <1>0, <1>1, <1>5, <2>1 DEF Users!CacheSetting, AskedState
  <2> QED BY <1>5, <2>2, <2>3 DEF Users!CacheSetting
<1>6. CASE Users!CountUsers(q)
  BY <1>1, <1>6 DEF Users!CountUsers, AskedState
<1>7. CASE Users!Judge(q)
  BY <1>0, <1>1, <1>7 DEF Users!Judge, AskedState
<1>8. CASE Users!Create(q)
  <2> DEFINE role == IF asked[q].count = "none" THEN "ADMIN" ELSE "USER"
             row == [name |-> asked[q].arg, email |-> Nobody, password |-> "first",
                     limit |-> "default", role |-> role]
  <2>1. role \in Value  BY AccountValues
  <2>2. "first" \in Value /\ asked[q].arg \in Value  BY <1>1, AccountValues DEF Users!Passwords, AskedState
  <2> HIDE DEF role
  <2>3. row \in UserRow  BY <2>1, <2>2, AccountValues DEF UserRow
  <2> HIDE DEF row
  <2>4. \/ UNCHANGED <<accounts, born, tokens>>
        \/ /\ Users!NewId \in Account /\ accounts' = [accounts EXCEPT ![Users!NewId] = row]
           /\ born' = born \cup {Users!NewId}
           /\ tokens' = tokens \cup {Users!Token(Users!NewId, role)}
    BY <1>8 DEF Users!Create, row, role
  <2>5. accounts' \in [Account -> UserRow \cup {Nobody}] /\ born' \subseteq Account
    BY <2>3, <2>4
  <2>6. \A t \in tokens' : t.user \in Account
    BY <2>4 DEF Users!Token
  <2> QED BY <1>0, <1>8, <2>5, <2>6 DEF Users!Create
<1>9. CASE Users!Find(q)
  <2>1. \A a \in Users!Live : a \in Account /\ accounts[a] \in UserRow
    BY DEF Users!Live
  <2>2. ASSUME NEW a \in Users!Live,
               asked' = [asked EXCEPT ![q].pc = "sign", ![q].target = a, ![q].row = accounts[a]]
        PROVE  asked' \in [Requests -> AskedState]
    BY <1>1, <2>1, <2>2, ZenonT(60) DEF AskedState
  <2>3. asked' \in [Requests -> AskedState]
    BY <1>0, <1>9, <2>2 DEF Users!Find
  <2> QED BY <1>9, <2>3 DEF Users!Find
<1>10. CASE Users!Sign(q)
  <2>1. \A t \in tokens' : t.user \in Account
    <3>1. asked[q].target \in Account  BY <1>10 DEF Users!Sign, Users!At, Spelled
    <3> QED BY <1>10, <3>1 DEF Users!Sign, Users!Token
  <2> QED BY <1>0, <1>10, <2>1 DEF Users!Sign
<1>11. CASE Users!Read(q)
  BY <1>0, <1>1, <1>11, AccountValues DEF Users!Read, AskedState, UserRow
<1>12. CASE Users!Check(q)
  BY <1>0, <1>1, <1>12 DEF Users!Check, AskedState
<1>13. CASE Users!WriteEmail(q)
  <2>1. asked[q].arg \in Value  BY <1>1 DEF AskedState
  <2>2. accounts' \in [Account -> UserRow \cup {Nobody}]
    BY <1>13, <2>1 DEF Users!WriteEmail, Users!Live, UserRow
  <2> QED BY <1>0, <1>13, <2>2 DEF Users!WriteEmail
<1>14. CASE Users!Write(q)
  <2>1. asked[q].arg \in Value  BY <1>1 DEF AskedState
  <2>2. Users!Field(asked[q].op) \in {"password", "limit", "role"}
    BY <1>14 DEF Users!Write, Users!At, Users!Field
  <2>3. accounts' \in [Account -> UserRow \cup {Nobody}]
    BY <1>14, <2>1, <2>2 DEF Users!Write, Users!Live, UserRow
  <2> QED BY <1>0, <1>14, <2>3 DEF Users!Write
<1>15. CASE Users!Upsert(q)
  <2>1. enabled' \in BOOLEAN  BY <1>15 DEF Users!Upsert, Users!At, Spelled
  <2> QED BY <1>1, <1>15, <2>1 DEF Users!Upsert, AskedState
<1>16. CASE Users!Invalidate(q)
  BY <1>0, <1>16 DEF Users!Invalidate
<1>17. CASE Users!List(q)
  BY <1>1, <1>17, ZenonT(60) DEF Users!List, AskedState, Users!Of
<1>18. CASE Users!DeleteNext(q)
  BY <1>1, <1>18 DEF Users!DeleteNext, AskedState, Users!Without
<1>19. CASE Users!DeleteFolders(q)
  BY <1>1, <1>19 DEF Users!DeleteFolders, AskedState, Users!Without
<1>20. CASE Users!DeleteRest(q)
  BY <1>1, <1>20 DEF Users!DeleteRest, AskedState, Users!Without
<1>21. CASE Users!DeleteUser(q)
  BY <1>0, <1>21 DEF Users!DeleteUser
<1>22. CASE Users!DropFile(q)
  BY <1>0, <1>22 DEF Users!DropFile, Users!Without
<1> QED BY <1>2, <1>3, <1>4, <1>5, <1>6, <1>7, <1>8, <1>9, <1>10, <1>11, <1>12, <1>13, <1>14,
           <1>15, <1>16, <1>17, <1>18, <1>19, <1>20, <1>21, <1>22 DEF Users!Step

\* A step is about one request, and what this says of it; it keeps the addresses, and what it
\* caches as open is open.
StepFits(q) ==
  /\ \A p \in Requests \ {q} : asked'[p] = asked[p]
  /\ Spelled(q)'
  /\ asked'[q].came <= time /\ (asked'[q].open = TRUE => asked'[q].came < openAt + Ttl)
  /\ Addressed' /\ ~late' /\ time' = time
  /\ \/ cached' = cached \/ cached' = Nobody
     \/ cached'.expiry = time + Ttl /\ (cached'.value = TRUE => Users!Open)

\* Every step of a request is such a step.
LEMMA UsersStepFits ==
  ASSUME Users!AccountsFit, UsersInv, NEW q \in Requests, Users!Step(q)
  PROVE  StepFits(q)
<1>1. /\ asked \in [Requests -> AskedState] /\ asked' \in [Requests -> AskedState]
      /\ accounts \in [Account -> UserRow \cup {Nobody}]
      /\ asked[q] \in AskedState /\ time \in Nat /\ openAt \in Nat /\ Ttl \in Nat \ {0} /\ openAt <= time
  BY UsersTypedStep DEF UsersInv, UsersTyped, Users!AccountsFit, Timely
<1>2. Spelled(q) /\ Punctual(q) /\ Addressed /\ ~late
  BY DEF UsersInv, Timely
<1>3. Users!Ends(q) =>
        /\ \A p \in Requests \ {q} : asked'[p] = asked[p]
        /\ Spelled(q)'
        /\ asked'[q].came <= time /\ (asked'[q].open = TRUE => asked'[q].came < openAt + Ttl)
  BY <1>1, RequestEnded DEF Users!Ends, Spelled
<1>4. UNCHANGED accounts => Addressed'
  BY <1>2 DEF Addressed, Users!Live
<1>5. CASE Users!Begin(q)
  <2> DEFINE Kept == \A p \in Requests \ {q} : asked'[p] = asked[p]
             Fits == /\ Kept /\ Spelled(q)'
                     /\ asked'[q].came = asked[q].came /\ asked'[q].open = asked[q].open
  <2>1. ASSUME Users!Public(q, asked[q].op) PROVE Fits
    <3>1. ASSUME NEW n \in Names, asked' = [asked EXCEPT ![q].pc = "lookup", ![q].arg = n]
          PROVE  Fits
      BY <1>1, <3>1 DEF AskedState, Spelled
    <3>2. ASSUME NEW n \in Names, NEW p \in Users!Passwords,
                 asked' = [asked EXCEPT ![q].pc = "lookup", ![q].arg = n, ![q].old = p]
          PROVE  Fits
      BY <1>1, <3>2 DEF AskedState, Spelled
    <3>3. ASSUME Users!AsksStatus(q) PROVE Fits
      BY <1>1, <3>3 DEF Users!AsksStatus, AskedState, Spelled
    <3>4. \/ \E n \in Names : asked' = [asked EXCEPT ![q].pc = "lookup", ![q].arg = n]
          \/ \E n \in Names, p \in Users!Passwords :
               asked' = [asked EXCEPT ![q].pc = "lookup", ![q].arg = n, ![q].old = p]
          \/ Users!AsksStatus(q)
      BY <2>1, Zenon DEF Users!Public
    <3> HIDE DEF Fits
    <3> QED BY <3>1, <3>2, <3>3, <3>4, Zenon
  <2>2. ASSUME NEW t \in tokens, Users!Own(q, asked[q].op, t) PROVE Fits
    <3>1. t.user \in Account  BY DEF UsersInv, UsersTyped
    <3>2. ASSUME NEW e \in Users!Emails \cup {Nobody, Unnamed}, asked[q].op = "email",
                 asked' = [asked EXCEPT ![q].pc = "read", ![q].target = t.user, ![q].arg = e]
          PROVE  Fits
      BY <1>1, <3>1, <3>2 DEF AskedState, Spelled
    <3>3. ASSUME NEW p \in Users!Passwords, NEW n \in Users!Passwords, asked[q].op = "password",
                 asked' = [asked EXCEPT ![q].pc = "read", ![q].target = t.user, ![q].arg = n, ![q].old = p]
          PROVE  Fits
      BY <1>1, <3>1, <3>3 DEF AskedState, Spelled
    <3>4. Users!Args("email") = Users!Emails \cup {Nobody, Unnamed}
      BY DEF Users!Args
    <3> HIDE DEF Fits
    <3> QED BY <2>2, <3>2, <3>3, <3>4 DEF Users!Own
  <2>3. ASSUME NEW t \in tokens, Users!Admin(q, asked[q].op, t) PROVE Fits
    <3>1. born \subseteq Account  BY DEF UsersInv, UsersTyped
    <3>2. Users!Args("email") = Users!Emails \cup {Nobody, Unnamed}
      BY DEF Users!Args
    <3>3. ASSUME NEW a \in born, NEW v \in Users!Args(asked[q].op),
                 asked' = [asked EXCEPT ![q].pc = "read", ![q].by = t.user, ![q].target = a, ![q].arg = v]
          PROVE  Fits
      BY <1>1, <3>1, <3>2, <3>3 DEF AskedState, Spelled
    <3>4. ASSUME NEW a \in born, NEW v \in Users!Roles, asked[q].op = "role",
                 asked' = [asked EXCEPT ![q].pc = "write", ![q].target = a, ![q].arg = v]
          PROVE  Fits
      BY <1>1, <3>4 DEF AskedState, Spelled
    <3>5. ASSUME NEW v, v \in BOOLEAN, asked[q].op = "setting", Users!Configures(q, v) PROVE Fits
      <4>1. asked' = [asked EXCEPT ![q].pc = "write", ![q].arg = v]  BY <3>5 DEF Users!Configures
      <4>2. /\ asked'[q].op = "setting" /\ asked'[q].pc = "write" /\ asked'[q].arg = v
            /\ Kept /\ asked'[q].came = asked[q].came /\ asked'[q].open = asked[q].open
        BY <1>1, <3>5, <4>1 DEF AskedState
      <4>3. Spelled(q)'
        <5>1. (asked[q].arg)' \in BOOLEAN  BY <3>5, <4>2, Zenon
        <5> QED BY <4>2, <5>1 DEF Spelled
      <4> QED BY <4>2, <4>3
    <3> HIDE DEF Fits
    <3> QED BY <2>3, <3>3, <3>4, <3>5 DEF Users!Admin
  <2>4. Fits
    <3> HIDE DEF Fits
    <3> QED BY <1>5, <2>1, <2>2, <2>3 DEF Users!Begin
  <2> QED BY <1>1, <1>2, <1>4, <1>5, <2>4 DEF Users!Begin, Punctual, StepFits
<1>6. CASE Users!LookUp(q)
  BY <1>1, <1>2, <1>3, <1>4, <1>6 DEF Users!LookUp, Users!At, Spelled, Punctual, AskedState, StepFits
<1>7. CASE Users!ReadSetting(q)
  BY <1>1, <1>2, <1>3, <1>4, <1>7 DEF Users!ReadSetting, Users!At, Spelled, Punctual, AskedState, StepFits
<1>8. CASE Users!CacheSetting(q)
  <2>1. asked[q].got \in BOOLEAN /\ (asked[q].got = TRUE => Users!Open)
    BY <1>1, <1>8 DEF Users!CacheSetting, AskedState, Users!Open
  <2>2. Users!Open => openAt = time
    BY DEF UsersInv, Timely
  <2>3. /\ \A p \in Requests \ {q} : asked'[p] = asked[p]
        /\ Spelled(q)'
        /\ asked'[q].came <= time /\ (asked'[q].open = TRUE => asked'[q].came < openAt + Ttl)
    <3>1. CASE Users!Ends(q)  BY <1>3, <3>1
    <3>2. CASE asked' = [asked EXCEPT ![q].open = asked[q].got, ![q].got = Nobody]
      <4>1. /\ asked'[q].open = asked[q].got /\ asked'[q].came = asked[q].came
            /\ asked'[q].pc = asked[q].pc /\ asked'[q].op = asked[q].op /\ asked'[q].arg = asked[q].arg
            /\ asked'[q].target = asked[q].target
            /\ \A p \in Requests \ {q} : asked'[p] = asked[p]
        BY <1>1, <3>2 DEF AskedState
      <4>2. asked[q].came \in Nat  BY <1>1 DEF AskedState
      <4>3. asked'[q].open = TRUE => asked'[q].came < openAt + Ttl
        BY <1>1, <1>2, <2>1, <2>2, <4>1, <4>2 DEF Punctual
      <4>4. Spelled(q)'  BY <1>2, <4>1 DEF Spelled
      <4> QED BY <1>2, <4>1, <4>3, <4>4 DEF Punctual
    <3> QED BY <1>8, <3>1, <3>2 DEF Users!CacheSetting
  <2>4. cached'.expiry = time + Ttl /\ cached'.value = asked[q].got
    BY <1>8 DEF Users!CacheSetting
  <2> QED BY <1>2, <1>4, <1>8, <2>1, <2>3, <2>4 DEF Users!CacheSetting, StepFits
<1>9. CASE Users!CountUsers(q)
  BY <1>1, <1>2, <1>3, <1>4, <1>9 DEF Users!CountUsers, Users!At, Spelled, Punctual, AskedState, StepFits
<1>10. CASE Users!Judge(q)
  <2>1. CASE Users!Ends(q) /\ UNCHANGED late
    BY <1>2, <1>3, <1>4, <1>10, <2>1 DEF Users!Judge, StepFits
  <2>2. CASE /\ asked' = [asked EXCEPT ![q].pc = "create"]
             /\ late' = (late \/ (asked[q].count = "some" /\ asked[q].came >= openAt + Ttl))
             /\ ~(~asked[q].open /\ asked[q].count = "some")
    <3>1. asked[q].open \in BOOLEAN
      BY <1>1, <1>10 DEF Users!Judge, AskedState
    <3>2. asked[q].count = "some" => asked[q].open = TRUE
      BY <2>2, <3>1
    <3>3. ~late'
      <4>1. asked[q].came \in Nat  BY <1>1 DEF AskedState
      <4>2. asked[q].count = "some" => ~(asked[q].came >= openAt + Ttl)
        BY <1>1, <1>2, <3>2, <4>1 DEF Punctual
      <4> QED BY <1>2, <2>2, <4>2
    <3>4. /\ asked'[q].open = asked[q].open /\ asked'[q].came = asked[q].came
          /\ asked'[q].op = asked[q].op /\ asked'[q].pc = "create"
          /\ \A p \in Requests \ {q} : asked'[p] = asked[p]
      BY <1>1, <2>2 DEF AskedState
    <3>5. Spelled(q)'  BY <3>4 DEF Spelled
    <3> QED BY <1>2, <1>4, <1>10, <3>3, <3>4, <3>5 DEF Users!Judge, Punctual, StepFits
  <2> QED BY <1>10, <2>1, <2>2 DEF Users!Judge
<1>11. CASE Users!Create(q)
  <2>1. \A a \in Account : accounts'[a] = accounts[a] \/ accounts'[a].email = Nobody
    BY <1>1, <1>11 DEF Users!Create
  <2>2. Addressed'
    BY <1>2, <2>1 DEF Addressed, Users!Live
  <2> QED BY <1>2, <1>3, <1>11, <2>2 DEF Users!Create, StepFits
<1>12. CASE Users!Find(q)
  <2>1. ASSUME NEW a \in Users!Live,
               asked' = [asked EXCEPT ![q].pc = "sign", ![q].target = a, ![q].row = accounts[a]]
        PROVE  /\ \A p \in Requests \ {q} : asked'[p] = asked[p]
               /\ Spelled(q)' /\ asked'[q].came = asked[q].came /\ asked'[q].open = asked[q].open
    <3>1. a \in Account  BY DEF Users!Live
    <3> QED BY <1>1, <2>1, <3>1 DEF AskedState, Spelled
  <2>2. /\ \A p \in Requests \ {q} : asked'[p] = asked[p]
        /\ Spelled(q)'
        /\ asked'[q].came <= time /\ (asked'[q].open = TRUE => asked'[q].came < openAt + Ttl)
    BY <1>2, <1>3, <1>12, <2>1 DEF Users!Find, Punctual
  <2> QED BY <1>2, <1>4, <1>12, <2>2 DEF Users!Find, StepFits
<1>13. CASE Users!Sign(q)
  BY <1>1, <1>2, <1>3, <1>4, <1>13 DEF Users!Sign, Users!At, Spelled, Punctual, AskedState, StepFits
<1>14. CASE Users!Read(q)
  BY <1>1, <1>2, <1>3, <1>4, <1>14 DEF Users!Read, Users!At, Spelled, Punctual, AskedState, StepFits
<1>15. CASE Users!Check(q)
  BY <1>1, <1>2, <1>3, <1>4, <1>15 DEF Users!Check, Users!At, Spelled, Punctual, AskedState, StepFits
<1>16. CASE Users!WriteEmail(q)
  <2> DEFINE a == asked[q].target
  <2>1. asked[q].arg \in Address \cup {Nobody}
    BY <1>2, <1>16 DEF Users!WriteEmail, Users!At, Spelled
  <2>2. \/ accounts' = accounts
        \/ /\ a \in Users!Live /\ ~Users!Taken(a, asked[q].arg)
           /\ accounts' = [accounts EXCEPT ![a].email = asked[q].arg]
    BY <1>16 DEF Users!WriteEmail
  <2>3. ASSUME a \in Users!Live, ~Users!Taken(a, asked[q].arg),
               accounts' = [accounts EXCEPT ![a].email = asked[q].arg]
        PROVE  Addressed'
    <3>1. accounts'[a].email = asked[q].arg /\ \A b \in Account \ {a} : accounts'[b] = accounts[b]
      BY <1>1, <2>3 DEF Users!Live, UserRow
    <3>2. \A b \in Users!Live \ {a} : asked[q].arg # Nobody => accounts[b].email # asked[q].arg
      BY <2>3 DEF Users!Taken
    <3>3. Users!Live' \subseteq Users!Live
      BY <2>3, <3>1 DEF Users!Live
    <3>4. ASSUME NEW b \in Users!Live' PROVE accounts'[b].email \in Address \cup {Nobody}
      <4>1. b \in Users!Live /\ b \in Account  BY <3>3 DEF Users!Live
      <4> QED BY <1>2, <2>1, <3>1, <4>1 DEF Addressed
    <3>5. ASSUME NEW b \in Users!Live', NEW c \in Users!Live',
                 accounts'[b].email = accounts'[c].email, accounts'[b].email # Nobody
          PROVE  b = c
      <4>1. b \in Users!Live /\ b \in Account /\ c \in Users!Live /\ c \in Account
        BY <3>3 DEF Users!Live
      <4> QED BY <1>2, <3>1, <3>2, <3>5, <4>1 DEF Addressed
    <3> QED BY <3>4, <3>5 DEF Addressed
  <2>5. Addressed'  BY <1>4, <2>2, <2>3, Zenon
  <2> QED BY <1>2, <1>3, <1>16, <2>5 DEF Users!WriteEmail, StepFits
<1>17. CASE Users!Write(q)
  <2> DEFINE a == asked[q].target
  <2>1. Users!Field(asked[q].op) \in {"password", "limit", "role"}
    BY <1>17 DEF Users!Write, Users!At, Users!Field
  <2>2. ASSUME a \in Users!Live, accounts' = [accounts EXCEPT ![a][Users!Field(asked[q].op)] = asked[q].arg]
        PROVE  Addressed'
    <3>1. accounts'[a].email = accounts[a].email /\ \A b \in Account \ {a} : accounts'[b] = accounts[b]
      BY <1>1, <2>1, <2>2 DEF Users!Live, UserRow
    <3>2. Users!Live' \subseteq Users!Live
      BY <2>2, <3>1 DEF Users!Live
    <3>3. \A b \in Users!Live' : b \in Users!Live /\ accounts'[b].email = accounts[b].email
      <4>1. Users!Live \subseteq Account  BY DEF Users!Live
      <4> QED BY <3>1, <3>2, <4>1
    <3> QED BY <1>2, <3>3 DEF Addressed
  <2>4. \/ accounts' = accounts
        \/ a \in Users!Live /\ accounts' = [accounts EXCEPT ![a][Users!Field(asked[q].op)] = asked[q].arg]
    BY <1>17, Zenon DEF Users!Write
  <2>5. Addressed'  BY <1>4, <2>2, <2>4, Zenon
  <2> QED BY <1>2, <1>3, <1>17, <2>5 DEF Users!Write, StepFits
<1>18. CASE Users!Upsert(q)
  BY <1>1, <1>2, <1>3, <1>4, <1>18 DEF Users!Upsert, Users!At, Spelled, Punctual, AskedState, StepFits
<1>19. CASE Users!Invalidate(q)
  BY <1>1, <1>2, <1>3, <1>4, <1>19 DEF Users!Invalidate, Users!At, Spelled, Punctual, AskedState, StepFits
<1>20. CASE Users!List(q)
  BY <1>1, <1>2, <1>3, <1>4, <1>20 DEF Users!List, Users!At, Spelled, Punctual, AskedState, StepFits
<1>21. CASE Users!DeleteNext(q)
  BY <1>1, <1>2, <1>3, <1>4, <1>21 DEF Users!DeleteNext, Users!At, Spelled, Punctual, AskedState, StepFits
<1>22. CASE Users!DeleteFolders(q)
  BY <1>1, <1>2, <1>3, <1>4, <1>22 DEF Users!DeleteFolders, Users!At, Spelled, Punctual, AskedState, StepFits
<1>23. CASE Users!DeleteRest(q)
  BY <1>1, <1>2, <1>3, <1>4, <1>23 DEF Users!DeleteRest, Users!At, Spelled, Punctual, AskedState, StepFits
<1>24. CASE Users!DeleteUser(q)
  <2>1. Users!Live' \subseteq Users!Live /\ \A a \in Users!Live' : accounts'[a] = accounts[a]
    BY <1>1, <1>24 DEF Users!DeleteUser, Users!Live
  <2>2. Addressed'  BY <1>2, <2>1 DEF Addressed
  <2> QED BY <1>2, <1>3, <1>24, <2>2 DEF Users!DeleteUser, StepFits
<1>25. CASE Users!DropFile(q)
  BY <1>1, <1>2, <1>3, <1>4, <1>25 DEF Users!DropFile, Users!At, Spelled, Punctual, AskedState, StepFits
<1> QED BY <1>5, <1>6, <1>7, <1>8, <1>9, <1>10, <1>11, <1>12, <1>13, <1>14, <1>15, <1>16, <1>17, <1>18, <1>19, <1>20, <1>21, <1>22, <1>23, <1>24, <1>25 DEF Users!Step

\* The invariant is kept: what was dated by openAt stays dated when openAt moves on with the clock.
LEMMA UsersInvStep ==
  ASSUME Users!AccountsFit, UsersInv, [Users!Next]_Users!vars PROVE UsersInv'
<1>1. CASE Users!Next
  <2>1. openAt' = IF Users!Open' THEN time' ELSE openAt
    BY <1>1 DEF Users!Next
  <2>2. time \in Nat /\ openAt \in Nat /\ openAt <= time /\ Ttl \in Nat /\ (Users!Open => openAt = time)
        /\ ~late /\ ((cached # Nobody /\ cached.value = TRUE) => cached.expiry <= openAt + Ttl)
    BY DEF UsersInv, UsersTyped, Users!AccountsFit, Timely
  <2>3. ASSUME NEW q \in Requests, Users!Step(q) PROVE UsersInv'
    <3>1. StepFits(q) /\ UsersTyped'  BY <2>3, UsersStepFits, UsersTypedStep
    <3>2. openAt' \in Nat /\ openAt <= openAt' /\ openAt' <= time' /\ time' = time /\ (Users!Open' => openAt' = time')
      BY <2>1, <2>2, <3>1 DEF StepFits
    <3>3. (cached' # Nobody /\ cached'.value = TRUE) => cached'.expiry <= openAt' + Ttl
      <4>1. CASE cached' = cached
        <5>1. cached # Nobody => cached.expiry \in Nat  BY DEF UsersInv, UsersTyped
        <5> QED BY <2>2, <3>2, <4>1, <5>1
      <4>2. CASE cached' = Nobody  BY <4>2
      <4>3. CASE cached'.expiry = time + Ttl /\ (cached'.value = TRUE => Users!Open)
        <5>1. /\ time \in Nat /\ Ttl \in Nat /\ openAt \in Nat
              /\ openAt' \in Nat /\ openAt <= openAt'
          BY <2>2, <3>2, Zenon
        <5>2. \A k, m, n \in Nat : k <= m => k + n <= m + n
          OBVIOUS
        <5>3. openAt = time => time + Ttl <= openAt' + Ttl
          BY <5>1, <5>2, Zenon
        <5>4. Users!Open => openAt = time  BY <2>2, Zenon
        <5>5. cached'.value = TRUE => time + Ttl <= openAt' + Ttl
          BY <4>3, <5>3, <5>4, Zenon
        <5>6. cached'.expiry = time + Ttl  BY <4>3, Zenon
        <5> QED BY <5>5, <5>6, Zenon
      <4> QED BY <3>1, <4>1, <4>2, <4>3 DEF StepFits
    <3>4. ASSUME NEW p \in Requests PROVE Spelled(p)' /\ Punctual(p)'
      <4>1. CASE p = q
        <5>1. asked'[q].came \in Nat  BY <3>1 DEF UsersTyped, AskedState
        <5> QED BY <2>2, <3>1, <3>2, <4>1, <5>1 DEF StepFits, Punctual
      <4>2. CASE p # q
        <5>1. asked'[p] = asked[p] /\ Spelled(p) /\ Punctual(p)
          BY <3>1, <4>2 DEF StepFits, UsersInv
        <5>2. asked[p].came \in Nat  BY DEF UsersInv, UsersTyped, AskedState
        <5>3. Punctual(p)'  BY <2>2, <3>2, <5>1, <5>2 DEF Punctual
        <5>4. Spelled(p)'  BY <5>1 DEF Spelled
        <5> QED BY <5>3, <5>4
      <4> QED BY <4>1, <4>2
    <3>5. Timely'  BY <3>1, <3>2, <3>3 DEF Timely, StepFits
    <3> QED BY <3>1, <3>4, <3>5 DEF UsersInv, StepFits
  <2>4. ASSUME NEW x \in Row, Users!AddRow(x) PROVE UsersInv'
    <3>1. ownerOf' \in [Row -> Account \cup {Nobody}]
      BY <2>4 DEF Users!AddRow, Users!Live, UsersInv, UsersTyped
    <3>2. Users!Open' <=> Users!Open  BY <2>4 DEF Users!AddRow, Users!Open
    <3>3. openAt' = openAt /\ time' = time /\ asked' = asked /\ accounts' = accounts
      BY <2>1, <2>2, <2>4, <3>2 DEF Users!AddRow
    <3>4. Addressed' /\ \A p \in Requests : Spelled(p)' /\ Punctual(p)'
      BY <3>3 DEF UsersInv, Addressed, Users!Live, Spelled, Punctual
    <3> QED BY <2>2, <2>4, <3>1, <3>2, <3>3, <3>4 DEF Users!AddRow, UsersInv, UsersTyped, Timely
  <2>5. CASE Users!Tick
    <3>1. time' \in Nat /\ time' = time + 1 /\ Users!Open' = Users!Open /\ asked' = asked /\ accounts' = accounts
      BY <2>2, <2>5 DEF Users!Tick, Users!Open
    <3>2. openAt' \in Nat /\ openAt <= openAt' /\ openAt' <= time' /\ (Users!Open' => openAt' = time')
      BY <2>1, <2>2, <3>1
    <3>3. (cached' # Nobody /\ cached'.value = TRUE) => cached'.expiry <= openAt' + Ttl
      <4>1. cached # Nobody => cached.expiry \in Nat  BY DEF UsersInv, UsersTyped
      <4> QED BY <2>2, <2>5, <3>2, <4>1 DEF Users!Tick
    <3>4. Timely'  BY <2>2, <2>5, <3>2, <3>3 DEF Timely, Users!Tick
    <3>5. ASSUME NEW p \in Requests PROVE Spelled(p)' /\ Punctual(p)'
      <4>1. Spelled(p) /\ Punctual(p) /\ asked[p].came \in Nat
        BY DEF UsersInv, UsersTyped, AskedState
      <4>2. Punctual(p)'  BY <2>2, <3>1, <3>2, <4>1 DEF Punctual
      <4> QED BY <3>1, <4>1, <4>2 DEF Spelled
    <3>6. Addressed'  BY <3>1 DEF UsersInv, Addressed, Users!Live
    <3> QED BY <2>5, <3>1, <3>4, <3>5, <3>6 DEF Users!Tick, UsersInv, UsersTyped
  <2> QED BY <1>1, <2>3, <2>4, <2>5 DEF Users!Next
<1>2. CASE UNCHANGED Users!vars
  BY <1>2 DEF Users!vars, UsersInv, UsersTyped, Addressed, Users!Live, Timely, Users!Open, Spelled, Punctual
<1> QED BY <1>1, <1>2

\* Two accounts never have one e-mail address in two spellings, however many requests check an
\* address while others write one (updateAccountEmail), and nobody but a first user is let in who
\* comes when the registration has been closed for the lifetime of settingsCache (register).
THEOREM AccountsAreSound ==
  ASSUME Users!AccountsFit PROVE Users!Spec => []AccountsHold
<1>1. Users!Init => UsersInv
  BY UsersInvInit
<1>2. UsersInv /\ [Users!Next]_Users!vars => UsersInv'
  BY UsersInvStep
<1>3. UsersInv => AccountsHold
  <2>1. ASSUME UsersInv, NEW a \in Users!Live, NEW b \in Users!Live, Users!Same(accounts[a].email, accounts[b].email)
        PROVE  a = b
    <3>1. accounts[a].email \in Address /\ accounts[b].email \in Address
          /\ accounts[a].email # Nobody /\ accounts[b].email # Nobody
      BY <2>1 DEF UsersInv, Addressed, Users!Same
    <3>2. \A A, B : \A x, y \in [word : A, plain : B] : x.word = y.word /\ x.plain = y.plain => x = y
      OBVIOUS
    <3>3. \A x, y \in Address : x.word = y.word /\ x.plain = y.plain
      BY DEF Address
    <3>4. accounts[a].email = accounts[b].email
      BY <3>1, <3>2, <3>3 DEF Address
    <3> QED BY <2>1, <3>1, <3>4 DEF UsersInv, Addressed
  <2> QED BY <2>1 DEF AccountsHold, Users!AccountsHold, Users!EmailsDiffer, Users!ClosesInTime, UsersInv, Timely
<1> QED BY <1>1, <1>2, <1>3, PTL DEF Users!Spec
=============================================================================
