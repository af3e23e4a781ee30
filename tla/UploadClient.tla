---------------------------- MODULE UploadClient ----------------------------
(* The upload queue of the frontend: the provider that works through the    *)
(* files a user adds, the gate and the engine of one chunked upload, and    *)
(* the dialog in which the user decides about a name that is taken.         *)
(*                                                                          *)
(* A step is what runs between two awaits.  It reads queueRef, the queue of *)
(* the last render (seen), and updates the state, which the next render     *)
(* shows.  A render is a task that React posts at once: it comes before the *)
(* next answer or click, but after what the step has woken by a promise.    *)
(* What the core answers is left open: any name may be taken, any call may  *)
(* fail.                                                                    *)
EXTENDS Naturals, FiniteSets, Sequences

CONSTANTS Item,        \* a file; its number is its place in the queue
          Sizes,       \* which files may be the ones of a single chunk
          Drops,       \* what the user adds at once
          Folders,     \* Folders[i]: the folders above file i in a dropped folder
          Chunks,      \* of the other files
          Batch,       \* UPLOAD_SMALL_FILE_BATCH
          Concurrency, \* workers of one upload
          Retries,     \* UPLOAD_MAX_CHUNK_RETRIES
          Clicks       \* how often the user intervenes

ClientFits == Item \subseteq Nat /\ Chunks \in Nat /\ Concurrency \in Nat \ {0}

VARIABLES small,      \* the files of a single chunk
          queue,      \* the state: what the user sees once it is rendered
          seen,       \* queueRef.current
          processing, \* processingRef.current
          run,        \* processItem and uploadChunked, for every file
          paused,     \* pausedForConflict; the init that waits is the one that is parked
          page,       \* the dashboard: its conflict dialog and its "apply to all"
          move,       \* its batch of moves
          refused,    \* history: 409s since the user decided about the last one
          bypassed,   \* history: a conflict was retried or cleared, not decided
          clicks

vars == <<small, queue, seen, processing, run, paused, page, move, refused, bypassed, clicks>>

Resolutions == {"skip", "overwrite", "rename"}

-----------------------------------------------------------------------------
(* The queue.                                                               *)

Entry == [status : {"absent", "adding", "pending", "uploading", "complete", "error",
                    "cancelled", "cleared"},
          error : {"none", "conflict", "other"},
          action : {"none", "overwrite", "rename"},
          folderSetupFailed : BOOLEAN]

NoEntry == [status |-> "absent", error |-> "none", action |-> "none", folderSetupFailed |-> FALSE]

With(q, status) == {i \in Item : q[i].status = status}
Active(q) == With(q, "pending") \cup With(q, "uploading")
InQueue(q) == {i \in Item : q[i].status \notin {"absent", "adding", "cleared"}}

\* What the loop takes for a conflict, and what the dashboard does.
Unresolved(q) == {i \in With(q, "error") : q[i].error = "conflict"}
Flagged(q) == {i \in InQueue(q) : q[i].error = "conflict"}

FirstOf(S, n) == {i \in S : Cardinality({j \in S : j < i}) < n}
Least(S) == CHOOSE i \in S : \A j \in S : i <= j

\* updateItem: a file that has left the queue is not put back.
Updated(q, S, data) ==
  [i \in Item |-> IF i \in S \cap InQueue(q) THEN [k \in DOMAIN q[i] |->
                    IF k \in DOMAIN data THEN data[k] ELSE q[i][k]] ELSE q[i]]

\* What a retry and a decision have in common.
Again == [status |-> "pending", error |-> "none"]

\* resolveConflict.
Resolved(q, i, resolution) ==
  IF resolution = "skip" THEN Updated(q, {i}, [status |-> "cancelled", error |-> "other"])
  ELSE Updated(q, {i}, [status |-> "pending", error |-> "none", action |-> resolution])

-----------------------------------------------------------------------------
(* One upload.                                                              *)

NoRun == [pc |-> "none", action |-> "none", next |-> 1, sending |-> <<>>, done |-> {},
          failed |-> "no", aborted |-> FALSE]

Count(i) == IF i \in small THEN 1 ELSE Chunks

Running == {i \in Item : run[i].pc # "none"}

\* initChain: the inits of a batch run one after the other.
Gated == {i \in Item : run[i].pc \in {"chained", "parked", "init"}}

\* resumeInitAfterConflict.
Woken(r) == [i \in Item |-> IF r[i].pc = "parked" THEN [r[i] EXCEPT !.pc = "init"] ELSE r[i]]

\* processItem up to its first await.
Begun(r, batch, q) ==
  [i \in Item |-> IF i \in batch THEN [NoRun EXCEPT !.pc = "chained", !.action = q[i].action]
                  ELSE r[i]]

\* The next files: none while a conflict awaits its decision, small ones together.
NextBatch(q) ==
  LET together == With(q, "pending") \cap small
  IN  IF Unresolved(q) # {} THEN {}
      ELSE IF together # {} THEN FirstOf(together, Batch)
      ELSE FirstOf(With(q, "pending"), 1)

\* A render and the effects that it sets off: the dashboard looks for a conflict, the
\* provider for files to begin with.  q and p are what is rendered; resumes says that
\* the step before has opened the gate, decides that the user has made up her mind.
Rendered(q, p, r, resumes, decides) ==
  LET watches == p.on /\ p.dialog = 0 /\ Flagged(q) # {}
      auto == watches /\ p.all # "none"
      starts == ~processing /\ With(q, "pending") # {} /\ With(q, "uploading") = {}
      batch == IF starts THEN NextBatch(q) ELSE {}
      opens == resumes \/ auto \/ (starts /\ Unresolved(q) = {})
      decided == IF auto THEN Resolved(q, Least(Flagged(q)), p.all) ELSE q
  IN  /\ seen' = q
      /\ queue' = Updated(decided, batch, [status |-> "uploading"])
      /\ page' = IF watches /\ ~auto THEN [p EXCEPT !.dialog = Least(Flagged(q))] ELSE p
      /\ paused' = (paused /\ ~opens)
      /\ run' = Begun(IF opens THEN Woken(r) ELSE r, batch, q)
      /\ processing' = (processing \/ batch # {})
      /\ refused' = IF decides \/ auto THEN 0 ELSE refused

Render ==
  /\ seen # queue
  /\ Rendered(queue, page, run, FALSE, FALSE)
  /\ UNCHANGED <<move, bypassed, clicks>>

\* The batch is settled: the loop goes on with what queueRef holds.
LoopAgain ==
  /\ processing /\ Running = {}
  /\ LET batch == NextBatch(seen) IN
       /\ queue' = Updated(queue, batch, [status |-> "uploading"])
       /\ run' = Begun(run, batch, seen)
       /\ processing' = (batch # {})
  /\ UNCHANGED <<seen, paused, page, move, refused, bypassed, clicks>>

\* processItem ends; data is what it says of the file.
Ends(i, data) ==
  /\ queue' = Updated(queue, {i}, data)
  /\ run' = [run EXCEPT ![i] = NoRun]

\* runGatedInit: the turn of this init has come.
Enter(i) ==
  /\ run[i].pc = "chained" /\ \A j \in Gated : i <= j
  /\ run' = [run EXCEPT ![i].pc = IF paused THEN "parked" ELSE "init"]
  /\ UNCHANGED <<queue, seen, processing, paused, page, move, refused, bypassed, clicks>>

\* Mutant of PausesAt: the gate stays open.
PausesNever(status) == FALSE

\* pauseInitForConflict.
PausesAt(status) == status = 409

InitRefused(i) ==
  /\ run[i].pc = "init" /\ run[i].action = "none"
  /\ paused' = (paused \/ PausesAt(409))
  /\ refused' = IF i \in InQueue(queue) THEN refused + 1 ELSE refused
  /\ bypassed' = (bypassed \/ i \notin InQueue(queue))
  /\ Ends(i, [status |-> "error", error |-> "conflict"])
  /\ UNCHANGED <<seen, processing, page, move, clicks>>

InitFails(i) ==
  /\ run[i].pc = "init"
  /\ Ends(i, [status |-> "error", error |-> "other"])
  /\ UNCHANGED <<seen, processing, paused, page, move, refused, bypassed, clicks>>

\* A worker that looks for its next chunk gives up.
Stops(i) == i \notin InQueue(seen) \/ seen[i].status \in {"cancelled", "error"}

Cancelled(i) == i \notin InQueue(seen) \/ seen[i].status = "cancelled"

\* Workers take chunks until each has one; the controllers of r go with them.
Taking(i, r, workers) ==
  LET last == IF r.failed # "no" \/ Stops(i) THEN r.next - 1
              ELSE IF r.next + workers - 1 < Count(i) THEN r.next + workers - 1 ELSE Count(i)
  IN  [r EXCEPT !.next = last + 1,
                !.sending = [c \in DOMAIN r.sending \cup r.next .. last |->
                               IF c \in DOMAIN r.sending THEN r.sending[c] ELSE 0]]

\* The workers go on, or, once all have ended, the upload: it fails, turns out to be
\* cancelled, or asks for its completion.
GoOn(i, r) ==
  IF r.sending # <<>> THEN run' = [run EXCEPT ![i] = r] /\ UNCHANGED queue
  ELSE IF r.failed = "error" THEN Ends(i, [status |-> "error", error |-> "other"])
  ELSE IF r.failed = "cancel" \/ Cancelled(i) THEN Ends(i, <<>>)
  ELSE run' = [run EXCEPT ![i] = [r EXCEPT !.pc = "complete"]] /\ UNCHANGED queue

InitOk(i) ==
  /\ run[i].pc = "init"
  /\ GoOn(i, Taking(i, [run[i] EXCEPT !.pc = "chunks"], Concurrency))
  /\ UNCHANGED <<seen, processing, paused, page, move, refused, bypassed, clicks>>

ChunkOk(i, c) ==
  /\ run[i].pc = "chunks" /\ c \in DOMAIN run[i].sending /\ ~run[i].aborted
  /\ LET rest == [x \in DOMAIN run[i].sending \ {c} |-> run[i].sending[x]] IN
       GoOn(i, Taking(i, [run[i] EXCEPT !.sending = rest, !.done = @ \cup {c}], 1))
  /\ UNCHANGED <<seen, processing, paused, page, move, refused, bypassed, clicks>>

\* 429, or 503 while the buffer is full: the chunk is sent again after a while.
ChunkBusy(i, c) ==
  /\ run[i].pc = "chunks" /\ c \in DOMAIN run[i].sending /\ ~run[i].aborted
  /\ run[i].sending[c] < Retries
  /\ run' = [run EXCEPT ![i].sending[c] = @ + 1]
  /\ UNCHANGED <<queue, seen, processing, paused, page, move, refused, bypassed, clicks>>

\* A chunk is given up, and the first to be takes the others along.
ChunkThrows(i, c) ==
  /\ run[i].pc = "chunks" /\ c \in DOMAIN run[i].sending
  /\ LET rest == [x \in DOMAIN run[i].sending \ {c} |-> run[i].sending[x]]
         why == IF run[i].aborted THEN "cancel" ELSE "error"
     IN  GoOn(i, [run[i] EXCEPT !.sending = rest, !.aborted = TRUE,
                                !.failed = IF @ = "no" THEN why ELSE @])
  /\ UNCHANGED <<seen, processing, paused, page, move, refused, bypassed, clicks>>

CompleteOk(i) ==
  /\ run[i].pc = "complete"
  /\ Ends(i, IF Cancelled(i) THEN <<>> ELSE [status |-> "complete"])
  /\ UNCHANGED <<seen, processing, paused, page, move, refused, bypassed, clicks>>

CompleteFails(i) ==
  /\ run[i].pc = "complete"
  /\ Ends(i, [status |-> "error", error |-> "other"])
  /\ UNCHANGED <<seen, processing, paused, page, move, refused, bypassed, clicks>>

UploadAnswer(i) ==
  \/ InitOk(i) \/ InitRefused(i) \/ InitFails(i) \/ CompleteOk(i) \/ CompleteFails(i)
  \/ \E c \in 1 .. Chunks : ChunkOk(i, c) \/ ChunkBusy(i, c) \/ ChunkThrows(i, c)

-----------------------------------------------------------------------------
(* The user.                                                                *)

Click == clicks > 0 /\ clicks' = clicks - 1

\* Files take their places in the queue one after the other.
Fits(S) == S # {} /\ S \subseteq With(queue, "absent")
           /\ \A i \in With(queue, "absent") \ S : i > Least(S)

AddFiles(S) ==
  /\ Fits(S) /\ With(queue, "adding") = {}
  /\ Rendered([i \in Item |-> IF i \in S THEN [NoEntry EXCEPT !.status = "pending"] ELSE queue[i]],
              page, run, FALSE, FALSE)
  /\ UNCHANGED <<move, bypassed, clicks>>

\* addFolder: its folders are created first, by one call.
AddFolder(S) ==
  /\ Fits(S) /\ With(queue, "adding") = {}
  /\ queue' = [i \in Item |-> IF i \in S THEN [NoEntry EXCEPT !.status = "adding"] ELSE queue[i]]
  /\ seen' = [i \in Item |-> IF i \in S THEN queue'[i] ELSE seen[i]]
  /\ UNCHANGED <<processing, run, paused, page, move, refused, bypassed, clicks>>

\* validateFolderBatch: the files below a folder that was not made have nowhere to go.
FoldersMade(failed) ==
  /\ With(queue, "adding") # {}
  /\ queue' = [i \in Item |->
                 IF i \notin With(queue, "adding") THEN queue[i]
                 ELSE IF Folders[i] \cap failed = {} THEN [NoEntry EXCEPT !.status = "pending"]
                 ELSE [NoEntry EXCEPT !.status = "error", !.error = "other", !.folderSetupFailed = TRUE]]
  /\ UNCHANGED <<seen, processing, run, paused, page, move, refused, bypassed, clicks>>

\* cancelItem of one file, or of all that are not done (cancelAll).  A request under
\* way is aborted when a chunk is, and only then.
Cancel(S) ==
  /\ Click
  /\ S # {} /\ S \subseteq Active(seen)
  /\ LET aborted == {i \in S : seen[i].status = "uploading" /\ run[i].pc = "chunks"} IN
       Rendered(Updated(queue, S, [status |-> "cancelled"]), page,
                [i \in Item |-> IF i \in aborted THEN [run[i] EXCEPT !.aborted = TRUE] ELSE run[i]],
                TRUE, TRUE)
  /\ bypassed' = FALSE
  /\ UNCHANGED move

Retry(i) ==
  /\ Click
  /\ seen[i].status = "error" /\ ~seen[i].folderSetupFailed
  /\ bypassed' = (bypassed \/ i \in Unresolved(queue))
  /\ Rendered(Updated(queue, {i}, Again), page, run, FALSE, TRUE)
  /\ UNCHANGED move

ClearCompleted ==
  /\ Click
  /\ InQueue(queue) # Active(queue)
  /\ bypassed' = (bypassed \/ Unresolved(queue) # {})
  /\ Rendered([i \in Item |-> IF i \in InQueue(queue) \ Active(queue)
                              THEN [NoEntry EXCEPT !.status = "cleared"] ELSE queue[i]],
              page, run, FALSE, TRUE)
  /\ UNCHANGED move

MoveDialog == Cardinality(Item) + 1

\* handleConflictResolution: the choice may be meant for all that follow.
Choice(resolution, applyToAll) == [page EXCEPT !.all = IF applyToAll THEN resolution ELSE @]

\* "The user has decided - let gated init calls proceed again".
ResolveUpload(resolution, applyToAll) ==
  /\ page.dialog \in Item
  /\ Rendered(Resolved(queue, page.dialog, resolution),
              [Choice(resolution, applyToAll) EXCEPT !.dialog = 0], run, TRUE, TRUE)
  /\ UNCHANGED <<move, bypassed, clicks>>

\* The move is asked for again, and the dialog stays until it is answered.
ResolveMove(resolution, applyToAll) ==
  /\ page.dialog = MoveDialog /\ move.pc # "resolving"
  /\ page' = Choice(resolution, applyToAll)
  /\ move' = [move EXCEPT !.pc = "resolving"]
  /\ UNCHANGED <<queue, seen, processing, run, paused, refused, bypassed, clicks>>

MoveResolved ==
  /\ move.pc = "resolving"
  /\ move' = [pc |-> "none", left |-> 0, all |-> "none"]
  /\ Rendered(queue, [page EXCEPT !.dialog = 0], run, FALSE, FALSE)
  /\ UNCHANGED <<bypassed, clicks>>

\* handleDrop moves one row, handleBatchMoveConfirm several.
MoveItems(n) ==
  /\ Click
  /\ page.on /\ page.dialog = 0 /\ move.pc = "none"
  /\ move' = [pc |-> "posted", left |-> n, all |-> page.all]
  /\ UNCHANGED <<queue, seen, processing, run, paused, page, refused, bypassed>>

\* The row is moved, or with a choice that is meant for all left alone.
MoveNext ==
  /\ move.pc = "posted"
  /\ move' = IF move.left = 1 THEN [pc |-> "none", left |-> 0, all |-> "none"]
             ELSE [move EXCEPT !.left = @ - 1, !.all = page.all]
  /\ UNCHANGED <<queue, seen, processing, run, paused, page, refused, bypassed, clicks>>

\* The first conflict ends the batch; its dialog takes the place of another.
MoveRefused ==
  /\ move.pc = "posted" /\ move.all = "none"
  /\ move' = [pc |-> "none", left |-> 0, all |-> "none"]
  /\ page' = [page EXCEPT !.dialog = MoveDialog]
  /\ UNCHANGED <<queue, seen, processing, run, paused, refused, bypassed, clicks>>

CloseDialog ==
  /\ Click
  /\ page.dialog # 0
  /\ Rendered(queue, [page EXCEPT !.dialog = 0], run, FALSE, FALSE)
  /\ UNCHANGED <<move, bypassed>>

\* Another page is opened; the queue goes on, and the dashboard forgets its dialog.
Navigate ==
  /\ Click
  /\ page.on /\ page' = [on |-> FALSE, dialog |-> 0, all |-> "none"]
  /\ move' = [pc |-> "none", left |-> 0, all |-> "none"]
  /\ UNCHANGED <<queue, seen, processing, run, paused, refused, bypassed>>

Return ==
  /\ ~page.on
  /\ Rendered(queue, [page EXCEPT !.on = TRUE], run, FALSE, FALSE)
  /\ UNCHANGED <<move, bypassed, clicks>>

-----------------------------------------------------------------------------
Init ==
  /\ small \in Sizes
  /\ queue = [i \in Item |-> NoEntry] /\ seen = queue
  /\ processing = FALSE /\ paused = FALSE
  /\ run = [i \in Item |-> NoRun]
  /\ page = [on |-> TRUE, dialog |-> 0, all |-> "none"]
  /\ move = [pc |-> "none", left |-> 0, all |-> "none"]
  /\ refused = 0 /\ bypassed = FALSE /\ clicks = Clicks

Decide == \E resolution \in Resolutions, applyToAll \in BOOLEAN :
            ResolveUpload(resolution, applyToAll) \/ ResolveMove(resolution, applyToAll)

Answered == \/ \E failed \in SUBSET UNION {Folders[i] : i \in Item} : FoldersMade(failed)
            \/ MoveNext \/ MoveRefused \/ MoveResolved
            \/ \E i \in Item : UploadAnswer(i)

User ==
  \/ Decide \/ Return \/ Navigate \/ CloseDialog \/ ClearCompleted
  \/ \E S \in Drops : AddFiles(S) \/ AddFolder(S)
  \/ \E i \in Item : Retry(i) \/ Cancel({i})
  \/ Cancel(Active(seen))
  \/ \E n \in {1, 2} : MoveItems(n)

Promised == LoopAgain \/ \E i \in Item : Enter(i)

Step(A) == A /\ UNCHANGED small

\* An event of the browser: it finds everything rendered.
Event(A) == seen = queue /\ Step(A)

Next == Step(Render) \/ Step(Promised) \/ Event(Answered) \/ Event(User)

Spec == Init /\ [][Next]_vars

-----------------------------------------------------------------------------
\* "The first 409 pauses every queued init until the conflict is resolved": after a 409
\* there is no other until the user has decided about it, cancelled or retried
\* something, however late the queue is rendered and whatever is added meanwhile.
OneConflictAtATime == refused <= 1

\* "Unblock any init parked on the conflict gate so it can drain instead of hanging the
\* batch forever": an init that is parked waits for a conflict that the user is asked
\* about, or will be, as long as she never retries or clears one instead of deciding:
\* then nobody opens the gate, until something is cancelled.
ParkedAwaitsDecision ==
  (\E i \in Item : run[i].pc = "parked")
    => bypassed \/ page.dialog \in Item \/ Flagged(queue) # {}

\* The gate keeps back as much as it should and no more; and whoever cancels, retries
\* or resolves an upload while its chunks are under way, it asks for its completion
\* when every chunk was accepted and not before.
ConflictsAreDecided ==
  /\ OneConflictAtATime
  /\ ParkedAwaitsDecision
  /\ \A i \in Item : run[i].pc = "complete" => run[i].done = 1 .. Count(i)
=============================================================================
