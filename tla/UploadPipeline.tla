-------------------------- MODULE UploadPipeline --------------------------
(***************************************************************************)
(* One chunked upload, from the client's POST of each chunk to the Go      *)
(* transfer service, through its worker pool and batch reporter, to the    *)
(* flip of the FileRecord to "complete" in the NestJS core and the charge  *)
(* of the owner's storage quota.                                           *)
(*                                                                         *)
(* A Job is one ChunkJob: an accepted POST, a streamed chunk, or a chunk   *)
(* re-enqueued by the core's startup recovery.  A job posts at most one    *)
(* Telegram message (after a success it is never run again), so the job    *)
(* also names its message.  The number of jobs bounds the requests.        *)
(***************************************************************************)
EXTENDS Integers, FiniteSets

CONSTANTS
  Chunk,         \* the declared chunk indexes 0 .. totalChunks-1
  Job,           \* chunk jobs and the Telegram messages they post
  Instance,      \* instances of the Go transfer service
  Call,          \* ReportChunkResults RPCs in progress
  Completer,     \* completeChunkedUpload requests in progress
  None,          \* "no job", "no chunk"
  MaxAttempt,    \* retries of a job before it fails for good (5)
  Threshold,     \* queue length at which AddJob rejects (900)
  Capacity,      \* capacity of the jobs channel (1000)
  MaxPress,      \* bound on the presses of "retry"
  Faults         \* what may go wrong, a subset of FaultKinds

FaultKinds ==
  {"duplicate",  \* the client posts a chunk that was not refused again
   "upload",     \* Telegram refuses an upload
   "rpc",        \* an RPC to the core fails, times out or is lost
   "db",         \* a statement of the core fails
   "abort",      \* the user aborts
   "retry",      \* the user presses "retry" on a failed file
   "stream",     \* chunks above the buffer threshold
   "goCrash",    \* an instance of the transfer service dies
   "coreCrash"}  \* the core dies and restarts

ASSUME NoneAssumption == None \notin Job /\ None \notin Chunk
ASSUME SetsAssumption == /\ IsFiniteSet(Chunk) /\ Chunk # {}
                         /\ IsFiniteSet(Job) /\ IsFiniteSet(Call) /\ IsFiniteSet(Completer)
                         /\ Call \cap Completer = {}
ASSUME BoundsAssumption == /\ MaxAttempt \in Nat /\ MaxPress \in Nat
                           /\ Threshold \in Nat \ {0}
                           /\ Capacity \in Nat /\ Threshold <= Capacity
                           /\ Faults \subseteq FaultKinds

VARIABLES
  \* PostgreSQL
  status,        \* FileRecord.status; "none" when the row is gone
  rows,          \* chunks with a FileChunk row
  msg,           \* FileChunk.telegramFileId; None while buffered
  charged,       \* how many times usedSpace was incremented for the file
  \* the disk both services mount, Redis
  temp,          \* chunks whose temp file exists
  outstanding,   \* the counter upload:outstanding:<fileId>
  \* Go, per job
  chunkOf, inst, attempt,
  req,           \* progress of the HTTP (or gRPC) handler that brought the job
  stage,         \* where the job is in the worker pool and the reporter
  \* NestJS, per running handler
  call, cmp, abt,
  recover,       \* chunks the startup recovery has still to re-enqueue
  presses,       \* buffer-retry requests that found the record failed
  \* history
  reopened,      \* how often a buffer-retry wrote "buffered"
  spoiled        \* chunks of which an attempt failed, or a result was not stored

db   == <<status, rows, msg>>
job  == <<chunkOf, inst, attempt>>
button == <<presses, reopened>>
core == <<call, cmp, abt, recover, button>>
vars == <<db, charged, spoiled, temp, outstanding, job, req, stage, core>>

Statuses == {"uploading", "buffered", "buffer_failed", "complete", "aborted", "none"}
ReqPcs   == {"idle", "checked", "pushed", "counted", "replied", "closed",
             "recovering", "recovered"}
Stages   == {"none", "queued", "running", "delayed", "failing", "failed",
             "reported", "sent", "streamed", "settled", "lost"}
CallPcs  == {"idle", "upsert", "check", "flip", "charge", "replied"}
CmpPcs   == {"idle", "flush", "wait", "count", "metadata", "reread", "flip",
             "charge", "park", "ok", "rejected", "error"}
AbtPcs   == {"idle", "mark", "reread", "sweep", "remove"}

\* An RPC: the results left to upsert, and the jobs whose sender awaits an answer.
CallState == [pc : CallPcs, todo : SUBSET Job, batch : SUBSET Job]
\* A /complete: the instance asked, its own flush, the counter as read, and the
\* chunks the client had been answered 200 for when it called.
CmpState == [pc : CmpPcs, at : Instance, sent : SUBSET Job, out : Nat, asked : SUBSET Chunk]
\* An abort: the temp keys it read.
AbtState == [pc : AbtPcs, keys : SUBSET Chunk]

\* The statuses the guarded flip to "complete" accepts; its unguarded variant.
OpenUnguarded == Statuses \ {"none"}
Open == {"uploading", "buffered"}

FreeCall == [pc |-> "idle", todo |-> {}, batch |-> {}]
NoAbort  == [pc |-> "idle", keys |-> {}]

TypeOK ==
  /\ status \in Statuses
  /\ rows \in SUBSET Chunk
  /\ msg \in [Chunk -> Job \cup {None}]
  /\ charged \in Nat
  /\ temp \in SUBSET Chunk
  /\ outstanding \in Nat
  /\ chunkOf \in [Job -> Chunk \cup {None}]
  /\ inst \in [Job -> Instance]
  /\ attempt \in [Job -> 0 .. MaxAttempt]
  /\ req \in [Job -> ReqPcs]
  /\ stage \in [Job -> Stages]
  /\ call \in [Call -> CallState]
  /\ cmp \in [Completer -> CmpState]
  /\ abt \in AbtState
  /\ recover \in SUBSET Chunk
  /\ presses \in Nat /\ reopened \in Nat
  /\ spoiled \in SUBSET Chunk

\* The record has just been created by initChunkedUpload.
Init ==
  /\ status = "uploading" /\ rows = {} /\ msg = [c \in Chunk |-> None]
  /\ charged = 0 /\ temp = {} /\ outstanding = 0
  /\ chunkOf = [j \in Job |-> None]
  /\ inst \in [Job -> Instance]
  /\ attempt = [j \in Job |-> 0]
  /\ req = [j \in Job |-> "idle"]
  /\ stage = [j \in Job |-> "none"]
  /\ call = [k \in Call |-> FreeCall]
  /\ cmp \in [Completer -> [pc : {"idle"}, at : Instance, sent : {{}},
                            out : {0}, asked : {{}}]]
  /\ abt = NoAbort /\ recover = {} /\ presses = 0 /\ reopened = 0 /\ spoiled = {}

-----------------------------------------------------------------------------
Landed    == {c \in Chunk : msg[c] # None}
\* All declared chunks have coordinates; the variant counts the placeholders too.
AllLandedRows == rows = Chunk
AllLanded == Landed = Chunk
JobsAt(i, s) == {j \in Job : inst[j] = i /\ stage[j] = s}
\* AddJob takes another job.
HasRoom(i) == Cardinality(JobsAt(i, "queued")) < Threshold

\* The request ended without a job: the pool was full, Telegram refused the
\* stream, or the instance died; the client posts the chunk again.
Refused(j) == req[j] = "closed" /\ stage[j] = "none"

\* Chunks that were answered 200.
Accepted == {c \in Chunk : \E j \in Job : chunkOf[j] = c /\ req[j] = "replied"}

\* decrOutstanding: the key is deleted once it reaches zero, and a missing key
\* reads 0.
Decr(n) == IF outstanding > n THEN outstanding - n ELSE 0

StageOf(J, s) == [j \in Job |-> IF j \in J THEN s ELSE stage[j]]

\* reportChunkBuffered: upsert with update: {}.
PlaceRow(c) == rows' = rows \cup {c} /\ UNCHANGED msg

-----------------------------------------------------------------------------
(* The chunk request handled by the transfer service.                      *)

\* UploadChunk up to the idempotency check.  A chunk that already landed is
\* answered at once and a record that is gone or complete is refused.
ChunkCheck(j, c) ==
  /\ req[j] = "idle" /\ stage[j] = "none"
  /\ status \notin {"none", "complete"} /\ msg[c] = None
  /\ "duplicate" \in Faults \/ \A k \in Job : chunkOf[k] = c => Refused(k)
  /\ chunkOf' = [chunkOf EXCEPT ![j] = c]
  /\ req' = [req EXCEPT ![j] = "checked"]
  /\ UNCHANGED <<db, charged, spoiled, temp, outstanding, inst, attempt, stage, core>>

\* The temp file is written, then AddJob pushes the job or reports a full queue.
ChunkAccept(j) ==
  /\ req[j] = "checked" /\ stage[j] = "none"
  /\ temp' = temp \cup {chunkOf[j]}
  /\ IF HasRoom(inst[j])
     THEN /\ stage' = [stage EXCEPT ![j] = "queued"]
          /\ req' = [req EXCEPT ![j] = "pushed"]
     ELSE /\ req' = [req EXCEPT ![j] = "closed"]
          /\ UNCHANGED stage
  /\ UNCHANGED <<db, charged, spoiled, outstanding, job, core>>

\* incrOutstanding, after the job is in the channel.
CountJob(j) ==
  /\ req[j] \in {"pushed", "recovering"}
  /\ outstanding' = outstanding + 1
  /\ req' = [req EXCEPT ![j] = IF @ = "pushed" THEN "counted" ELSE "recovered"]
  /\ UNCHANGED <<db, charged, spoiled, temp, job, stage, core>>

\* persistBufferedChunk (best effort), then the 200 answer.
PersistRow(j) ==
  /\ req[j] = "counted"
  /\ \/ status # "none" /\ PlaceRow(chunkOf[j])
     \/ (status = "none" \/ "rpc" \in Faults) /\ UNCHANGED <<rows, msg>>
  /\ req' = [req EXCEPT ![j] = "replied"]
  /\ UNCHANGED <<status, charged, spoiled, temp, outstanding, job, stage, core>>

\* streamToTelegram: a large chunk bypasses the disk and the pool.
StreamChunk(j, k) ==
  /\ "stream" \in Faults
  /\ req[j] = "checked" /\ stage[j] = "none" /\ call[k] = FreeCall
  /\ stage' = [stage EXCEPT ![j] = "streamed"]
  /\ call' = [call EXCEPT ![k] = [pc |-> "upsert", todo |-> {j}, batch |-> {j}]]
  /\ UNCHANGED <<db, charged, spoiled, temp, outstanding, job, req, cmp, abt, recover, button>>

StreamRefused(j) ==
  /\ {"stream", "upload"} \subseteq Faults
  /\ req[j] = "checked" /\ stage[j] = "none"
  /\ req' = [req EXCEPT ![j] = "closed"]
  /\ UNCHANGED <<db, charged, spoiled, temp, outstanding, job, stage, core>>

-----------------------------------------------------------------------------
(* The worker pool.                                                        *)

\* GetFileMetadata answers and the temp file opens.
StartJob(j) ==
  /\ stage[j] = "queued"
  /\ status # "none" /\ chunkOf[j] \in temp
  /\ stage' = [stage EXCEPT ![j] = "running"]
  /\ UNCHANGED <<db, charged, spoiled, temp, outstanding, job, req, core>>

\* ProcessInternalChunk returns an error: its deferred cleanup deletes the temp
\* file, and worker() schedules a retry, or gives up (attempts used, or the
\* delayed channel is full).
JobError(j) ==
  /\ temp' = temp \ {chunkOf[j]} /\ spoiled' = spoiled \cup {chunkOf[j]}
  /\ \/ /\ attempt[j] < MaxAttempt
        /\ attempt' = [attempt EXCEPT ![j] = @ + 1]
        /\ stage' \in {[stage EXCEPT ![j] = s] : s \in {"delayed", "failing"}}
     \/ /\ attempt[j] = MaxAttempt
        /\ stage' = [stage EXCEPT ![j] = "failing"]
        /\ UNCHANGED attempt
  /\ UNCHANGED <<db, charged, outstanding, chunkOf, inst, req, core>>

\* GetFileMetadata fails, also while the core restarts, or the file is not there.
StartFails(j) ==
  /\ stage[j] = "queued"
  /\ status = "none" \/ chunkOf[j] \notin temp \/ Faults \cap {"rpc", "coreCrash"} # {}
  /\ JobError(j)

UploadRefused(j) ==
  /\ "upload" \in Faults
  /\ stage[j] = "running"
  /\ JobError(j)

\* The chunk is on Telegram; its result joins the reporter's buffer, which now
\* owns the temp file.  The variant deletes the file as the other paths do.
UploadedDeletes(j) ==
  /\ stage[j] = "running"
  /\ stage' = [stage EXCEPT ![j] = "reported"]
  /\ temp' = temp \ {chunkOf[j]}
  /\ UNCHANGED <<db, charged, spoiled, outstanding, job, req, core>>

Uploaded(j) ==
  /\ stage[j] = "running"
  /\ stage' = [stage EXCEPT ![j] = "reported"]
  /\ UNCHANGED <<db, charged, spoiled, temp, outstanding, job, req, core>>

\* manageDelayedQueue, once the back-off has elapsed.
Redeliver(j) ==
  /\ stage[j] = "delayed"
  /\ Cardinality(JobsAt(inst[j], "queued")) < Capacity
  /\ stage' = [stage EXCEPT ![j] = "queued"]
  /\ UNCHANGED <<db, charged, spoiled, temp, outstanding, job, req, core>>

\* ReportFailure: reportUploadFailed writes buffer_failed whatever the status is.
ReportFailure(j) ==
  /\ stage[j] = "failing"
  /\ \/ status' = IF status = "none" THEN "none" ELSE "buffer_failed"
     \/ "rpc" \in Faults /\ UNCHANGED status
  /\ stage' = [stage EXCEPT ![j] = "failed"]
  /\ UNCHANGED <<rows, msg, charged, spoiled, temp, outstanding, job, req, core>>

DiscardJob(j) ==
  /\ stage[j] = "failed"
  /\ outstanding' = Decr(1)
  /\ stage' = [stage EXCEPT ![j] = "settled"]
  /\ UNCHANGED <<db, charged, spoiled, temp, job, req, core>>

-----------------------------------------------------------------------------
(* The batch reporter and the ReportChunkResults handler of the core.      *)

\* Flush takes the whole buffer of the instance and sends it.
FlushSend(i, k) ==
  LET J == JobsAt(i, "reported") IN
  /\ J # {} /\ call[k] = FreeCall
  /\ stage' = StageOf(J, "sent")
  /\ call' = [call EXCEPT ![k] = [pc |-> "upsert", todo |-> J, batch |-> J]]

Flush(i, k) ==
  /\ FlushSend(i, k)
  /\ UNCHANGED <<db, charged, spoiled, temp, outstanding, job, req, cmp, abt, recover, button>>

\* One fileChunk.upsert.  An error, as when the record is gone, is caught: the
\* call is answered all the same, and Flush deletes the temp file.
UpsertChunk(k, j) ==
  /\ call[k].pc = "upsert" /\ j \in call[k].todo
  /\ \/ /\ status # "none"
        /\ rows' = rows \cup {chunkOf[j]}
        /\ msg' = [msg EXCEPT ![chunkOf[j]] = j]
        /\ UNCHANGED spoiled
     \/ /\ status = "none" \/ "db" \in Faults
        /\ spoiled' = spoiled \cup {chunkOf[j]}
        /\ UNCHANGED <<rows, msg>>
  /\ call' = [call EXCEPT ![k].todo = @ \ {j}]
  /\ UNCHANGED <<status, charged, temp, outstanding, job, req, stage, cmp, abt, recover, button>>

\* finalizeChunkedFileIfLanded: the early returns.
FinalizeCheck(k) ==
  /\ call[k].pc = "upsert" /\ call[k].todo = {}
  /\ call' = [call EXCEPT ![k].pc =
                IF status \notin {"none", "complete", "aborted"} /\ AllLanded
                THEN "flip" ELSE "replied"]
  /\ UNCHANGED <<db, charged, spoiled, temp, outstanding, job, req, stage, cmp, abt, recover, button>>

\* The guarded updateMany.
FinalizeFlip(k) ==
  /\ call[k].pc = "flip"
  /\ IF status \in Open
     THEN /\ status' = "complete"
          /\ call' = [call EXCEPT ![k].pc = "charge"]
     ELSE /\ UNCHANGED status
          /\ call' = [call EXCEPT ![k].pc = "replied"]
  /\ UNCHANGED <<rows, msg, charged, spoiled, temp, outstanding, job, req, stage, cmp, abt, recover, button>>

\* usedSpace: { increment: record.size }, a statement of its own.
FinalizeCharge(k) ==
  /\ call[k].pc = "charge"
  /\ charged' = charged + 1
  /\ call' = [call EXCEPT ![k].pc = "replied"]
  /\ UNCHANGED <<db, spoiled, temp, outstanding, job, req, stage, cmp, abt, recover, button>>

\* An error of the finalisation is logged and swallowed; a report of which nothing
\* could be stored does not get to it.
FinalizeError(k) ==
  /\ "db" \in Faults
  /\ call[k].pc \in {"upsert", "flip", "charge"} /\ call[k].todo = {}
  /\ call' = [call EXCEPT ![k].pc = "replied"]
  /\ UNCHANGED <<db, charged, spoiled, temp, outstanding, job, req, stage, cmp, abt, recover, button>>

Buffered(k) == call[k].batch # {} /\ \A j \in call[k].batch : stage[j] = "sent"
Streamed(k) == call[k].batch # {} /\ \A j \in call[k].batch : stage[j] = "streamed"

\* The answer reached Flush: the temp files go, the counter drops by the batch.
FlushDone(k) ==
  /\ call[k].pc = "replied" /\ Buffered(k)
  /\ temp' = temp \ {chunkOf[j] : j \in call[k].batch}
  /\ outstanding' = Decr(Cardinality(call[k].batch))
  /\ stage' = StageOf(call[k].batch, "settled")
  /\ call' = [call EXCEPT ![k] = FreeCall]
  /\ UNCHANGED <<db, charged, spoiled, job, req, cmp, abt, recover, button>>

\* Nobody waits for an answer any more: the core goes on with the call, unless the
\* call never got there.
Abandon(k) ==
  \/ call' = [call EXCEPT ![k].batch = {}]
  \/ call[k].todo = call[k].batch /\ call' = [call EXCEPT ![k] = FreeCall]

\* No answer: the batch returns to the buffer (the variant drops it).
RequeueNever(J) == StageOf(J, "lost")
Requeue(J) == StageOf(J, "reported")

FlushError(k) ==
  /\ "rpc" \in Faults \/ call[k].pc = "idle"
  /\ Buffered(k)
  /\ stage' = Requeue(call[k].batch)
  /\ Abandon(k)
  /\ UNCHANGED <<db, charged, spoiled, temp, outstanding, job, req, cmp, abt, recover, button>>

StreamDone(k) ==
  /\ call[k].pc = "replied" /\ Streamed(k)
  /\ stage' = StageOf(call[k].batch, "settled")
  /\ req' = [j \in Job |-> IF j \in call[k].batch THEN "replied" ELSE req[j]]
  /\ call' = [call EXCEPT ![k] = FreeCall]
  /\ UNCHANGED <<db, charged, spoiled, temp, outstanding, job, cmp, abt, recover, button>>

StreamError(k) ==
  /\ "rpc" \in Faults \/ call[k].pc = "idle"
  /\ Streamed(k)
  /\ stage' = StageOf(call[k].batch, "lost")
  /\ req' = [j \in Job |-> IF j \in call[k].batch THEN "closed" ELSE req[j]]
  /\ Abandon(k)
  /\ UNCHANGED <<db, charged, spoiled, temp, outstanding, job, cmp, abt, recover, button>>

\* The handler ends with nobody waiting for its answer.
CallEnds(k) ==
  /\ call[k].pc = "replied" /\ call[k].batch = {}
  /\ call' = [call EXCEPT ![k] = FreeCall]
  /\ UNCHANGED <<db, charged, spoiled, temp, outstanding, job, req, stage, cmp, abt, recover, button>>

-----------------------------------------------------------------------------
(* completeChunkedUpload and the FlushAndConfirm it calls.                 *)

CompleteGoto(q, p) == cmp' = [cmp EXCEPT ![q].pc = p]

\* The record is read and flushAndConfirm is called on some instance.
CompleteBegin(q, i) ==
  /\ cmp[q].pc \in {"idle", "rejected", "error"}
  /\ status \notin {"none", "complete"}
  /\ cmp' = [cmp EXCEPT ![q] = [pc |-> "flush", at |-> i, sent |-> {}, out |-> 0,
                                asked |-> Accepted]]
  /\ UNCHANGED <<db, charged, spoiled, temp, outstanding, job, req, stage, call, abt, recover, button>>

\* FlushForFile returns once its own batch was answered, at once if it has none.
CompleteFlush(q, k) ==
  /\ cmp[q].pc = "flush"
  /\ \/ /\ FlushSend(cmp[q].at, k)
        /\ cmp' = [cmp EXCEPT ![q] = [@ EXCEPT !.pc = "wait",
                                      !.sent = JobsAt(cmp[q].at, "reported")]]
     \/ /\ JobsAt(cmp[q].at, "reported") = {}
        /\ CompleteGoto(q, "count")
        /\ UNCHANGED <<stage, call>>
  /\ UNCHANGED <<db, charged, spoiled, temp, outstanding, job, req, abt, recover, button>>

CompleteFlushed(q) ==
  /\ cmp[q].pc = "wait" /\ \A k \in Call : call[k].batch # cmp[q].sent
  /\ cmp' = [cmp EXCEPT ![q] = [@ EXCEPT !.pc = "count", !.sent = {}]]
  /\ UNCHANGED <<db, charged, spoiled, temp, outstanding, job, req, stage, call, abt, recover, button>>

\* OutstandingForFile.
CompleteCount(q) ==
  /\ cmp[q].pc = "count"
  /\ cmp' = [cmp EXCEPT ![q] = [@ EXCEPT !.pc = "metadata", !.out = outstanding]]
  /\ UNCHANGED <<db, charged, spoiled, temp, outstanding, job, req, stage, call, abt, recover, button>>

\* GetFileMetadata, and the comparison of received with the declared total; the
\* variant ignores what is still draining.
AllReceivedLanded(q) == Cardinality(Landed) >= Cardinality(Chunk)
AllReceived(q) == Cardinality(Landed) + cmp[q].out >= Cardinality(Chunk)

CompleteConfirm(q) ==
  /\ cmp[q].pc = "metadata"
  /\ cmp' = [cmp EXCEPT ![q] = [@ EXCEPT !.out = 0, !.pc =
                IF status = "none" THEN "error"
                ELSE IF AllReceived(q) THEN "reread" ELSE "rejected"]]
  /\ UNCHANGED <<db, charged, spoiled, temp, outstanding, job, req, stage, call, abt, recover, button>>

\* The second read decides between the flip and parking the record.
CompleteReread(q) ==
  /\ cmp[q].pc = "reread"
  /\ CompleteGoto(q, CASE status = "none" -> "error"
                       [] status = "complete" -> "ok"
                       [] status \notin {"none", "complete"} ->
                            IF AllLanded THEN "flip" ELSE "park")
  /\ UNCHANGED <<db, charged, spoiled, temp, outstanding, job, req, stage, call, abt, recover, button>>

CompleteFlip(q) ==
  /\ cmp[q].pc = "flip"
  /\ IF status \in Open THEN status' = "complete" /\ CompleteGoto(q, "charge")
                        ELSE UNCHANGED status /\ CompleteGoto(q, "ok")
  /\ UNCHANGED <<rows, msg, charged, spoiled, temp, outstanding, job, req, stage, call, abt, recover, button>>

CompleteCharge(q) ==
  /\ cmp[q].pc = "charge"
  /\ charged' = charged + 1
  /\ CompleteGoto(q, "ok")
  /\ UNCHANGED <<db, spoiled, temp, outstanding, job, req, stage, call, abt, recover, button>>

\* updateMany guarded by status = 'uploading'; the variant guards on existence.
ParkedAlways == IF status = "none" THEN "none" ELSE "buffered"
Parked == IF status = "uploading" THEN "buffered" ELSE status

CompletePark(q) ==
  /\ cmp[q].pc = "park"
  /\ status' = Parked
  /\ CompleteGoto(q, "ok")
  /\ UNCHANGED <<rows, msg, charged, spoiled, temp, outstanding, job, req, stage, call, abt, recover, button>>

-----------------------------------------------------------------------------
(* abortUpload, buffer-retry, crashes and the startup recovery.            *)

AbortBegin ==
  /\ "abort" \in Faults
  /\ abt.pc = "idle" /\ status \notin {"none", "complete"}
  /\ abt' = [pc |-> "mark", keys |-> {}]
  /\ UNCHANGED <<db, charged, spoiled, temp, outstanding, job, req, stage, call, cmp, recover, button>>

\* status: 'aborted', with no guard on the status it replaces.
AbortMark ==
  /\ abt.pc = "mark"
  /\ IF status = "none" THEN abt' = NoAbort /\ UNCHANGED status
     ELSE status' = "aborted" /\ abt' = [abt EXCEPT !.pc = "reread"]
  /\ UNCHANGED <<rows, msg, charged, spoiled, temp, outstanding, job, req, stage, call, cmp, recover, button>>

\* The messages it read are deleted; what of them is left on Telegram is the subject
\* of CoreUpload.  Then the chunks are read again.
AbortReread ==
  /\ abt.pc = "reread"
  /\ abt' = [pc |-> "sweep", keys |-> rows]
  /\ UNCHANGED <<db, charged, spoiled, temp, outstanding, job, req, stage, call, cmp, recover, button>>

AbortSweep ==
  /\ abt.pc = "sweep"
  /\ temp' = temp \ abt.keys
  /\ abt' = [abt EXCEPT !.pc = "remove"]
  /\ UNCHANGED <<db, charged, spoiled, outstanding, job, req, stage, call, cmp, recover, button>>

\* The record goes, and its chunk rows with it.
AbortRemove ==
  /\ abt.pc = "remove"
  /\ status' = "none" /\ rows' = {} /\ msg' = [c \in Chunk |-> None]
  /\ abt' = NoAbort
  /\ UNCHANGED <<charged, spoiled, temp, outstanding, job, req, stage, call, cmp, recover, button>>

\* POST :id/buffer-retry finds the record failed ...
RetryFind ==
  /\ "retry" \in Faults /\ presses + reopened < MaxPress
  /\ status = "buffer_failed"
  /\ presses' = presses + 1
  /\ UNCHANGED <<db, charged, spoiled, temp, outstanding, job, req, stage,
                 call, cmp, abt, recover, reopened>>

\* ... and writes "buffered" by the id alone, whatever the status is by then.
RetryWrite ==
  /\ presses > 0
  /\ status' = IF status = "none" THEN "none" ELSE "buffered"
  /\ presses' = presses - 1
  /\ reopened' = reopened + (IF status = "none" THEN 0 ELSE 1)
  /\ UNCHANGED <<rows, msg, charged, spoiled, temp, outstanding, job, req, stage,
                 call, cmp, abt, recover>>

BufferRetry == RetryFind \/ RetryWrite

\* Everything an instance holds in memory is lost; disk, Redis and the core's
\* handlers are not.
GoCrash(i) ==
  /\ "goCrash" \in Faults
  /\ stage' = [j \in Job |-> IF inst[j] = i /\ stage[j] \notin {"none", "settled"}
                             THEN "lost" ELSE stage[j]]
  /\ req' = [j \in Job |-> IF inst[j] = i /\ req[j] \in {"checked", "pushed", "counted", "recovering"}
                           THEN "closed" ELSE req[j]]
  /\ call' = [k \in Call |-> [call[k] EXCEPT !.batch = {j \in @ : inst[j] # i}]]
  /\ cmp' = [q \in Completer |->
               IF cmp[q].at = i /\ cmp[q].pc \in {"flush", "wait", "count", "metadata"}
               THEN [cmp[q] EXCEPT !.pc = "error"] ELSE cmp[q]]
  /\ UNCHANGED <<db, charged, spoiled, temp, outstanding, job, abt, recover, button>>

\* The handlers of the core end where they are; onModuleInit then reads the
\* chunks that are still buffered.
CoreCrash ==
  /\ "coreCrash" \in Faults
  /\ call' = [k \in Call |-> [pc |-> "idle", todo |-> {}, batch |-> call[k].batch]]
  /\ cmp' = [q \in Completer |-> [cmp[q] EXCEPT !.pc = IF @ = "ok" THEN "ok" ELSE "error"]]
  /\ abt' = NoAbort /\ presses' = 0
  /\ recover' = {c \in rows : msg[c] = None}
  /\ UNCHANGED <<db, charged, spoiled, temp, outstanding, job, req, stage, reopened>>

\* EnqueueBufferedUpload for one of them, accepted or rejected.
RecoverChunk(c, j) ==
  /\ c \in recover
  /\ recover' = recover \ {c}
  /\ IF HasRoom(inst[j])
     THEN /\ req[j] = "idle" /\ stage[j] = "none"
          /\ chunkOf' = [chunkOf EXCEPT ![j] = c]
          /\ stage' = [stage EXCEPT ![j] = "queued"]
          /\ req' = [req EXCEPT ![j] = "recovering"]
     ELSE UNCHANGED <<chunkOf, stage, req>>
  /\ UNCHANGED <<db, charged, spoiled, temp, outstanding, inst, attempt, call, cmp, abt,
                 button>>

-----------------------------------------------------------------------------
RequestStep(j) ==
  \/ \E c \in Chunk : ChunkCheck(j, c)
  \/ ChunkAccept(j) \/ CountJob(j) \/ PersistRow(j) \/ StreamRefused(j)
  \/ \E k \in Call : StreamChunk(j, k)
  \/ \E c \in Chunk : RecoverChunk(c, j)

WorkerStep(j) ==
  \/ StartJob(j) \/ StartFails(j) \/ UploadRefused(j) \/ Uploaded(j)
  \/ Redeliver(j) \/ ReportFailure(j) \/ DiscardJob(j)

HandlerStep(k) ==
  \/ \E j \in Job : UpsertChunk(k, j)
  \/ FinalizeCheck(k) \/ FinalizeFlip(k) \/ FinalizeCharge(k) \/ CallEnds(k)

ReporterStep(k) ==
  \/ \E i \in Instance : Flush(i, k)
  \/ FlushDone(k) \/ FlushError(k) \/ StreamDone(k) \/ StreamError(k)
  \/ FinalizeError(k)

CompleteStep(q) ==
  \/ \E k \in Call : CompleteFlush(q, k)
  \/ CompleteFlushed(q) \/ CompleteCount(q) \/ CompleteConfirm(q)
  \/ CompleteReread(q) \/ CompleteFlip(q) \/ CompleteCharge(q) \/ CompletePark(q)

AbortStep ==
  AbortBegin \/ AbortMark \/ AbortReread \/ AbortSweep \/ AbortRemove

Next ==
  \/ \E j \in Job : RequestStep(j) \/ WorkerStep(j)
  \/ \E k \in Call : HandlerStep(k) \/ ReporterStep(k)
  \/ \E q \in Completer : CompleteStep(q) \/ \E i \in Instance : CompleteBegin(q, i)
  \/ AbortStep \/ BufferRetry
  \/ \E i \in Instance : GoCrash(i)
  \/ CoreCrash

Spec == Init /\ [][Next]_vars

-----------------------------------------------------------------------------
(* What the pipeline promises.                                             *)

\* A record reads "complete" only while every declared chunk has a Telegram
\* message: the flips of two handlers decide from counts read earlier.
CompleteIsLanded == status = "complete" => Landed = Chunk

\* "charges storage quota exactly once": of all racing chunk reports and /complete
\* calls one charges.  Only a press of "retry" that reopens the record gives another
\* the chance: a second press may reopen one that has been completed since.
Owed == {k \in Call : call[k].pc = "charge"} \cup {q \in Completer : cmp[q].pc = "charge"}
ChargeOnce == charged + Cardinality(Owed) <= 1 + reopened

\* The record keeps what UploadRecord promises of it.
Record == INSTANCE UploadRecord WITH Handler <- Call \cup Completer,
                                     landed <- Landed, owed <- Owed, asked <- presses
RecordSpec == Record!Spec

\* "Never downgrade a chunk that already completed": coordinates of a landed
\* chunk leave only with the record.
LandedIsKept == [][\A c \in Landed : msg'[c] # None \/ status' = "none"]_vars

\* A client whose chunks were all answered 200 before it called /complete is told
\* that chunks are missing only after an attempt at one of them failed or its result
\* was not stored, whichever instances took them.
NoFalseReject ==
  \A q \in Completer : cmp[q].pc = "rejected" => cmp[q].asked # Chunk \/ spoiled # {}

\* A chunk row that says "buffered" can be served from the temp disk, until an
\* attempt at that chunk fails or its result is not stored.
BufferedIsOnDisk ==
  status \notin {"aborted", "none"} => rows \ (Landed \cup spoiled) \subseteq temp

\* The scheduling of the code: goroutines, RPC handlers and the flush ticker
\* keep running.  A batch that got no answer is sent again by the next tick, and
\* from some time on the core answers within the ten seconds Flush waits.
Fairness ==
  /\ \A j \in Job : WF_vars(CountJob(j) \/ PersistRow(j)) /\ WF_vars(WorkerStep(j))
  /\ \A k \in Call : WF_vars(HandlerStep(k))
                    /\ WF_vars(\E i \in Instance : Flush(i, k))
                    /\ WF_vars(FlushDone(k))
  /\ \A q \in Completer : WF_vars(CompleteStep(q))
  /\ <>[][\A k \in Call : ~FlushError(k)]_vars
FairSpec == Spec /\ Fairness

\* Chunks that were all accepted end up as a complete, charged file, whether or
\* not the client ever calls /complete, unless an attempt at one of them fails: the
\* first failure deletes the temp file that the retries need.
UploadCompletes == (Accepted = Chunk) ~> (status = "complete" /\ charged = 1) \/ spoiled # {}
=============================================================================
