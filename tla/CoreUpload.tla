----------------------------- MODULE CoreUpload -----------------------------
(***************************************************************************)
(* One upload that the core carries out itself (UPLOAD_IO_OWNER and        *)
(* UPLOAD_DISPATCH_OWNER set to nest): the chunk handlers that send to     *)
(* Telegram or buffer on the disk, the BullMQ jobs that dispatch what was  *)
(* buffered, complete, abort, and a restart of the core.                   *)
(*                                                                         *)
(* A job needs a slot of a bot before it sends.  In the setups where slots *)
(* are short the chunks are in the buffer from the start, other uploads    *)
(* compete for the slots, and nobody completes or aborts the upload; in    *)
(* the other ones there is always a slot.                                  *)
(*                                                                         *)
(* A single upload is an upload of the one chunk Whole: its record is the  *)
(* row and the file.  The client does not send a chunk again while it is   *)
(* being sent or once it was accepted into the buffer.                     *)
(*                                                                         *)
(* What the code does at best effort may fail here: a deletion of a        *)
(* message or of a row, a job that is added, an answer that is read.  The  *)
(* chunks, jobs and messages it went wrong for are remembered in           *)
(* variables that no action reads.                                         *)
(***************************************************************************)
EXTENDS UploadSlots

CONSTANTS
  Chunk,      \* chunks of the file
  Post,       \* requests that carry a chunk
  None,
  Attempts,   \* BUFFER_MAX_RETRIES
  MaxActive,  \* MAX_CONCURRENT_CHUNKS
  MaxFail,    \* bound on failures of Telegram, the disk, the database and Redis
  MaxHalt,    \* bound on restarts and stalled jobs together
  MaxSend     \* bound on the messages that one chunk gets

ASSUME BoundsAssumption ==
  /\ Attempts \in Nat \ {0} /\ MaxActive \in Nat /\ MaxSend \in Nat
  /\ MaxFail \in Nat /\ MaxHalt \in Nat
ASSUME NoneAssumption == None \notin Chunk \cup Worker
ASSUME ChunkAssumption == Chunk # {}

VARIABLES
  mode,       \* the kind of upload, whether the disk takes it, and whether slots are short
  status,     \* FileRecord.status, "none" before and "gone" after the record
  charged,    \* how often usedSpace was raised
  row,        \* FileChunk rows: state and Telegram message, 0 if none
  disk,       \* chunks whose temp file is there
  sent,       \* messages of each chunk in the Telegram chat
  job,        \* the BullMQ job of each chunk
  worker, post,
  completer,  \* completeChunkedUpload
  aborter,    \* abortUpload
  fails, restarts, stalls,
  fallen,     \* chunks that were sent directly although chunks are buffered
  unqueued,   \* buffered chunks whose job could not be added
  stray       \* messages that a failure left to nobody

setup == <<mode, slotVars>>
record == <<setup, status, charged>>
history == <<fallen, unqueued, stray>>
vars == <<history, record, row, disk, sent, job, worker, post, completer, aborter, fails, restarts, stalls>>

Msg    == 0 .. MaxSend
Whole  == CHOOSE c \in Chunk : TRUE
Item   == IF mode.single THEN {Whole} ELSE Chunk

NoRow  == [st |-> "none", msg |-> 0]
NoJob  == [st |-> "none", tries |-> 0, stalled |-> FALSE, by |-> None]
Idle   == [pc |-> "idle", c |-> None, msg |-> 0]
\* A worker also keeps what its transaction read.
Resting == [pc |-> "idle", c |-> None, msg |-> 0, last |-> FALSE]
NoAbort == [pc |-> "idle", del |-> {}]

\* initChunkedUpload has created the record of a chunked upload.
Init ==
  /\ mode \in {m \in [single : BOOLEAN, buffer : BOOLEAN, paced : BOOLEAN] :
                  m.paced => m.buffer /\ ~m.single}
  /\ SlotInit
  /\ ~mode.paced => \A s \in Service : skew[s] = 0 /\ bots[s] = Bots
  /\ status = IF mode.single THEN "none" ELSE "uploading"
  /\ charged = 0 /\ disk = (IF mode.paced THEN {Whole} ELSE {}) /\ fails = 0 /\ restarts = 0 /\ stalls = 0
  /\ row = [c \in Chunk |-> IF mode.paced /\ c = Whole THEN [NoRow EXCEPT !.st = "buffered"] ELSE NoRow]
  /\ sent = [c \in Chunk |-> {}]
  /\ job = [c \in Chunk |-> IF mode.paced /\ c = Whole THEN [NoJob EXCEPT !.st = "wait"] ELSE NoJob]
  /\ worker = [w \in Worker |-> Resting] /\ post = [p \in Post |-> Idle]
  /\ completer = "idle" /\ aborter = NoAbort
  /\ fallen = {} /\ unqueued = {} /\ stray = {}

Exists == status \notin {"none", "gone"}

SetPost(p, pc, c, m) == post' = [post EXCEPT ![p] = [pc |-> pc, c |-> c, msg |-> m]]
EndPost(p) == post' = [post EXCEPT ![p] = Idle]
SetRow(c, st, m) == row' = [row EXCEPT ![c] = [st |-> st, msg |-> m]]

\* sendDocument: a new message; withRetry sends again what failed and gives up.
Sends(c, m) == m \in Msg \ ({0} \cup sent[c]) /\ (\A n \in Msg \ ({0} \cup sent[c]) : m <= n)
               /\ sent' = [sent EXCEPT ![c] = @ \cup {m}]
Failing == fails < MaxFail /\ fails' = fails + 1
Strays(c, m) == stray' = stray \cup {<<c, m>>} /\ UNCHANGED <<fallen, unqueued>>
\* A call whose answer is lost may have sent the document.
SentUnseen(c) ==
  \/ UNCHANGED <<sent, history>>
  \/ \E m \in Msg : Sends(c, m) /\ Strays(c, m)

-----------------------------------------------------------------------------
(* The handler of a chunk, or of a single upload.                          *)

Active == {p \in Post : post[p].pc # "idle"}

\* The limiter, and the checks; a row that a crash left pending is deleted.
Start(p, c) ==
  /\ ~mode.single /\ ~mode.paced /\ post[p] = Idle /\ \A q \in Post : post[q].c # c
  /\ Cardinality(Active) < MaxActive
  /\ status = "uploading" /\ row[c].st \in {"none", "pending"}
  /\ SetRow(c, "none", 0)
  /\ SetPost(p, IF mode.buffer THEN "write" ELSE "create", c, 0)
  /\ UNCHANGED <<history, record, disk, sent, job, worker, completer, aborter, fails, restarts, stalls>>

StartFile(p) ==
  /\ mode.single /\ status = "none" /\ Active = {}
  /\ SetPost(p, IF mode.buffer THEN "write" ELSE "create", Whole, 0)
  /\ UNCHANGED <<history, record, row, disk, sent, job, worker, completer, aborter, fails, restarts, stalls>>

\* acceptChunk, acceptFile: first the temp file.
WriteDisk(p) ==
  /\ post[p].pc = "write"
  /\ disk' = disk \cup {post[p].c}
  /\ SetPost(p, "row", post[p].c, 0)
  /\ UNCHANGED <<history, record, row, sent, job, worker, completer, aborter, fails, restarts, stalls>>
Write(p) == ~mode.single /\ WriteDisk(p)
WriteFile(p) == mode.single /\ WriteDisk(p)

\* What the disk refuses, or has no room for when the request begins, is sent directly;
\* both count as failures.
Falls(c) == fallen' = fallen \cup {c} /\ UNCHANGED <<unqueued, stray>>
FallBack(p) ==
  /\ post[p].pc = "write" /\ Failing /\ Falls(post[p].c) /\ SetPost(p, "create", post[p].c, 0)
  /\ UNCHANGED <<record, row, disk, sent, job, worker, completer, aborter, restarts, stalls>>

\* Then the row.
CreateRow(p) ==
  LET c == post[p].c IN
  /\ post[p].pc = "row" /\ ~mode.single /\ Exists
  /\ SetRow(c, "buffered", 0) /\ SetPost(p, "enqueue", c, 0)
  /\ UNCHANGED <<history, record, disk, sent, job, worker, completer, aborter, fails, restarts, stalls>>

CreateFileRow(p) ==
  /\ post[p].pc = "row" /\ mode.single
  /\ SetRow(Whole, "buffered", 0) /\ SetPost(p, "enqueue", Whole, 0) /\ status' = "buffered"
  /\ UNCHANGED <<history, setup, charged, disk, sent, job, worker, completer, aborter, fails, restarts, stalls>>

\* There is no row, because the record is gone or the database fails: the temp file
\* is deleted, and the chunk sent directly.
RefuseRow(p) ==
  /\ post[p].pc = "row" /\ (IF mode.single \/ Exists THEN Failing ELSE UNCHANGED fails)
  /\ disk' = disk \ {post[p].c} /\ Falls(post[p].c) /\ SetPost(p, "create", post[p].c, 0)
  /\ UNCHANGED <<record, row, sent, job, worker, completer, aborter, restarts, stalls>>

\* Then the job, and the answer.
AddJob(p) ==
  /\ post[p].pc = "enqueue"
  /\ job' = [job EXCEPT ![post[p].c] = [NoJob EXCEPT !.st = "wait"]]
  /\ EndPost(p)
  /\ UNCHANGED <<history, record, row, disk, sent, worker, completer, aborter, fails, restarts, stalls>>

\* A job that cannot be added is only logged: the answer is the same.
SkipJob(p) ==
  /\ post[p].pc = "enqueue" /\ Failing
  /\ unqueued' = unqueued \cup {post[p].c} /\ UNCHANGED <<fallen, stray>>
  /\ EndPost(p)
  /\ UNCHANGED <<record, row, disk, sent, job, worker, completer, aborter, restarts, stalls>>
Enqueue(p) == ~mode.single /\ AddJob(p)
EnqueueFile(p) == mode.single /\ AddJob(p)

\* performDirectUpload, uploadFile: a row without a message.
CreatePending(p) ==
  LET c == post[p].c IN
  /\ post[p].pc = "create" /\ ~mode.single
  /\ IF Exists
     THEN SetRow(c, "pending", 0) /\ SetPost(p, "send", c, 0)
     ELSE EndPost(p) /\ UNCHANGED row
  /\ UNCHANGED <<history, record, disk, sent, job, worker, completer, aborter, fails, restarts, stalls>>

CreateFile(p) ==
  /\ post[p].pc = "create" /\ mode.single
  /\ SetRow(Whole, "pending", 0) /\ SetPost(p, "send", Whole, 0) /\ status' = "uploading"
  /\ UNCHANGED <<history, setup, charged, disk, sent, job, worker, completer, aborter, fails, restarts, stalls>>

SendAny(p) ==
  LET c == post[p].c IN
  /\ post[p].pc = "send"
  /\ \E m \in Msg : Sends(c, m) /\ SetPost(p, "update", c, m)
  /\ UNCHANGED <<history, record, row, disk, job, worker, completer, aborter, fails, restarts, stalls>>
Send(p) == ~mode.single /\ SendAny(p)
SendFile(p) == mode.single /\ SendAny(p)

\* The row is deleted again, with the record of a single upload, unless that fails too.
SendFailed(p) ==
  /\ post[p].pc = "send" /\ ~mode.single /\ Failing /\ SentUnseen(post[p].c)
  /\ SetRow(post[p].c, "none", 0) \/ UNCHANGED row
  /\ EndPost(p)
  /\ UNCHANGED <<record, disk, job, worker, completer, aborter, restarts, stalls>>

RemoveRecord == status' = "gone" /\ SetRow(Whole, "none", 0)
SendFileFailed(p) ==
  /\ post[p].pc = "send" /\ mode.single /\ Failing /\ SentUnseen(Whole)
  /\ RemoveRecord \/ UNCHANGED <<status, row>>
  /\ EndPost(p)
  /\ UNCHANGED <<setup, charged, disk, job, worker, completer, aborter, restarts, stalls>>

\* withRetry sends a buffer again; a stream cannot be.
ResendFile(p) ==
  /\ post[p].pc = "send" /\ mode.single /\ Failing
  /\ \E m \in Msg : Sends(Whole, m) /\ Strays(Whole, m)
  /\ UNCHANGED <<record, row, disk, job, worker, post, completer, aborter, restarts, stalls>>

\* The row gets its message; a row that is gone (P2025) was aborted.
Update(p) ==
  LET c == post[p].c IN
  /\ post[p].pc = "update" /\ ~mode.single
  /\ IF row[c].st = "pending"
     THEN SetRow(c, "complete", post[p].msg) /\ SetPost(p, "status", c, post[p].msg)
     ELSE SetPost(p, "undo", c, post[p].msg) /\ UNCHANGED row
  /\ UNCHANGED <<history, record, disk, sent, job, worker, completer, aborter, fails, restarts, stalls>>

\* A single upload is complete and charged in one transaction.
UpdateSingle(p) ==
  LET c == post[p].c IN
  /\ post[p].pc = "update" /\ mode.single
  /\ SetRow(c, "complete", post[p].msg) /\ EndPost(p)
  /\ status' = "complete" /\ charged' = charged + 1
  /\ UNCHANGED <<history, setup, disk, sent, job, worker, completer, aborter, fails, restarts, stalls>>

\* The update fails: the row stays as it is, the record of a single upload is deleted.
UpdateFails(p) ==
  LET c == post[p].c IN
  /\ post[p].pc = "update" /\ Failing /\ Strays(c, post[p].msg) /\ EndPost(p)
  /\ IF mode.single THEN RemoveRecord ELSE UNCHANGED <<status, row>>
  /\ UNCHANGED <<setup, charged, disk, sent, job, worker, completer, aborter, restarts, stalls>>

\* After the update the handler looks whether the file was aborted; the variant
\* looks before.
CheckStatusNever(p) ==
  /\ post[p].pc = "status" /\ EndPost(p)
  /\ UNCHANGED <<history, record, row, disk, sent, job, worker, completer, aborter, fails, restarts, stalls>>
CheckStatus(p) ==
  /\ post[p].pc = "status"
  /\ IF status \in {"aborted", "gone"} THEN SetPost(p, "undo", post[p].c, post[p].msg) ELSE EndPost(p)
  /\ UNCHANGED <<history, record, row, disk, sent, job, worker, completer, aborter, fails, restarts, stalls>>

\* It looks in vain.
CheckFails(p) ==
  /\ post[p].pc = "status" /\ status \in {"aborted", "gone"} /\ Failing
  /\ Strays(post[p].c, post[p].msg) /\ EndPost(p)
  /\ UNCHANGED <<record, row, disk, sent, job, worker, completer, aborter, restarts, stalls>>

\* deleteMessage swallows a failure.
Undo(p) ==
  LET c == post[p].c  m == post[p].msg IN
  /\ post[p].pc = "undo" /\ EndPost(p)
  /\ \/ sent' = [sent EXCEPT ![c] = @ \ {m}] /\ UNCHANGED <<history, fails>>
     \/ Failing /\ Strays(c, m) /\ UNCHANGED sent
  /\ UNCHANGED <<record, row, disk, job, worker, completer, aborter, restarts, stalls>>

-----------------------------------------------------------------------------
(* The jobs that dispatch what was buffered.                               *)

SetWorker(w, pc) == worker' = [worker EXCEPT ![w].pc = pc]
EndWorker(w) == worker' = [worker EXCEPT ![w] = Resting]

Fetch(w, c) ==
  /\ worker[w] = Resting /\ job[c].st = "wait"
  /\ job' = [job EXCEPT ![c].st = "active", ![c].by = w]
  /\ worker' = [worker EXCEPT ![w] = [Resting EXCEPT !.pc = "check", !.c = c]]
  /\ UNCHANGED <<history, record, row, disk, sent, post, completer, aborter, fails, restarts, stalls>>

\* BullMQ removes a job that is done, unless the worker lost it.
FinishJob(w) ==
  job' = [c \in Chunk |-> IF job[c].st = "active" /\ job[c].by = w THEN NoJob ELSE job[c]]

\* BullMQ tries a job Attempts times, then keeps it as failed.  While a job runs,
\* attemptsMade does not count the run itself.
RetryJob(w) ==
  job' = [c \in Chunk |->
            IF job[c].st # "active" \/ job[c].by # w THEN job[c]
            ELSE [job[c] EXCEPT !.tries = @ + 1, !.by = None,
                                !.st = IF job[c].tries + 1 >= Attempts THEN "failed" ELSE "wait"]]

\* handleJobFailure asks whether attemptsMade has reached the attempts.
FailJob(w) ==
  /\ RetryJob(w) /\ EndWorker(w)
  /\ status' = IF Exists /\ job[worker[w].c].tries >= Attempts THEN "buffer_failed" ELSE status

\* Only what is buffered is dispatched.
Check(w) ==
  /\ worker[w].pc = "check"
  /\ IF row[worker[w].c].st = "buffered" THEN SetWorker(w, "read") /\ UNCHANGED job
                                         ELSE EndWorker(w) /\ FinishJob(w)
  /\ UNCHANGED <<history, record, row, disk, sent, post, completer, aborter, fails, restarts, stalls>>

\* readAndEncryptChunk, readAndEncryptFile.
Read(w) ==
  /\ worker[w].pc = "read"
  /\ IF worker[w].c \in disk THEN SetWorker(w, "send") /\ UNCHANGED <<job, status>>
                             ELSE FailJob(w)
  /\ UNCHANGED <<history, setup, charged, row, disk, sent, post, completer, aborter, fails, restarts, stalls>>

\* acquireUploadSlot comes before sendDocument; the slot is used up.
HasSlot(w) == mode.paced => ask[w].pc = "granted"
UseSlot(w) ==
  /\ HasSlot(w)
  /\ ask' = IF mode.paced THEN [ask EXCEPT ![w] = NoAsk] ELSE ask
  /\ UNCHANGED <<mode, slots, granted, turn, bots, skew, outages>>

\* The variant deletes the temp file as soon as the chunk is sent.
DispatchAndRemove(w) ==
  LET c == worker[w].c IN
  /\ worker[w].pc = "send" /\ UseSlot(w) /\ disk' = disk \ {c}
  /\ \E m \in Msg : Sends(c, m) /\ worker' = [worker EXCEPT ![w].pc = "tx", ![w].msg = m]
  /\ UNCHANGED <<history, status, charged, row, job, post, completer, aborter, fails, restarts, stalls>>
Dispatch(w) ==
  LET c == worker[w].c IN
  /\ worker[w].pc = "send" /\ UseSlot(w)
  /\ \E m \in Msg : Sends(c, m) /\ worker' = [worker EXCEPT ![w].pc = "tx", ![w].msg = m]
  /\ UNCHANGED <<history, status, charged, row, disk, job, post, completer, aborter, fails, restarts, stalls>>

\* withRetry: Telegram has the message but its answer is lost, and it is sent again
\* with the same slot.  In the other setups that is only one message more.
Resend(w) ==
  /\ mode.paced /\ worker[w].pc = "send" /\ HasSlot(w) /\ Failing
  /\ \E m \in Msg : Sends(worker[w].c, m) /\ Strays(worker[w].c, m)
  /\ UNCHANGED <<record, row, disk, job, worker, post, completer, aborter, restarts, stalls>>

DispatchFails(w) ==
  /\ worker[w].pc = "send" /\ UseSlot(w) /\ Failing /\ FailJob(w)
  /\ UNCHANGED <<history, charged, row, disk, sent, post, completer, aborter, restarts, stalls>>

\* The transaction of processChunkJob updates its row, counts the complete rows, of
\* which it sees those that are committed, and reads the record; a pending row is
\* created with the status "complete".  The variant counts nothing.
CountAny(w) ==
  LET c == worker[w].c IN
  /\ worker[w].pc = "tx" /\ \A v \in Worker : worker[v].pc = "commit" => worker[v].c # c
  /\ IF row[c].st = "none" THEN FailJob(w)
     ELSE /\ worker' = [worker EXCEPT ![w].pc = "commit", ![w].last = TRUE]
          /\ UNCHANGED <<job, status>>
  /\ UNCHANGED <<history, setup, charged, row, disk, sent, post, completer, aborter, fails, restarts, stalls>>
Count(w) ==
  LET c == worker[w].c
      Counted == {d \in Item : d = c \/ row[d].st \in {"complete", "pending"}} IN
  /\ worker[w].pc = "tx" /\ \A v \in Worker : worker[v].pc = "commit" => worker[v].c # c
  /\ IF row[c].st = "none" THEN FailJob(w)
     ELSE /\ worker' = [worker EXCEPT ![w].pc = "commit",
                                      ![w].last = Counted = Item /\ status # "complete"]
          /\ UNCHANGED <<job, status>>
  /\ UNCHANGED <<history, setup, charged, row, disk, sent, post, completer, aborter, fails, restarts, stalls>>

\* It commits, and completes and charges the file if it was the last chunk.  The
\* transaction of processFileJob always does.
Commit(w) ==
  /\ worker[w].pc = "commit"
  /\ SetRow(worker[w].c, "complete", worker[w].msg)
  /\ IF mode.single \/ worker[w].last THEN status' = "complete" /\ charged' = charged + 1
                                      ELSE UNCHANGED <<status, charged>>
  /\ SetWorker(w, "remove")
  /\ UNCHANGED <<history, setup, disk, sent, job, post, completer, aborter, fails, restarts, stalls>>

\* The temp file is deleted when the transaction has committed.
Remove(w) ==
  /\ worker[w].pc = "remove"
  /\ disk' = disk \ {worker[w].c}
  /\ EndWorker(w) /\ FinishJob(w)
  /\ UNCHANGED <<history, record, row, sent, post, completer, aborter, fails, restarts, stalls>>

\* BullMQ takes a job away whose lock was not renewed: it waits again, and fails if
\* that happened before.  Its worker may still be at work.
TakeBack(c) ==
  job' = [job EXCEPT ![c].by = None, ![c].stalled = TRUE,
                     ![c].st = IF job[c].stalled THEN "failed" ELSE "wait"]

\* The job of a single upload does not stall.
Stall(c) ==
  /\ job[c].st = "active" /\ job[c].by # None /\ ~mode.single
  /\ ~mode.paced /\ restarts + stalls < MaxHalt /\ stalls' = stalls + 1
  /\ TakeBack(c)
  /\ UNCHANGED <<history, record, row, disk, sent, worker, post, completer, aborter, fails, restarts>>

FindStalled(c) ==
  /\ job[c].st = "active" /\ job[c].by = None /\ TakeBack(c)
  /\ UNCHANGED <<history, record, row, disk, sent, worker, post, completer, aborter, fails, restarts, stalls>>

-----------------------------------------------------------------------------
(* Complete, abort, restart.                                               *)

\* completeChunkedUpload: every chunk is on Telegram.
Confirm ==
  /\ completer = "idle" /\ ~mode.single /\ ~mode.paced /\ Exists /\ status # "complete"
  /\ \A c \in Chunk : row[c].msg # 0
  /\ completer' = "flip"
  /\ UNCHANGED <<history, record, row, disk, sent, job, worker, post, aborter, fails, restarts, stalls>>

Flip ==
  /\ completer = "flip"
  /\ IF status \in {"uploading", "buffered"}
     THEN status' = "complete" /\ completer' = "charge"
     ELSE completer' = "idle" /\ UNCHANGED status
  /\ UNCHANGED <<history, setup, charged, row, disk, sent, job, worker, post, aborter, fails, restarts, stalls>>

Charge ==
  /\ completer = "charge" /\ completer' = "idle" /\ charged' = charged + 1
  /\ UNCHANGED <<history, setup, status, row, disk, sent, job, worker, post, aborter, fails, restarts, stalls>>

Messages == {<<c, row[c].msg>> : c \in {d \in Chunk : row[d].msg # 0}}
SetAbort(pc, del) == aborter' = [pc |-> pc, del |-> del]
Without(del) == [c \in Chunk |-> {m \in sent[c] : <<c, m>> \notin del}]

\* abortUpload of a chunked upload: what it finds first.
Abort ==
  /\ aborter.pc \in {"idle", "stopped"} /\ ~mode.single /\ ~mode.paced /\ Exists /\ status # "complete"
  /\ SetAbort("mark", Messages)
  /\ UNCHANGED <<history, record, row, disk, sent, job, worker, post, completer, fails, restarts, stalls>>

MarkAborted ==
  /\ aborter.pc = "mark" /\ status' = "aborted" /\ SetAbort("first", aborter.del)
  /\ UNCHANGED <<history, setup, charged, row, disk, sent, job, worker, post, completer, fails, restarts, stalls>>

\* deleteMessage swallows a failure.
Deletes(del) ==
  \E F \in SUBSET del :
    /\ (IF F = {} THEN UNCHANGED fails ELSE Failing)
    /\ sent' = Without(del \ F) /\ stray' = stray \cup F /\ UNCHANGED <<fallen, unqueued>>

DeleteFirst ==
  /\ aborter.pc = "first" /\ Deletes(aborter.del)
  /\ SetAbort("again", aborter.del)
  /\ UNCHANGED <<record, row, disk, job, worker, post, completer, restarts, stalls>>

\* The rows are read again for messages that are new, and the temp files go too.
DeleteAgain ==
  /\ aborter.pc = "again" /\ Deletes(Messages \ aborter.del)
  /\ disk' = disk \ {c \in Chunk : row[c].st = "buffered"}
  /\ SetAbort("erase", {})
  /\ UNCHANGED <<record, row, job, worker, post, completer, restarts, stalls>>

\* The record goes with its rows, when no transaction holds one.
Erase ==
  /\ aborter.pc = "erase" /\ \A w \in Worker : worker[w].pc # "commit"
  /\ status' = "gone" /\ row' = [c \in Chunk |-> NoRow] /\ SetAbort("stopped", {})
  /\ UNCHANGED <<history, setup, charged, disk, sent, job, worker, post, completer, fails, restarts, stalls>>

\* The database fails an abort, which may be repeated.  Where chunks are buffered, a
\* restart stands for that too.
AbortFails ==
  /\ ~mode.buffer /\ aborter.pc \notin {"idle", "stopped"} /\ Failing /\ SetAbort("stopped", {})
  /\ UNCHANGED <<history, record, row, disk, sent, job, worker, post, completer, restarts, stalls>>

\* onModuleInit adds a job for everything buffered, and goes on when that fails; BullMQ
\* ignores one whose id it knows.  The variant relies on the jobs that are there.
RequeuedNever(c) == NoJob
Requeued(c) == IF row[c].st = "buffered" THEN [NoJob EXCEPT !.st = "wait"] ELSE NoJob

Restart ==
  /\ ~mode.paced /\ restarts + stalls < MaxHalt /\ restarts' = restarts + 1
  /\ worker' = [w \in Worker |-> Resting] /\ post' = [p \in Post |-> Idle]
  /\ completer' = "idle" /\ (IF aborter = NoAbort THEN UNCHANGED aborter ELSE SetAbort("stopped", {}))
  /\ \E F \in SUBSET {c \in Chunk : job[c] = NoJob /\ row[c].st = "buffered"} :
       /\ (IF F = {} THEN UNCHANGED fails ELSE Failing)
       /\ job' = [c \in Chunk |-> IF c \in F THEN NoJob
                                  ELSE IF job[c] = NoJob THEN Requeued(c) ELSE [job[c] EXCEPT !.by = None]]
       /\ unqueued' = F
  /\ UNCHANGED <<fallen, stray, record, row, disk, sent, stalls>>

-----------------------------------------------------------------------------
PostStep(p) ==
  \/ Write(p) \/ CreateRow(p) \/ RefuseRow(p) \/ Enqueue(p) \/ SkipJob(p)
  \/ WriteFile(p) \/ FallBack(p) \/ CreateFileRow(p) \/ EnqueueFile(p)
  \/ CreatePending(p) \/ Send(p) \/ SendFailed(p) \/ Update(p) \/ UpdateFails(p)
  \/ CheckStatus(p) \/ CheckFails(p) \/ Undo(p)
  \/ CreateFile(p) \/ SendFile(p) \/ SendFileFailed(p) \/ ResendFile(p) \/ UpdateSingle(p)

WorkerStep(w) ==
  Check(w) \/ Read(w) \/ Dispatch(w) \/ Resend(w) \/ DispatchFails(w) \/ Count(w) \/ Commit(w) \/ Remove(w)

\* The call of a job for its slot, the other uploads, and the clock.
NoUpload == <<history, mode, status, charged, row, disk, sent, job, worker, post, completer, aborter, fails, restarts, stalls>>
SlotMove(c) ==
  /\ mode.paced /\ (c \in Worker => worker[c].pc = "send")
  /\ SlotStep(c) /\ UNCHANGED NoUpload
Rivals == mode.paced /\ (\E c \in Rival : Leave(c)) /\ UNCHANGED NoUpload
Clock == mode.paced /\ SlotTick /\ UNCHANGED NoUpload

AbortStep == MarkAborted \/ DeleteFirst \/ DeleteAgain \/ Erase \/ AbortFails

Next ==
  \/ \E p \in Post : PostStep(p) \/ StartFile(p) \/ \E c \in Chunk : Start(p, c)
  \/ \E w \in Worker : WorkerStep(w) \/ \E c \in Chunk : Fetch(w, c)
  \/ \E c \in Chunk : Stall(c) \/ FindStalled(c)
  \/ Confirm \/ Flip \/ Charge \/ Abort \/ AbortStep \/ Restart
  \/ (\E c \in Caller : SlotMove(c)) \/ Rivals \/ Clock

Spec == Init /\ [][Next]_vars

\* What is buffered gets its job, and BullMQ runs the jobs and looks for stalled ones.
Fairness ==
  /\ \A p \in Post : WF_vars(AddJob(p))
  /\ \A w \in Worker : WF_vars(WorkerStep(w) \/ SlotMove(w))
  /\ \A c \in Chunk : WF_vars(\E w \in Worker : Fetch(w, c)) /\ WF_vars(FindStalled(c))
  /\ WF_vars(Clock \/ \E g \in Rival : SlotMove(g))
FairSpec == Spec /\ Fairness

-----------------------------------------------------------------------------
(* What an upload through the core promises.                               *)

\* Nobody has begun to abort.
Untouched == aborter = NoAbort

\* As long as nobody aborts, what was accepted is on the disk until it is on Telegram,
\* whoever fails, is retried, or works on a job that was taken from it; and an upload
\* is complete only with all its chunks on Telegram.  Chunks that were sent directly
\* beside buffered ones are the exception: the last job counts their rows as soon as
\* they are created.
Kept ==
  Untouched =>
    /\ \A c \in Chunk : /\ row[c].st = "buffered" => c \in disk
                        /\ row[c].st = "complete" => row[c].msg \in sent[c]
    /\ status = "complete" => \A c \in Item \ fallen : row[c].st = "complete"

\* The last job, another job that counts at the same time and completeChunkedUpload
\* charge the owner once between them, and only for a complete upload, when no job
\* is taken from a worker that goes on with it.
ChargedOnce == Untouched /\ stalls = 0 => charged <= (IF status = "complete" THEN 1 ELSE 0)

\* An abort leaves no message behind, even of a chunk that was on its way to Telegram,
\* but those whose deletion, answer or row failed, when the chunks are sent directly
\* and the core does not restart.
AbortLeavesNothing ==
  ~mode.buffer /\ ~mode.single /\ status = "gone" /\ restarts = 0 /\ Active = {}
    => \A c \in Chunk : \A m \in sent[c] : <<c, m>> \in stray

\* Everything buffered reaches Telegram, whatever the core was doing when it restarted,
\* while failures are fewer than attempts, no job stalls twice and nobody aborts, unless
\* its job could not be added and no restart has added it since.
Dispatched ==
  \A c \in Chunk : row[c].st = "buffered" ~> row[c].st # "buffered" \/ ~Untouched \/ c \in unqueued
=============================================================================
