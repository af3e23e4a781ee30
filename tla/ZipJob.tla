------------------------------- MODULE ZipJob -------------------------------
(***************************************************************************)
(* The ZIP downloads of one user, and of a folder the user shares: the     *)
(* request, the worker that writes the parts to the shared disk, the       *)
(* downloads of the parts, and the cron that expires ready jobs and fails  *)
(* stuck ones.  ZIP_OWNER says who the worker is: the transfer service,    *)
(* told by a CREATE_ZIP event, which reports to the core; or, with "nest", *)
(* the core itself, told by a BullMQ job.                                  *)
(*                                                                         *)
(* Every archive has the same number of parts, and an event is handed over *)
(* and acknowledged in one step.  The core may still execute a call that   *)
(* the worker has stopped waiting for.                                     *)
(***************************************************************************)
EXTENDS FileLinks

CONSTANTS
  Job,        \* DownloadJob rows
  Instance,   \* instances of the service that assembles
  Reader,     \* downloads of a part
  None,
  Parts,      \* parts of an archive
  MaxActive,  \* bound on the counter of active streams
  Setups,     \* ZIP_OWNER, the jobs for the visitors of a share, and the downloads
              \* of parts that are looked at together; or nothing but the downloads of
              \* FileLinks, from which the content of an archive comes
  Faults      \* what may go wrong, a subset of FaultKinds

FaultKinds ==
  {"publish",    \* XADD, or adding the job, fails
   "rpc",        \* a call of the worker times out, or its database fails
   "stall",      \* the lock of a job is not renewed while its worker goes on
   "disk",       \* writing a part fails, or no file is left to zip
   "slow",       \* two hours pass before the worker is done
   "deleted",    \* the files are deleted between two attempts
   "goCrash", "coreCrash"}

ASSUME SetsAssumption == None \notin Job /\ None \notin Instance /\ Instance # {}
ASSUME BoundsAssumption == /\ Parts \in Nat \ {0} /\ MaxActive \in Nat
                           /\ Faults \subseteq FaultKinds
ASSUME SetupAssumption == Setups \subseteq {"go", "nest", "links"} \X (SUBSET Job) \X (SUBSET Reader)

VARIABLES
  owner,     \* ZIP_OWNER, or "links"
  readers,   \* downloads that there are
  \* the core and PostgreSQL
  shared,    \* jobs for the visitors of a share
  req,       \* progress of the request that creates the job
  status,    \* DownloadJob.status, "none" before it exists
  old,       \* jobs created more than two hours ago
  due,       \* jobs whose expiresAt has passed
  calls,     \* calls of workers that the core has yet to execute
  cron,      \* cleanupExpiredZips
  \* Redis, the disk
  events,    \* jobs with an unacknowledged CREATE_ZIP event
  queue,     \* the BullMQ job of each job
  active,    \* the counters zip:stream:active:<jobId>
  disk,      \* the parts of each job on the disk
  \* the workers and the downloads
  run,       \* the worker of each instance, per job
  reader,
  overtaken  \* jobs that were decided while a worker had not finished with them

setup == <<owner, readers, shared>>
core == <<setup, req, status, old, due, calls, cron>>
bull == <<queue, overtaken>>
vars == <<core, bull, events, active, disk, run, reader>>

InProgress == {"pending", "collecting", "zipping"}
\* A worker that waits for an answer has the name of its call.
Kinds  == {"collect", "ready", "failed"}

NoRun    == [pc |-> "idle", n |-> 0]
NoCron   == [pc |-> "idle", to |-> "expired", todo |-> {}, cur |-> None]
NoReader == [pc |-> "idle", job |-> None]
NoBull   == [st |-> "none", tries |-> 0, stalled |-> FALSE, by |-> None]

Init ==
  /\ \E s \in Setups :
       /\ owner = s[1] /\ shared = s[2] /\ readers = s[3]
       /\ IF owner = "links" THEN \E p \in Situations : LinkInit(p, Download)
                            ELSE LinkInit(CHOOSE p \in Situations : TRUE, {})
  /\ queue = [j \in Job |-> NoBull] /\ overtaken = {}
  /\ req = [j \in Job |-> "idle"] /\ status = [j \in Job |-> "none"]
  /\ old = {} /\ due = {} /\ events = {} /\ calls = {} /\ cron = NoCron
  /\ active = [j \in Job |-> 0] /\ disk = [j \in Job |-> {}]
  /\ run = [j \in Job |-> [i \in Instance |-> NoRun]]
  /\ reader = [r \in Reader |-> NoReader]

-----------------------------------------------------------------------------
(* The request.                                                            *)

\* createJob up to its checks: no other job of the user is in progress.
CheckJob(j) ==
  /\ j \notin shared /\ req[j] = "idle" /\ \A k \in Job : status[k] \notin InProgress
  /\ req' = [req EXCEPT ![j] = "checked"]
  /\ UNCHANGED <<setup, bull, status, old, due, calls, cron, events, active, disk, run, reader>>

\* createSharedJob asks for jobs of the share only, whoever the visitor is.
CheckSharedJob(j) ==
  /\ j \in shared /\ req[j] = "idle" /\ \A k \in shared : status[k] \notin InProgress
  /\ req' = [req EXCEPT ![j] = "checked"]
  /\ UNCHANGED <<setup, bull, status, old, due, calls, cron, events, active, disk, run, reader>>

CreateJob(j) ==
  /\ req[j] = "checked"
  /\ status' = [status EXCEPT ![j] = "pending"]
  /\ req' = [req EXCEPT ![j] = "created"]
  /\ UNCHANGED <<setup, bull, old, due, calls, cron, events, active, disk, run, reader>>

\* dispatchZipJob; when XADD throws the row stays.
Dispatch(j) ==
  /\ req[j] = "created" /\ owner = "go"
  /\ \/ events' = events \cup {j}
     \/ "publish" \in Faults /\ UNCHANGED events
  /\ req' = [req EXCEPT ![j] = "answered"]
  /\ UNCHANGED <<setup, bull, status, old, due, calls, cron, active, disk, run, reader>>

AddJob(j) ==
  /\ req[j] = "created" /\ owner = "nest"
  /\ \/ queue' = [queue EXCEPT ![j].st = "wait"]
     \/ "publish" \in Faults /\ UNCHANGED queue
  /\ req' = [req EXCEPT ![j] = "answered"]
  /\ UNCHANGED <<setup, overtaken, status, old, due, calls, cron, events, active, disk, run, reader>>

-----------------------------------------------------------------------------
(* The worker of the transfer service.                                     *)

SetRun(j, i, p, n) == run' = [run EXCEPT ![j][i] = [pc |-> p, n |-> n]]

\* The worker calls the core and waits.
Ask(j, i, k) == calls' = calls \cup {<<j, i, k>>} /\ SetRun(j, i, k, 0)

\* The event is acknowledged when the job was handed over to Process, not when it
\* is done.
Take(j, i) ==
  /\ j \in events /\ events' = events \ {j}
  /\ Ask(j, i, "collect")
  /\ UNCHANGED <<setup, bull, req, status, old, due, cron, active, disk, reader>>

\* openPart creates the file under its final name.
OpenPart(j, i) ==
  /\ owner = "go" /\ run[j][i].pc = "zip" /\ run[j][i].n < Parts
  /\ disk' = [disk EXCEPT ![j] = @ \cup {run[j][i].n + 1}]
  /\ SetRun(j, i, "zip", run[j][i].n + 1)
  /\ UNCHANGED <<core, bull, events, active, reader>>

ReportReady(j, i) ==
  /\ owner = "go" /\ run[j][i] = [pc |-> "zip", n |-> Parts]
  /\ Ask(j, i, "ready")
  /\ UNCHANGED <<setup, bull, req, status, old, due, cron, events, active, disk, reader>>

ZipFails(j, i) ==
  /\ "disk" \in Faults /\ owner = "go" /\ run[j][i].pc = "zip"
  /\ Ask(j, i, "failed")
  /\ UNCHANGED <<setup, bull, req, status, old, due, cron, events, active, disk, reader>>

\* A call times out, or died with the core; so does the report of the failure.
GiveUp(j, i) ==
  LET pending == {<<j, i, run[j][i].pc>>, <<j, i, "mark">>} \cap calls IN
  /\ run[j][i].pc \in Kinds /\ ("rpc" \in Faults \/ pending = {})
  /\ IF run[j][i].pc = "failed" THEN SetRun(j, i, "clean", 0) /\ UNCHANGED calls
                                ELSE Ask(j, i, "failed")
  /\ overtaken' = IF pending = {} THEN overtaken ELSE overtaken \cup {j}
  /\ UNCHANGED <<setup, queue, req, status, old, due, cron, events, active, disk, reader>>

\* cleanup deletes parts up to the first that does not exist.
Gap(j) == {p \in 1 .. Parts : \E q \in 1 .. p : q \notin disk[j]}

Cleanup(j, i) ==
  /\ run[j][i].pc = "clean"
  /\ disk' = [disk EXCEPT ![j] = @ \cap Gap(j)]
  /\ SetRun(j, i, "idle", 0)
  /\ UNCHANGED <<core, bull, events, active, reader>>

-----------------------------------------------------------------------------
(* The calls, as the core executes them.                                   *)

\* A worker that still waits for the call goes on.
Answer(j, i, k, p) ==
  IF run[j][i].pc = k THEN SetRun(j, i, p, 0) ELSE UNCHANGED run

\* collectEntries, whatever the status is.
Collect(j, i) ==
  /\ <<j, i, "collect">> \in calls
  /\ calls' = calls \ {<<j, i, "collect">>}
  /\ status' = [status EXCEPT ![j] = "zipping"]
  /\ Answer(j, i, "collect", "zip")
  /\ UNCHANGED <<setup, bull, req, old, due, cron, events, active, disk, reader>>

MarkReady(j, i) ==
  /\ <<j, i, "ready">> \in calls
  /\ calls' = calls \ {<<j, i, "ready">>}
  /\ status' = [status EXCEPT ![j] = "ready"] /\ due' = due \ {j}
  /\ Answer(j, i, "ready", "idle")
  /\ UNCHANGED <<setup, bull, req, old, cron, events, active, disk, reader>>

\* markFailed removes the directory, then sets the status.
MarkFailedClean(j, i) ==
  /\ <<j, i, "failed">> \in calls
  /\ calls' = (calls \ {<<j, i, "failed">>}) \cup {<<j, i, "mark">>}
  /\ disk' = [disk EXCEPT ![j] = {}]
  /\ UNCHANGED <<setup, bull, req, status, old, due, cron, events, active, run, reader>>

MarkFailed(j, i) ==
  /\ <<j, i, "mark">> \in calls
  /\ calls' = calls \ {<<j, i, "mark">>}
  /\ status' = [status EXCEPT ![j] = "failed"]
  /\ Answer(j, i, "failed", "clean")
  /\ UNCHANGED <<setup, bull, req, old, due, cron, events, active, disk, reader>>

-----------------------------------------------------------------------------
(* The worker of the core.                                                 *)

At(j, i, pc) == owner = "nest" /\ run[j][i].pc = pc

TakeJob(j, i) ==
  /\ queue[j].st = "wait" /\ run[j][i] = NoRun
  /\ queue' = [queue EXCEPT ![j].st = "active", ![j].by = i]
  /\ SetRun(j, i, "begin", 0)
  /\ UNCHANGED <<core, overtaken, events, active, disk, reader>>

\* BullMQ: the job is done; or it failed, and is tried twice.  A worker that lost the
\* job to another one changes nothing.
FinishJob(j, i) == queue' = IF queue[j].by = i THEN [queue EXCEPT ![j] = NoBull] ELSE queue
RetryJob(j, i) ==
  queue' = IF queue[j].by # i THEN queue
           ELSE [queue EXCEPT ![j].tries = @ + 1, ![j].by = None,
                              ![j].st = IF queue[j].tries = 0 THEN "wait" ELSE "failed"]

\* A step of process() sets the status and goes on.
Progress(j, i, from, st, to) ==
  /\ At(j, i, from) /\ status' = [status EXCEPT ![j] = st] /\ SetRun(j, i, to, 0)
  /\ UNCHANGED <<setup, bull, req, old, due, calls, cron, events, active, disk, reader>>

Begin(j, i) == Progress(j, i, "begin", "collecting", "entries")
CollectFiles(j, i) == Progress(j, i, "entries", "zipping", "zip")

\* Everything that was chosen has been deleted meanwhile: the job is not tried again,
\* and what an earlier attempt left on the disk stays.
NoFiles(j, i) ==
  /\ At(j, i, "entries") /\ "disk" \in Faults /\ (disk[j] = {} \/ "deleted" \in Faults)
  /\ status' = [status EXCEPT ![j] = "failed"] /\ SetRun(j, i, "idle", 0) /\ FinishJob(j, i)
  /\ UNCHANGED <<setup, overtaken, req, old, due, calls, cron, events, active, disk, reader>>

\* createZip begins the first part at once, and the next ones as they fill up.
BeginPart(j, i) ==
  /\ At(j, i, "zip") /\ run[j][i].n < Parts
  /\ disk' = [disk EXCEPT ![j] = @ \cup {run[j][i].n + 1}]
  /\ SetRun(j, i, "zip", run[j][i].n + 1)
  /\ UNCHANGED <<core, bull, events, active, reader>>

\* The variant is ready when the last part is begun.
FinishAt(j, i, n) ==
  /\ At(j, i, "zip") /\ run[j][i].n = n
  /\ status' = [status EXCEPT ![j] = "ready"] /\ due' = due \ {j}
  /\ SetRun(j, i, "idle", 0) /\ FinishJob(j, i)
  /\ UNCHANGED <<setup, overtaken, req, old, calls, cron, events, active, disk, reader>>
FinishEarly(j, i) == FinishAt(j, i, Parts - 1)
Finish(j, i) == FinishAt(j, i, Parts)

\* What process() catches: the directory goes first, then the status, if the database
\* answers, and BullMQ hears of it.
Catch(j, i) ==
  /\ owner = "nest" /\ run[j][i].pc \in {"begin", "entries", "zip"} /\ {"disk", "rpc"} \cap Faults # {}
  /\ SetRun(j, i, "drop", 0)
  /\ UNCHANGED <<core, bull, events, active, disk, reader>>

Drop(j, i) ==
  /\ At(j, i, "drop") /\ disk' = [disk EXCEPT ![j] = {}] /\ SetRun(j, i, "throw", 0)
  /\ UNCHANGED <<core, bull, events, active, reader>>

Throw(j, i) ==
  /\ At(j, i, "throw")
  /\ \/ status' = [status EXCEPT ![j] = "failed"]
     \/ "rpc" \in Faults /\ UNCHANGED status
  /\ SetRun(j, i, "idle", 0) /\ RetryJob(j, i)
  /\ UNCHANGED <<setup, overtaken, req, old, due, calls, cron, events, active, disk, reader>>

\* The lock of the job is not renewed: it waits again, and fails the second time.
TakeBack(j) ==
  queue' = [queue EXCEPT ![j].by = None, ![j].stalled = TRUE,
                         ![j].st = IF queue[j].stalled THEN "failed" ELSE "wait"]

Stall(j) ==
  /\ "stall" \in Faults /\ queue[j].st = "active" /\ queue[j].by # None
  /\ TakeBack(j) /\ overtaken' = overtaken \cup {j}
  /\ UNCHANGED <<core, events, active, disk, run, reader>>

FindStalled(j) ==
  /\ queue[j].st = "active" /\ queue[j].by = None /\ TakeBack(j)
  /\ UNCHANGED <<core, overtaken, events, active, disk, run, reader>>

-----------------------------------------------------------------------------
(* Downloads of a part.                                                    *)

SetReader(r, p, j) == reader' = [reader EXCEPT ![r] = [pc |-> p, job |-> j]]

\* GetZipJob: ready and not expired.
Offered(j) == status[j] = "ready" /\ j \notin due
Admit(r, j) ==
  /\ r \in readers /\ reader[r] = NoReader /\ Offered(j)
  /\ active[j] + Cardinality({q \in Reader : reader[q] = [pc |-> "admitted", job |-> j]}) < MaxActive
  /\ SetReader(r, "admitted", j)
  /\ UNCHANGED <<core, bull, events, active, disk, run>>

\* INCR, then the part is opened and streamed.
Count(r) ==
  LET j == reader[r].job IN
  /\ reader[r].pc = "admitted"
  /\ active' = [active EXCEPT ![j] = @ + 1]
  /\ SetReader(r, "counted", j)
  /\ UNCHANGED <<core, bull, events, disk, run>>

\* DECR, and DEL in a call of its own when nothing is left.
Uncount(r) ==
  LET j == reader[r].job IN
  /\ reader[r].pc = "counted"
  /\ active' = [active EXCEPT ![j] = @ - 1]
  /\ IF active'[j] <= 0 THEN SetReader(r, "del", j) ELSE SetReader(r, "idle", None)
  /\ UNCHANGED <<core, bull, events, disk, run>>

Delete(r) ==
  /\ reader[r].pc = "del"
  /\ active' = [active EXCEPT ![reader[r].job] = 0]
  /\ SetReader(r, "idle", None)
  /\ UNCHANGED <<core, bull, events, disk, run>>

\* The TTL of the counter, longer than any download; the variant has none.
TtlNever(j) == FALSE
Ttl(j) == active[j] # 0 /\ \A r \in Reader : reader[r].job # j

KeyExpires(j) ==
  /\ Ttl(j)
  /\ active' = [active EXCEPT ![j] = 0]
  /\ UNCHANGED <<core, bull, events, disk, run, reader>>

-----------------------------------------------------------------------------
(* Time, and the cron.                                                     *)

\* Thirty minutes pass for a ready job, two hours for any.
GetsDue(j) ==
  /\ status[j] = "ready" /\ j \notin due /\ due' = due \cup {j}
  /\ UNCHANGED <<setup, bull, req, status, old, calls, cron, events, active, disk, run, reader>>

AtWork(j) ==
  \/ req[j] \in {"checked", "created"} \/ j \in events \/ queue[j].st \in {"wait", "active"}
  \/ \E i \in Instance : run[j][i] # NoRun \/ \E k \in Kinds \cup {"mark"} : <<j, i, k>> \in calls

GetsOld(j) ==
  /\ status[j] # "none" /\ j \notin old /\ old' = old \cup {j}
  /\ "slow" \in Faults \/ ~AtWork(j)
  /\ UNCHANGED <<setup, bull, req, status, due, calls, cron, events, active, disk, run, reader>>

Expired == {j \in due : status[j] = "ready"}
Stuck == {j \in old : status[j] \in InProgress}

CronStart ==
  /\ cron.pc \in {"idle", "down"}
  /\ cron' = [pc |-> "loop", to |-> "expired", todo |-> Expired, cur |-> None]
  /\ UNCHANGED <<setup, bull, req, status, old, due, calls, events, active, disk, run, reader>>

\* hasActiveStreams is asked before an expired job is touched.
Streaming(j) == active[j] > 0
CronPick(j) ==
  /\ cron.pc = "loop" /\ j \in cron.todo
  /\ cron' = IF cron.to = "expired" /\ Streaming(j)
             THEN [cron EXCEPT !.todo = @ \ {j}]
             ELSE [cron EXCEPT !.todo = @ \ {j}, !.pc = "remove", !.cur = j]
  /\ overtaken' = IF cron.to = "failed" THEN overtaken \cup {j} ELSE overtaken
  /\ UNCHANGED <<setup, queue, req, status, old, due, calls, events, active, disk, run, reader>>

\* The parts go first, then the status changes.
CronRemove ==
  /\ cron.pc = "remove"
  /\ disk' = [disk EXCEPT ![cron.cur] = {}]
  /\ cron' = [cron EXCEPT !.pc = "mark"]
  /\ UNCHANGED <<setup, bull, req, status, old, due, calls, events, active, run, reader>>

CronMark ==
  /\ cron.pc = "mark"
  /\ status' = [status EXCEPT ![cron.cur] = cron.to]
  /\ cron' = [cron EXCEPT !.pc = "loop", !.cur = None]
  /\ UNCHANGED <<setup, bull, req, old, due, calls, events, active, disk, run, reader>>

CronNext ==
  /\ cron.pc = "loop" /\ cron.todo = {}
  /\ cron' = IF cron.to = "expired" THEN [cron EXCEPT !.to = "failed", !.todo = Stuck]
                                    ELSE NoCron
  /\ UNCHANGED <<setup, bull, req, status, old, due, calls, events, active, disk, run, reader>>

-----------------------------------------------------------------------------
(* Crashes.                                                                *)

\* Workers and downloads of the instance end; what the core was asked to do goes
\* on, and the counters keep the downloads.
GoCrash(i) ==
  /\ "goCrash" \in Faults
  /\ run' = [j \in Job |-> [run[j] EXCEPT ![i] = NoRun]]
  /\ queue' = [j \in Job |-> IF queue[j].by = i THEN [queue[j] EXCEPT !.by = None] ELSE queue[j]]
  /\ \E R \in SUBSET Reader : reader' = [r \in Reader |-> IF r \in R THEN NoReader ELSE reader[r]]
  /\ UNCHANGED <<core, overtaken, events, active, disk>>

\* What the core does is lost, until its cron fires again.
CoreCrash ==
  /\ "coreCrash" \in Faults
  /\ calls' = {} /\ cron' = [NoCron EXCEPT !.pc = "down"]
  /\ req' = [j \in Job |-> IF req[j] = "idle" THEN "idle" ELSE "answered"]
  /\ UNCHANGED <<setup, bull, status, old, due, events, active, disk, run, reader>>

-----------------------------------------------------------------------------
RequestStep(j) == CreateJob(j) \/ Dispatch(j) \/ AddJob(j)

WorkerStep(j, i) == \/ OpenPart(j, i) \/ ReportReady(j, i) \/ ZipFails(j, i)
                    \/ GiveUp(j, i) \/ Cleanup(j, i)
                    \/ Begin(j, i) \/ CollectFiles(j, i) \/ NoFiles(j, i) \/ BeginPart(j, i)
                    \/ Finish(j, i) \/ Catch(j, i) \/ Drop(j, i) \/ Throw(j, i)

CallStep(j, i) == Collect(j, i) \/ MarkReady(j, i) \/ MarkFailedClean(j, i) \/ MarkFailed(j, i)

ReaderStep(r) == Count(r) \/ Uncount(r) \/ Delete(r)

CronStep == /\ owner # "links"
            /\ CronStart \/ (\E j \in Job : CronPick(j)) \/ CronRemove \/ CronMark \/ CronNext

Clock(j) == GetsDue(j) \/ GetsOld(j) \/ KeyExpires(j)

ZipNext ==
  \/ \E j \in Job : \/ CheckJob(j) \/ CheckSharedJob(j) \/ RequestStep(j) \/ Clock(j)
                    \/ Stall(j) \/ FindStalled(j)
  \/ \E j \in Job, i \in Instance :
       Take(j, i) \/ TakeJob(j, i) \/ WorkerStep(j, i) \/ CallStep(j, i)
  \/ \E r \in Reader : ReaderStep(r) \/ \E j \in Job : Admit(r, j)
  \/ CronStep
  \/ (\E i \in Instance : GoCrash(i)) \/ CoreCrash

\* Links are looked at by themselves.
Next == \/ owner # "links" /\ ZipNext /\ UNCHANGED linkVars
        \/ owner = "links" /\ LinkNext /\ UNCHANGED vars

Spec == Init /\ [][Next]_<<vars, linkVars>>

-----------------------------------------------------------------------------
(* What a ZIP download promises.                                           *)

\* Requests, workers, handlers of the core and downloads go on, events and jobs are
\* taken, BullMQ looks for stalled ones, time passes, the cron fires every five
\* minutes, and crashes end.
Fairness ==
  /\ \A j \in Job : /\ WF_vars(RequestStep(j)) /\ WF_vars(Clock(j))
                    /\ WF_vars(FindStalled(j) \/ \E i \in Instance : Take(j, i) \/ TakeJob(j, i))
                    /\ WF_vars(\E i \in Instance : WorkerStep(j, i) \/ CallStep(j, i))
  /\ WF_vars(\E r \in Reader : ReaderStep(r))
  /\ WF_vars(CronStep)
  /\ <>[][~CoreCrash /\ \A i \in Instance : ~GoCrash(i)]_vars
FairSpec == Spec /\ Fairness /\ LinkFairness

\* A download that is offered has all its parts on the disk, whatever crashed and was
\* tried again, unless somebody else decided about the job before its worker was done
\* with it: a call was given up, the lock was lost, or the cron found it stuck.
OfferedIsWhole == \A j \in Job : Offered(j) /\ j \notin overtaken => disk[j] = 1 .. Parts

\* "The cron marks stuck jobs": a job does not stay in progress, and so does not
\* keep its user from downloading, whichever step was lost.
JobEnds == \A j \in Job : status[j] \in InProgress ~> status[j] \notin InProgress

\* What a job that is in progress or ready has on the disk leaves it, whoever died
\* and cannot delete it, provided that nobody works on a job that counts as stuck, or
\* goes on with one that it has lost.
Lost(j) == owner = "nest" /\ \E i \in Instance : run[j][i] # NoRun /\ queue[j].by # i
PartsAreFreed ==
  \A j \in Job : []((j \in old => ~AtWork(j)) /\ ~Lost(j))
    => (status[j] \in InProgress \cup {"ready"} /\ disk[j] # {} ~> disk[j] = {})

\* Of a job that fails or loses its worker nothing stays: neither the row in progress nor
\* the parts on the disk.
JobsGoAway == JobEnds /\ PartsAreFreed
=============================================================================
