-------------------------- MODULE TrashLifecycle --------------------------
(***************************************************************************)
(* The trash of one user: soft delete, restore and the paths by which a    *)
(* FileRecord leaves the database, with the DELETE_FILE events by which    *)
(* the transfer service deletes its messages from Telegram.                *)
(*                                                                         *)
(* Every file has size 1 and its messages are deleted or kept together.    *)
(* The core runs several deletion tasks at once; the event stream is the   *)
(* set of files with an event that no handler has acknowledged.            *)
(***************************************************************************)
EXTENDS Integers, FiniteSets

CONSTANTS
  File,         \* the files of the user
  Complete,     \* those whose upload completed and was charged
  InFolder,     \* those in the one folder that may be trashed
  Task,         \* deletion requests and cron jobs of the core
  Worker,       \* event handlers of the transfer service
  None,
  EventDriven,  \* ENABLE_EVENT_DRIVEN_DELETE = 'true'; else the HTTP purge
  Paths,        \* the deletion paths in use, a subset of PathKinds
  Faults        \* what may go wrong, a subset of FaultKinds

PathKinds ==
  {"single",      \* FileLifecycleService.permanentDelete
   "bulk",        \* FolderService.permanentDelete, bulkPermanentDeleteFiles
   "empty",       \* FileLifecycleService.emptyTrash
   "background",  \* TrashCleanupService.startCleanup, _runUserCleanup
   "cron"}        \* TrashCleanupService.handleTrashCleanup

FaultKinds ==
  {"telegram",  \* deleteMessage fails three times
   "report",    \* the report of a deletion does not reach the core
   "publish",   \* XADD fails, or the purge over HTTP does not arrive
   "trim",      \* the stream loses an event that nobody has taken
   "refuse",    \* Telegram says "message can't be deleted", which counts as done
   "db",        \* a transaction, or the write that clears isCleaningTrash, fails
   "goCrash", "coreCrash"}

ASSUME SetsAssumption == /\ IsFiniteSet(File) /\ Complete \subseteq File
                         /\ InFolder \subseteq File
                         /\ None \notin File
ASSUME ModeAssumption == /\ EventDriven \in BOOLEAN
                         /\ Paths \subseteq PathKinds /\ Faults \subseteq FaultKinds

VARIABLES
  \* PostgreSQL
  rows,      \* files with a FileRecord
  age,       \* its deletedAt: "active" when null, "expired" past the cutoff
  folder,    \* the same for the folder, "gone" once it is deleted
  bunch,     \* files that share the folder's deletedAt
  purged,    \* files with telegram_deleted
  used,      \* User.usedSpace
  cleaning,  \* User.isCleaningTrash
  stuck,     \* history: the flag was left set by a failed write or a crash
  \* Telegram, Redis, the transfer service
  content,   \* files whose messages exist
  events,    \* files with an unacknowledged DELETE_FILE event
  hand,      \* what each handler works on
  lost,      \* history: files whose latest deletion was lost, refused or given up
  \* the core
  task

db   == <<rows, age, folder, bunch, purged, used, cleaning, stuck>>
go   == <<content, events, hand, lost>>
vars == <<db, go, task>>

Ages    == {"active", "trashed", "expired"}
TaskPcs == {"idle", "set", "lock", "read", "publish", "confirm", "tx", "folders", "end"}
\* What a task has read: files left to publish, files the next transaction
\* deletes, whether emptyTrash takes the folder with them, and whether the task
\* clears isCleaningTrash at its end.
TaskState == [op : PathKinds \cup {"none"}, pc : TaskPcs, left : SUBSET File,
              cur : SUBSET File, dir : BOOLEAN, clears : BOOLEAN]
HandState == [file : File \cup {None}, pc : {"idle", "delete", "success", "failed"}]

NoTask == [op |-> "none", pc |-> "idle", left |-> {}, cur |-> {},
           dir |-> FALSE, clears |-> FALSE]
Free   == [file |-> None, pc |-> "idle"]

TypeOK ==
  /\ rows \in SUBSET File /\ age \in [File -> Ages]
  /\ folder \in Ages \cup {"gone"} /\ bunch \in SUBSET InFolder
  /\ purged \in SUBSET File /\ used \in Int
  /\ cleaning \in BOOLEAN /\ stuck \in BOOLEAN
  /\ content \in SUBSET File /\ events \in SUBSET File /\ lost \in SUBSET File
  /\ hand \in [Worker -> HandState]
  /\ task \in [Task -> TaskState]

Init ==
  /\ rows = File /\ age = [f \in File |-> "active"]
  /\ folder = "active" /\ bunch = {} /\ purged = {}
  /\ used = Cardinality(Complete) /\ cleaning = FALSE /\ stuck = FALSE
  /\ content = File /\ events = {} /\ lost = {}
  /\ hand = [w \in Worker |-> Free]
  /\ task = [t \in Task |-> NoTask]

-----------------------------------------------------------------------------
(* The user's side: soft delete, restore, and time.                        *)

InTrash == {f \in rows : age[f] # "active"}
Expired == {f \in rows : age[f] = "expired"}

Aged(F, a) == [f \in File |-> IF f \in F THEN a ELSE age[f]]

SoftDelete(f) ==
  /\ f \in rows /\ age[f] = "active"
  /\ age' = Aged({f}, "trashed")
  /\ UNCHANGED <<rows, folder, bunch, purged, used, cleaning, stuck, go, task>>

\* A file may be restored into a folder that stays in the trash.
Restore(f) ==
  /\ f \in InTrash
  /\ age' = Aged({f}, "active") /\ bunch' = bunch \ {f}
  /\ UNCHANGED <<rows, folder, purged, used, cleaning, stuck, go, task>>

\* softDeleteFolderTree: the folder's active files take its deletedAt.
Together == {f \in rows \cap InFolder : age[f] = "active"}

SoftDeleteFolder ==
  /\ folder = "active" /\ folder' = "trashed"
  /\ bunch' = Together
  /\ age' = Aged(bunch', "trashed")
  /\ UNCHANGED <<rows, purged, used, cleaning, stuck, go, task>>

\* restoreRecursive: the files with the folder's deletedAt come back with it.
RestoreFolder ==
  /\ folder \in {"trashed", "expired"} /\ folder' = "active"
  /\ age' = Aged(bunch, "active") /\ bunch' = {}
  /\ UNCHANGED <<rows, purged, used, cleaning, stuck, go, task>>

\* Thirty days pass for a file, or for the folder and what went with it.  Only
\* the cron looks at the age.
Expire(f) ==
  /\ "cron" \in Paths
  /\ f \in InTrash \ bunch /\ age[f] = "trashed"
  /\ age' = Aged({f}, "expired")
  /\ UNCHANGED <<rows, folder, bunch, purged, used, cleaning, stuck, go, task>>

ExpireFolder ==
  /\ "cron" \in Paths
  /\ folder = "trashed" /\ folder' = "expired"
  /\ age' = Aged(bunch, "expired")
  /\ UNCHANGED <<rows, bunch, purged, used, cleaning, stuck, go, task>>

-----------------------------------------------------------------------------
(* The deletion tasks of the core.                                         *)

Op(t) == task[t].op

\* A task goes on; a request ends with its last step, a job in its finally.
Goto(t, s, p) ==
  task' = [task EXCEPT ![t] = IF p = "end" /\ s.op \in {"single", "bulk", "empty"}
                              THEN NoTask ELSE [s EXCEPT !.pc = p]]

\* The tasks that hold the user's deletion lock.
Holds(t) == Op(t) \in {"single", "bulk", "empty"} /\ task[t].pc \in {"publish", "tx"}

FolderInTrash == folder \in {"trashed", "expired"}

\* Phase 1 of the cron: expired and not confirmed; the variant swaps the flag.
SweptConfirmed == Expired \cap purged
Swept == Expired \ purged

\* A request is let in while isCleaningTrash is not set, a folder's also while it
\* is; startCleanup also ends on an empty trash.  The cron runs once at a time.
Admitted(op) ==
  \/ op = "bulk" /\ FolderInTrash
  \/ op = "background" /\ ~cleaning /\ (InTrash # {} \/ FolderInTrash)
  \/ op = "cron" /\ \A u \in Task : Op(u) # "cron"
  \/ op \in {"single", "empty"} /\ ~cleaning

\* The files of a folder are collected, trashed or not, before the lock is taken.
Collected(op) == CASE op = "bulk" -> rows \cap InFolder [] op = "cron" -> Swept [] OTHER -> {}

First(op) == CASE op = "background"               -> "set"
               [] op = "cron" /\ Swept # {}       -> "publish"
               [] op = "cron" /\ Swept = {}       -> "confirm"
               [] OTHER                           -> "lock"

Begin(t, op) ==
  /\ task[t] = NoTask /\ op \in Paths /\ Admitted(op)
  /\ Goto(t, [NoTask EXCEPT !.op = op, !.left = Collected(op)], First(op))
  /\ UNCHANGED <<db, go>>

SetFlag(t) ==
  /\ task[t].pc = "set"
  /\ cleaning' = TRUE
  /\ Goto(t, [task[t] EXCEPT !.clears = TRUE], "read")
  /\ UNCHANGED <<rows, age, folder, bunch, purged, used, stuck, go>>

\* The records to delete are read before anything is done, by a request when it
\* gets the deletion lock; a single one may have left the trash meanwhile.
Targets(t) ==
  CASE Op(t) = "single" -> {{f} : f \in InTrash} \cup {{}}
    [] Op(t) = "bulk"   -> {task[t].left \cap rows}
    [] OTHER            -> {InTrash}

NothingRead(t) ==
  CASE Op(t) = "single" -> "end" [] Op(t) = "empty" -> "tx" [] OTHER -> "folders"

Read(t) ==
  /\ task[t].pc = "read" \/ (task[t].pc = "lock" /\ \A u \in Task : ~Holds(u))
  /\ \E F \in Targets(t) :
       Goto(t, [task[t] EXCEPT !.left = F, !.dir = @ \/ (Op(t) = "empty" /\ FolderInTrash)],
            IF F = {} THEN NothingRead(t) ELSE "publish")
  /\ UNCHANGED <<db, go>>

\* publishDeleteEvent, one file after the other.  The background cleanup deletes
\* each record before it turns to the next; the cron only publishes.
PublishNext(t, f) ==
  CASE Op(t) # "background" /\ task[t].left # {f} -> "publish"
    [] Op(t) = "cron" /\ task[t].left = {f}       -> "confirm"
    [] OTHER                                      -> "tx"

\* A purge over HTTP that does not reach the transfer service is only logged.
MayBeLost == ~EventDriven /\ "publish" \in Faults

Publish(t, f) ==
  /\ task[t].pc = "publish" /\ f \in task[t].left
  /\ \/ events' = events \cup {f} /\ lost' = lost \ {f}
     \/ MayBeLost /\ lost' = lost \cup ({f} \cap content) /\ UNCHANGED events
  /\ Goto(t, [task[t] EXCEPT !.left = @ \ {f}, !.clears = @ \/ Op(t) = "cron",
                            !.cur = CASE Op(t) = "background" -> {f}
                                      [] Op(t) = "cron"       -> {}
                                      [] OTHER                -> @ \cup {f}],
          PublishNext(t, f))
  /\ UNCHANGED <<db, content, hand>>

\* XADD throws: a request fails, a job goes on with the next file.
PublishFails(t, f) ==
  /\ "publish" \in Faults /\ EventDriven
  /\ task[t].pc = "publish" /\ f \in task[t].left
  /\ Goto(t, [task[t] EXCEPT !.left = @ \ {f}],
          CASE Op(t) \in {"single", "bulk", "empty"} -> "end"
            [] Op(t) \in {"background", "cron"} /\ task[t].left # {f} -> "publish"
            [] Op(t) = "background" /\ task[t].left = {f} -> "folders"
            [] OTHER -> "confirm")
  /\ UNCHANGED <<db, go>>

\* Phase 2 of the cron: the records the transfer service confirmed.
Confirm(t) ==
  /\ task[t].pc = "confirm"
  /\ LET F == Expired \cap purged IN
     /\ cleaning' = (cleaning \/ F # {})
     /\ Goto(t, [task[t] EXCEPT !.cur = F, !.clears = @ \/ F # {}],
             IF F = {} THEN "folders" ELSE "tx")
  /\ UNCHANGED <<rows, age, folder, bunch, purged, used, stuck, go>>

\* The transaction that deletes the records.  delete() throws when the record is
\* gone, deleteMany() does not.
Removed(t) ==
  IF Op(t) \in {"single", "background"} /\ ~(task[t].cur \subseteq rows)
  THEN {} ELSE task[t].cur \cap rows

\* What leaves usedSpace: DELETE ... RETURNING tells the folder's deletion which
\* records it deleted, emptyTrash and the cron count what they read.  The
\* variant counts what was read everywhere.
FreedRead(t) == task[t].cur \cap Complete
Freed(t) == (IF Op(t) \in {"empty", "cron"} THEN task[t].cur ELSE Removed(t)) \cap Complete

\* The transaction fails: a request and the cron end, the cleanup goes on.
TxFails(t) ==
  /\ "db" \in Faults /\ task[t].pc = "tx"
  /\ Goto(t, [task[t] EXCEPT !.cur = {}],
          CASE Op(t) # "background"                         -> "end"
            [] Op(t) = "background" /\ task[t].left # {} -> "publish"
            [] OTHER                                       -> "folders")
  /\ UNCHANGED <<db, go>>

\* emptyTrash deletes the folder in the same transaction.
Tx(t) ==
  /\ task[t].pc = "tx"
  /\ IF Op(t) = "empty" /\ task[t].dir
     THEN folder' = "gone" /\ rows' = (rows \ Removed(t)) \ InFolder
     ELSE rows' = rows \ Removed(t) /\ UNCHANGED folder
  /\ used' = used - Cardinality(Freed(t))
  /\ Goto(t, [task[t] EXCEPT !.cur = {}],
          CASE Op(t) \in {"single", "empty"} -> "end"
            [] Op(t) = "background" /\ task[t].left # {} -> "publish"
            [] OTHER -> "folders")
  /\ UNCHANGED <<age, bunch, purged, cleaning, stuck, go>>

\* The folder goes, and with it every record still in it (onDelete: Cascade): the
\* requested one, or the one a job finds in the trash, for the cron if expired.
Doomed(t) == \/ Op(t) = "bulk" /\ folder # "gone"
             \/ Op(t) = "cron" /\ folder = "expired"
             \/ Op(t) = "background" /\ FolderInTrash

DeleteFolder(t) ==
  /\ task[t].pc = "folders"
  /\ IF Doomed(t) THEN folder' = "gone" /\ rows' = rows \ InFolder
                  ELSE UNCHANGED <<folder, rows>>
  /\ Goto(t, [task[t] EXCEPT !.clears = @ \/ (Op(t) = "cron" /\ Doomed(t))], "end")
  /\ UNCHANGED <<age, bunch, purged, used, cleaning, stuck, go>>

\* finally: the jobs clear the flag, the cron also that of a cleanup that is
\* still running.  The variant forgets to.
FlagKept(t) == cleaning
FlagAfter(t) == cleaning /\ ~task[t].clears

\* clearCleanupFlags logs and swallows a failing write.
End(t) ==
  /\ task[t].pc = "end"
  /\ \/ cleaning' = FlagAfter(t) /\ stuck' = (stuck /\ ~task[t].clears)
     \/ /\ "db" \in Faults /\ task[t].clears
        /\ stuck' = (stuck \/ cleaning) /\ UNCHANGED cleaning
  /\ task' = [task EXCEPT ![t] = NoTask]
  /\ UNCHANGED <<rows, age, folder, bunch, purged, used, go>>

\* Tasks and locks live in memory, the flag does not.
CoreCrash ==
  /\ "coreCrash" \in Faults /\ \E t \in Task : task[t] # NoTask
  /\ task' = [t \in Task |-> NoTask]
  /\ stuck' = (stuck \/ cleaning)
  /\ UNCHANGED <<rows, age, folder, bunch, purged, used, cleaning, go>>

-----------------------------------------------------------------------------
(* The transfer service.                                                   *)

\* A handler takes an event; TakeAgain leaves another one behind: it was
\* published twice, or is reclaimed while this slow handler still works on it.
TakeTo(w, f) == hand[w] = Free /\ f \in events /\ hand' = [hand EXCEPT ![w] = [file |-> f, pc |-> "delete"]]

Take(w, f) ==
  /\ TakeTo(w, f) /\ events' = events \ {f}
  /\ UNCHANGED <<db, content, lost, task>>

TakeAgain(w, f) ==
  /\ TakeTo(w, f)
  /\ UNCHANGED <<db, content, events, lost, task>>

\* XADD trims the stream to its latest entries, and a group that is made anew starts
\* behind those that are there.
Trim(f) ==
  /\ "trim" \in Faults /\ EventDriven
  /\ f \in events
  /\ events' = events \ {f} /\ lost' = lost \cup ({f} \cap content)
  /\ UNCHANGED <<db, content, hand, task>>

\* deleteMessage succeeds also for a message that is gone, or that Telegram refuses
\* to delete.
Deleted(w) ==
  /\ hand[w].pc = "delete"
  /\ \/ content' = content \ {hand[w].file} /\ lost' = lost \ {hand[w].file}
     \/ "refuse" \in Faults /\ lost' = lost \cup ({hand[w].file} \cap content) /\ UNCHANGED content
  /\ hand' = [hand EXCEPT ![w].pc = "success"]
  /\ UNCHANGED <<db, events, task>>

DeleteFails(w) ==
  /\ "telegram" \in Faults
  /\ hand[w].pc = "delete"
  /\ hand' = [hand EXCEPT ![w].pc = "failed"]
  /\ lost' = lost \cup ({hand[w].file} \cap content)
  /\ UNCHANGED <<db, content, events, task>>

\* reportDeleteSuccess marks the record, if there is one, and the event is
\* acknowledged; the HTTP purge reports nothing.
Report(w) ==
  /\ hand[w].pc = "success"
  /\ purged' = purged \cup (IF EventDriven THEN {hand[w].file} \cap rows ELSE {})
  /\ hand' = [hand EXCEPT ![w] = Free]
  /\ UNCHANGED <<rows, age, folder, bunch, used, cleaning, stuck, content, events, lost, task>>

\* A failure is acknowledged as well, and so is a report that did not get through.
Acknowledge(w) ==
  /\ hand[w].pc = "failed" \/ (hand[w].pc = "success" /\ "report" \in Faults)
  /\ hand' = [hand EXCEPT ![w] = Free]
  /\ UNCHANGED <<db, content, events, lost, task>>

\* XAUTOCLAIM hands the event of a dead instance to another one; the variant
\* acknowledged it before it was handled.  The HTTP purge is lost with the
\* memory of the instance.
ReclaimedNone(w) == events
Reclaimed(w) == IF EventDriven THEN events \cup ({hand[w].file} \ {None}) ELSE {}

GoCrash(w) ==
  /\ "goCrash" \in Faults
  /\ hand[w] # Free
  /\ events' = Reclaimed(w)
  /\ lost' = lost \cup (IF EventDriven THEN {} ELSE (events \cup {hand[w].file}) \cap content)
  /\ hand' = [hand EXCEPT ![w] = Free]
  /\ UNCHANGED <<db, content, task>>

-----------------------------------------------------------------------------
UserStep ==
  \/ \E f \in File : SoftDelete(f) \/ Restore(f) \/ Expire(f)
  \/ SoftDeleteFolder \/ RestoreFolder \/ ExpireFolder

TaskStep(t) ==
  \/ SetFlag(t) \/ Read(t)
  \/ \E f \in File : Publish(t, f)
  \/ Confirm(t) \/ Tx(t) \/ DeleteFolder(t) \/ End(t)

HandStep(w) == Deleted(w) \/ Report(w)

Trouble ==
  \/ \E t \in Task : TxFails(t) \/ \E f \in File : PublishFails(t, f)
  \/ \E f \in File : Trim(f)
  \/ \E w \in Worker : DeleteFails(w) \/ Acknowledge(w) \/ GoCrash(w)
  \/ CoreCrash

Next ==
  \/ UserStep
  \/ \E t \in Task : TaskStep(t) \/ \E op \in PathKinds : Begin(t, op)
  \/ \E w \in Worker : HandStep(w) \/ \E f \in File : Take(w, f) \/ TakeAgain(w, f)
  \/ Trouble

Spec == Init /\ [][Next]_vars

-----------------------------------------------------------------------------
(* What the trash promises.                                                *)

\* "Count only rows actually removed, including when another worker races us":
\* usedSpace never falls below the sum of the complete files, trashed or not.
UsedCovers == used >= Cardinality(rows \cap Complete)

\* Messages that no record names any more are about to be deleted: an event of
\* the file is still to be handled, unless the deletion itself was lost, refused or
\* given up.  A record that went with its folder is not covered, see DeleteFolder.
NoOrphan ==
  \A f \in content \ rows :
    \/ f \in events \/ \E w \in Worker : hand[w] = [file |-> f, pc |-> "delete"]
    \/ f \in lost
    \/ f \in InFolder /\ folder = "gone"

\* isCleaningTrash blocks the trash only while a job that will clear it runs, or
\* since one that failed to or died with the core, until another job clears it.
CleaningHasRunner == cleaning => stuck \/ \E t \in Task : task[t].clears

\* The core runs its requests and fires the cron every night, the handlers work
\* through the stream in order, and neither Telegram nor Redis nor the database
\* fails for ever.
Fairness ==
  /\ \A t \in Task : WF_vars(TaskStep(t))
  /\ SF_vars(\E t \in Task : Begin(t, "cron"))
  /\ \A w \in Worker : WF_vars(HandStep(w) \/ Acknowledge(w))
  /\ \A f \in File : SF_vars(\E w \in Worker : Take(w, f))
  /\ <>[][\A w \in Worker : ~DeleteFails(w)]_vars
  /\ <>[][\A t \in Task : ~TxFails(t) /\ \A f \in File : ~PublishFails(t, f)]_vars
FairSpec == Spec /\ Fairness

\* "Soft delete with auto-cleanup": a record that stays in the trash past the
\* cutoff leaves the database.
ExpiredIsPurged ==
  \A f \in File : (f \in rows /\ age[f] = "expired") ~> (f \notin rows \/ age[f] = "active")
=============================================================================
