-------------------------- MODULE CoreUploadProofs --------------------------
(***************************************************************************)
(* Proofs about CoreUpload, for any number of chunks, requests, workers,   *)
(* bots, failures, restarts and stalled jobs.                              *)
(***************************************************************************)
EXTENDS CoreUpload, SumTheorems, TLAPS

PostPc == {"idle", "write", "row", "enqueue", "create", "send", "update", "status", "undo"}
WorkerPc == {"idle", "check", "read", "send", "tx", "commit", "remove"}
RowState == [st : {"none", "buffered", "pending", "complete"}, msg : Msg]
JobState == [st : {"none", "wait", "active", "failed"}, tries : Nat, stalled : BOOLEAN,
             by : Worker \cup {None}]
WorkerState == [pc : WorkerPc, c : Chunk \cup {None}, msg : Msg, last : BOOLEAN]
PostState == [pc : PostPc, c : Chunk \cup {None}, msg : Msg]

Typed ==
  /\ mode \in [single : BOOLEAN, buffer : BOOLEAN, paced : BOOLEAN]
  /\ row \in [Chunk -> RowState] /\ job \in [Chunk -> JobState]
  /\ worker \in [Worker -> WorkerState] /\ post \in [Post -> PostState]
  /\ sent \in [Chunk -> SUBSET (Msg \ {0})] /\ disk \in SUBSET Chunk
  /\ charged \in Nat /\ restarts \in Nat /\ stalls \in Nat
  /\ completer \in {"idle", "flip", "charge"}

\* A request is at a chunk of its own.
PostsApart ==
  /\ \A p \in Post : /\ post[p].pc = "idle" => post[p].c = None
                     /\ post[p].pc # "idle" => post[p].c \in Chunk
                     /\ mode.single /\ post[p].pc # "idle" => post[p].c = Whole
                     /\ post[p].pc \in {"write", "row", "enqueue"} => mode.buffer
                     /\ post[p].pc \in {"create", "send", "update", "status", "undo"} =>
                       ~mode.buffer \/ mode.single \/ post[p].c \in fallen
  /\ \A p, q \in Post : p # q /\ post[p].c \in Chunk => post[p].c # post[q].c

\* What there is of a chunk goes with the kind of the upload.
RowsApart ==
  \A c \in Chunk : /\ row[c].msg # 0 => row[c].st = "complete"
                   /\ mode.single /\ c # Whole => row[c].st = "none"
                   /\ job[c].st # "none" => mode.buffer /\ (mode.single => c = Whole)
                   /\ job[c].st \in {"wait", "active"} => job[c].tries < Attempts
                   /\ row[c].st = "pending" => ~mode.buffer \/ mode.single \/ c \in fallen
                   /\ row[c].st = "buffered" => mode.buffer

WorkersApart ==
  \A w \in Worker :
    /\ worker[w].pc # "idle" => mode.buffer /\ worker[w].c \in Chunk /\ (mode.single => worker[w].c = Whole)
    /\ \A c \in Chunk : job[c].st = "active" /\ job[c].by = w => worker[w].pc # "idle" /\ worker[w].c = c

Separate == PostsApart /\ RowsApart /\ WorkersApart

PostFits(p) ==
  LET c == post[p].c IN
  /\ post[p].pc \in {"write", "row", "create"} => row[c].st = "none"
  /\ post[p].pc \in {"send", "update"} => row[c].st = "pending"
  /\ post[p].pc = "enqueue" => row[c].st = "buffered" /\ job[c].st = "none"
  /\ post[p].pc = "row" => c \in disk
  /\ post[p].pc = "update" => post[p].msg \in sent[c]
  /\ post[p].pc # "undo"
  /\ post[p].pc = "status" => ~mode.single

WorkerFits(w) ==
  LET c == worker[w].c IN
  worker[w].pc # "idle" =>
    /\ row[c].st \in {"buffered", "complete"}
    /\ worker[w].pc = "remove" \/ job[c].st = "none" => row[c].st = "complete"
    /\ worker[w].pc \in {"tx", "commit"} => worker[w].msg \in sent[c]
    /\ worker[w].pc = "commit" /\ worker[w].last =>
         \A d \in Item \ {c} : row[d].st = "complete" \/ d \in fallen

RowFits(c) ==
  /\ row[c].st = "buffered" => c \in disk
  /\ row[c].st = "complete" => row[c].msg \in sent[c]
  /\ job[c].st # "none" => row[c].st \in {"buffered", "complete"}

PostsFit == \A p \in Post : PostFits(p)
WorkersFit == \A w \in Worker : WorkerFits(w)
RowsFit == \A c \in Chunk : RowFits(c)
StatusFits ==
  /\ completer \in {"flip", "charge"} => \A c \in Chunk : row[c].st = "complete"
  /\ status = "complete" => \A c \in Item : row[c].st = "complete" \/ (~mode.single /\ c \in fallen)
  /\ mode.single /\ status = "none" => row[Whole].st = "none"
  /\ status # "aborted" /\ (status = "gone" => mode.single)

Fits == PostsFit /\ WorkersFit /\ RowsFit /\ StatusFits

\* A worker has the job it works on.
Owned ==
  \A w \in Worker : worker[w].pc # "idle" =>
    /\ job[worker[w].c].st = "active" /\ job[worker[w].c].by = w
    /\ worker[w].pc \in {"read", "send", "tx", "commit"} => row[worker[w].c].st = "buffered"

ChargeFits ==
  /\ charged <= (IF status = "complete" THEN 1 ELSE 0)
  /\ completer = "charge" => status = "complete" /\ charged = 0

\* The job that found the last chunk is the one that completes the file.
LastFits ==
  \A w \in Worker : worker[w].pc = "commit" /\ worker[w].last =>
    /\ status # "complete"
    /\ \A v \in Worker \ {w} : ~(worker[v].pc = "commit" /\ worker[v].last)

Once == Owned /\ ChargeFits /\ LastFits

Direct == ~mode.buffer /\ ~mode.single /\ restarts = 0

\* What the row of a request says meanwhile.
PostsTraced ==
  \A p \in Post :
    /\ post[p].pc \in {"create", "send", "update"} => row[post[p].c].msg = 0
    /\ post[p].pc = "status" /\ status \notin {"aborted", "gone"} => row[post[p].c].msg = post[p].msg

Held(c, m) ==
  \E p \in Post : post[p].pc \in {"update", "status", "undo"} /\ post[p].c = c /\ post[p].msg = m

\* A message is in the hands of its request, or of a row that the abort still reads, or
\* a failure left it behind.
AllTraced ==
  \A c \in Chunk : \A m \in sent[c] :
    \/ Held(c, m) \/ <<c, m>> \in stray
    \/ row[c].msg = m /\ aborter.pc # "erase" /\ status # "gone"

AbortTraced ==
  /\ aborter.pc \in {"first", "again", "erase"} => status = "aborted"
  /\ aborter.pc = "mark" => status # "gone"
  /\ aborter.pc \in {"mark", "first", "again"} => \A c \in Chunk, m \in Msg : <<c, m>> \in aborter.del => row[c].msg = m /\ m # 0
  /\ aborter.pc = "again" => \A c \in Chunk : \A m \in sent[c] : <<c, m>> \in aborter.del => <<c, m>> \in stray

Traced == PostsTraced /\ AllTraced /\ AbortTraced

IInv == /\ Typed /\ Separate /\ (Untouched => Fits) /\ (Untouched /\ stalls = 0 => Once)
        /\ (Direct => Traced)

-----------------------------------------------------------------------------
(* Types.                                                                  *)

LEMMA Zero == 0 \in Msg
BY BoundsAssumption DEF Msg

\* What the records hold.
LEMMA Fields ==
  ASSUME Typed
  PROVE  /\ \A p \in Post : post[p].pc \in PostPc /\ post[p].c \in Chunk \cup {None} /\ post[p].msg \in Msg
         /\ \A w \in Worker : /\ worker[w].pc \in WorkerPc /\ worker[w].c \in Chunk \cup {None}
                              /\ worker[w].msg \in Msg
         /\ \A c \in Chunk : /\ row[c].st \in {"none", "buffered", "pending", "complete"}
                             /\ row[c].msg \in Msg
                             /\ job[c].tries \in Nat /\ job[c].by \in Worker \cup {None}
                             /\ job[c].st \in {"none", "wait", "active", "failed"}
BY DEF Typed, PostState, WorkerState, RowState, JobState

\* A request, a row or a worker changes.
LEMMA PostTyped ==
  ASSUME Typed, NEW p \in Post
  PROVE  /\ [post EXCEPT ![p] = Idle] \in [Post -> PostState]
         /\ \A pc \in PostPc, c \in Chunk, m \in Msg :
              [post EXCEPT ![p] = [pc |-> pc, c |-> c, msg |-> m]] \in [Post -> PostState]
BY Zero DEF Typed, PostState, Idle, PostPc

LEMMA RowTyped ==
  ASSUME Typed, NEW c \in Chunk
  PROVE  \A st \in {"none", "buffered", "pending", "complete"}, m \in Msg :
           [row EXCEPT ![c] = [st |-> st, msg |-> m]] \in [Chunk -> RowState]
BY DEF Typed, RowState

LEMMA WorkerTyped ==
  ASSUME Typed, NEW w \in Worker
  PROVE  /\ Resting \in WorkerState
         /\ [worker EXCEPT ![w] = Resting] \in [Worker -> WorkerState]
         /\ \A c \in Chunk : [worker EXCEPT ![w] = [Resting EXCEPT !.pc = "check", !.c = c]] \in [Worker -> WorkerState]
         /\ \A pc \in WorkerPc : [worker EXCEPT ![w].pc = pc] \in [Worker -> WorkerState]
         /\ \A m \in Msg : [worker EXCEPT ![w].pc = "tx", ![w].msg = m] \in [Worker -> WorkerState]
         /\ \A b \in BOOLEAN : [worker EXCEPT ![w].pc = "commit", ![w].last = b] \in [Worker -> WorkerState]
<1>1. Resting \in WorkerState
  BY Zero DEF Resting, WorkerState, WorkerPc
<1>2. \A c \in Chunk : [Resting EXCEPT !.pc = "check", !.c = c] \in WorkerState
  BY Zero DEF Resting, WorkerState, WorkerPc
<1>3. worker \in [Worker -> WorkerState]
  BY DEF Typed
<1>4. \A pc \in WorkerPc : [worker EXCEPT ![w].pc = pc] \in [Worker -> WorkerState]
  BY <1>3 DEF WorkerState
<1>5. ASSUME NEW m \in Msg
      PROVE  [worker EXCEPT ![w].pc = "tx", ![w].msg = m] \in [Worker -> WorkerState]
  <2>1. [worker[w] EXCEPT !.pc = "tx", !.msg = m] \in WorkerState
    BY <1>3 DEF WorkerState, WorkerPc
  <2>2. [worker EXCEPT ![w].pc = "tx", ![w].msg = m] = [worker EXCEPT ![w] = [worker[w] EXCEPT !.pc = "tx", !.msg = m]]
    BY <1>3
  <2>. QED  BY <1>3, <2>1, <2>2
<1>6. ASSUME NEW b \in BOOLEAN
      PROVE  [worker EXCEPT ![w].pc = "commit", ![w].last = b] \in [Worker -> WorkerState]
  <2>1. [worker[w] EXCEPT !.pc = "commit", !.last = b] \in WorkerState
    BY <1>3 DEF WorkerState, WorkerPc
  <2>2. [worker EXCEPT ![w].pc = "commit", ![w].last = b] = [worker EXCEPT ![w] = [worker[w] EXCEPT !.pc = "commit", !.last = b]]
    BY <1>3
  <2>. QED  BY <1>3, <2>1, <2>2
<1>. QED  BY <1>1, <1>2, <1>3, <1>4, <1>5, <1>6

\* What BullMQ does with a job.
LEMMA JobTyped ==
  ASSUME Typed
  PROVE  /\ \A c \in Chunk : [job EXCEPT ![c] = [NoJob EXCEPT !.st = "wait"]] \in [Chunk -> JobState]
         /\ \A c \in Chunk, w \in Worker : [job EXCEPT ![c].st = "active", ![c].by = w] \in [Chunk -> JobState]
         /\ \A w \in Worker : FinishJob(w) => job' \in [Chunk -> JobState]
         /\ \A w \in Worker : RetryJob(w) => job' \in [Chunk -> JobState]
         /\ \A c \in Chunk : TakeBack(c) => job' \in [Chunk -> JobState]
<1>1. job \in [Chunk -> JobState]
  BY DEF Typed
<1>2. NoJob \in JobState /\ [NoJob EXCEPT !.st = "wait"] \in JobState
  BY DEF NoJob, JobState
<1>3. ASSUME NEW j \in JobState
      PROVE  /\ \A w \in Worker : [j EXCEPT !.st = "active", !.by = w] \in JobState
             /\ \A st \in {"wait", "failed"} : [j EXCEPT !.tries = j.tries + 1, !.by = None, !.st = st] \in JobState
             /\ \A st \in {"wait", "failed"} : [j EXCEPT !.by = None, !.stalled = TRUE, !.st = st] \in JobState
  <2>1. j.tries + 1 \in Nat
    BY DEF JobState
  <2>. DEFINE t == j.tries + 1
  <2>2. t \in Nat
    BY <2>1
  <2>. HIDE DEF t
  <2>3. \A st \in {"wait", "failed"} : [j EXCEPT !.tries = t, !.by = None, !.st = st] \in JobState
    BY <2>2 DEF JobState
  <2>4. \A w \in Worker : [j EXCEPT !.st = "active", !.by = w] \in JobState
    BY DEF JobState
  <2>5. \A st \in {"wait", "failed"} : [j EXCEPT !.by = None, !.stalled = TRUE, !.st = st] \in JobState
    BY DEF JobState
  <2>. QED  BY <2>3, <2>4, <2>5 DEF t
<1>4. ASSUME NEW c \in Chunk, NEW w \in Worker
      PROVE  [job EXCEPT ![c].st = "active", ![c].by = w] \in [Chunk -> JobState]
  <2>1. [job EXCEPT ![c].st = "active", ![c].by = w] = [job EXCEPT ![c] = [job[c] EXCEPT !.st = "active", !.by = w]]
    BY <1>1
  <2>2. [job[c] EXCEPT !.st = "active", !.by = w] \in JobState
    BY <1>1, <1>3
  <2>. QED  BY <1>1, <2>1, <2>2
<1>5. ASSUME NEW w \in Worker, FinishJob(w)  PROVE job' \in [Chunk -> JobState]
  BY <1>1, <1>2, <1>5 DEF FinishJob
<1>6. ASSUME NEW w \in Worker, RetryJob(w)  PROVE job' \in [Chunk -> JobState]
  BY <1>1, <1>3, <1>6 DEF RetryJob
<1>7. ASSUME NEW c \in Chunk, TakeBack(c)  PROVE job' \in [Chunk -> JobState]
  <2>1. PICK st \in {"wait", "failed"} : job' = [job EXCEPT ![c].by = None, ![c].stalled = TRUE, ![c].st = st]
    BY <1>7 DEF TakeBack
  <2>2. job' = [job EXCEPT ![c] = [job[c] EXCEPT !.by = None, !.stalled = TRUE, !.st = st]]
    BY <1>1, <2>1
  <2>3. [job[c] EXCEPT !.by = None, !.stalled = TRUE, !.st = st] \in JobState
    BY <1>1, <1>3
  <2>. QED  BY <1>1, <2>2, <2>3
<1>. QED  BY <1>1, <1>2, <1>4, <1>5, <1>6, <1>7

\* Who is at work is at a chunk.
LEMMA AtChunk ==
  ASSUME Typed, Separate
  PROVE  /\ \A p \in Post : /\ post[p].pc # "idle" => post[p].c \in Chunk
                            /\ post[p].pc \in PostPc /\ post[p].msg \in Msg
         /\ \A w \in Worker : /\ worker[w].pc # "idle" => worker[w].c \in Chunk
                              /\ worker[w].pc \in WorkerPc /\ worker[w].msg \in Msg
         /\ \A c \in Chunk : row[c].msg \in Msg
         /\ Whole \in Chunk
BY Fields, ChunkAssumption DEF Separate, PostsApart, WorkersApart, Whole

\* What a step of a worker leaves as it is.
LEMMA WorkerMoves ==
  ASSUME Typed, NEW w \in Worker
  PROVE  /\ \A pc \in WorkerPc : SetWorker(w, pc) =>
              /\ \A v \in Worker \ {w} : worker'[v] = worker[v]
              /\ worker'[w].pc = pc /\ worker'[w].c = worker[w].c
              /\ worker'[w].msg = worker[w].msg /\ worker'[w].last = worker[w].last
         /\ EndWorker(w) =>
              /\ \A v \in Worker \ {w} : worker'[v] = worker[v]
              /\ worker'[w].pc = "idle"
         /\ \A m \in Msg : worker' = [worker EXCEPT ![w].pc = "tx", ![w].msg = m] =>
              /\ \A v \in Worker \ {w} : worker'[v] = worker[v]
              /\ worker'[w].pc = "tx" /\ worker'[w].c = worker[w].c /\ worker'[w].msg = m
         /\ \A b \in BOOLEAN : worker' = [worker EXCEPT ![w].pc = "commit", ![w].last = b] =>
              /\ \A v \in Worker \ {w} : worker'[v] = worker[v]
              /\ worker'[w].pc = "commit" /\ worker'[w].c = worker[w].c
              /\ worker'[w].msg = worker[w].msg /\ worker'[w].last = b
<1>1. worker \in [Worker -> WorkerState] /\ worker[w] \in WorkerState
  BY DEF Typed
<1>2. ASSUME NEW pc \in WorkerPc, SetWorker(w, pc)
      PROVE  /\ \A v \in Worker \ {w} : worker'[v] = worker[v]
             /\ worker'[w].pc = pc /\ worker'[w].c = worker[w].c
             /\ worker'[w].msg = worker[w].msg /\ worker'[w].last = worker[w].last
  BY <1>1, <1>2 DEF SetWorker, WorkerState
<1>3. ASSUME EndWorker(w)
      PROVE  (\A v \in Worker \ {w} : worker'[v] = worker[v]) /\ worker'[w].pc = "idle"
  BY <1>1, <1>3 DEF EndWorker, Resting
<1>4. ASSUME NEW m \in Msg, worker' = [worker EXCEPT ![w].pc = "tx", ![w].msg = m]
      PROVE  /\ \A v \in Worker \ {w} : worker'[v] = worker[v]
             /\ worker'[w].pc = "tx" /\ worker'[w].c = worker[w].c /\ worker'[w].msg = m
  BY <1>1, <1>4 DEF WorkerState
<1>5. ASSUME NEW b \in BOOLEAN, worker' = [worker EXCEPT ![w].pc = "commit", ![w].last = b]
      PROVE  /\ \A v \in Worker \ {w} : worker'[v] = worker[v]
             /\ worker'[w].pc = "commit" /\ worker'[w].c = worker[w].c
             /\ worker'[w].msg = worker[w].msg /\ worker'[w].last = b
  BY <1>1, <1>5 DEF WorkerState
<1>. QED  BY <1>2, <1>3, <1>4, <1>5

\* What a step of a worker does to the jobs.
LEMMA JobMoves ==
  ASSUME Typed, NEW w \in Worker
  PROVE  /\ FinishJob(w) => \A c \in Chunk :
              /\ job'[c].st # "none" => job'[c] = job[c] /\ ~(job[c].st = "active" /\ job[c].by = w)
              /\ ~(job[c].st = "active" /\ job[c].by = w) => job'[c] = job[c]
         /\ RetryJob(w) => \A c \in Chunk :
              /\ (job'[c].st = "none") <=> (job[c].st = "none")
              /\ ~(job[c].st = "active" /\ job[c].by = w) => job'[c] = job[c]
              /\ job[c].st = "active" /\ job[c].by = w => job'[c].st # "active"
<1>1. job \in [Chunk -> JobState]
  BY DEF Typed
<1>2. ASSUME FinishJob(w), NEW c \in Chunk
      PROVE  /\ job'[c].st # "none" => job'[c] = job[c] /\ ~(job[c].st = "active" /\ job[c].by = w)
             /\ ~(job[c].st = "active" /\ job[c].by = w) => job'[c] = job[c]
  BY <1>1, <1>2 DEF FinishJob, NoJob
<1>3. ASSUME RetryJob(w), NEW c \in Chunk
      PROVE  /\ (job'[c].st = "none") <=> (job[c].st = "none")
             /\ ~(job[c].st = "active" /\ job[c].by = w) => job'[c] = job[c]
             /\ job[c].st = "active" /\ job[c].by = w => job'[c].st # "active"
  <2>1. CASE job[c].st # "active" \/ job[c].by # w
    BY <1>3, <2>1 DEF RetryJob
  <2>2. CASE ~(job[c].st # "active" \/ job[c].by # w)
    <3>1. PICK st \in {"wait", "failed"} : job'[c] = [job[c] EXCEPT !.tries = @ + 1, !.by = None, !.st = st]
      BY <1>3, <2>2 DEF RetryJob
    <3>2. job'[c].st = st
      BY <1>1, <3>1 DEF JobState
    <3>. QED  BY <2>2, <3>2
  <2>. QED  BY <2>1, <2>2
<1>. QED  BY <1>2, <1>3

\* A job that is tried again has tries left.
LEMMA JobBounds ==
  ASSUME Typed, NEW w \in Worker, RetryJob(w), NEW c \in Chunk, job'[c].st \in {"wait", "active"}
  PROVE  job'[c] = job[c] \/ job'[c].tries < Attempts
<1>1. job \in [Chunk -> JobState] /\ job[c].tries \in Nat
  BY DEF Typed, JobState
<1>2. CASE job[c].st # "active" \/ job[c].by # w
  BY <1>2 DEF RetryJob
<1>3. CASE ~(job[c].st # "active" \/ job[c].by # w)
  <2> DEFINE st == IF job[c].tries + 1 >= Attempts THEN "failed" ELSE "wait"
             n == job[c].tries + 1
  <2>1. job'[c] = [job[c] EXCEPT !.tries = n, !.by = None, !.st = st]
    BY <1>3 DEF RetryJob
  <2>2. st = "failed" \/ n < Attempts
    BY <1>1, BoundsAssumption
  <2> HIDE DEF st, n
  <2>3. job'[c].st = st /\ job'[c].tries = n
    BY <1>1, <2>1 DEF JobState
  <2>. QED  BY <2>2, <2>3
<1>. QED  BY <1>2, <1>3

LEMMA Waits ==
  /\ [NoJob EXCEPT !.st = "wait"].st = "wait" /\ [NoJob EXCEPT !.st = "wait"].tries = 0
  /\ [NoJob EXCEPT !.st = "wait"].by = None /\ NoJob.st = "none" /\ NoJob.by = None
BY DEF NoJob

\* BullMQ takes one job back.
LEMMA JobTakenBack ==
  ASSUME Typed, NEW c \in Chunk, TakeBack(c)
  PROVE  /\ \A d \in Chunk \ {c} : job'[d] = job[d]
         /\ job'[c].tries = job[c].tries
         /\ job'[c].by = None /\ job'[c].st \in {"wait", "failed"}
<1>1. job \in [Chunk -> JobState]
  BY DEF Typed
<1>2. PICK st \in {"wait", "failed"} : job' = [job EXCEPT ![c].by = None, ![c].stalled = TRUE, ![c].st = st]
  BY DEF TakeBack
<1>3. job' = [job EXCEPT ![c] = [job[c] EXCEPT !.by = None, !.stalled = TRUE, !.st = st]]
  BY <1>1, <1>2
<1>. QED  BY <1>1, <1>3 DEF JobState

\* What a lost answer and a deletion may leave.
LEMMA Unseen ==
  ASSUME Typed, NEW c \in Chunk, SentUnseen(c)
  PROVE  /\ UNCHANGED fallen /\ sent' \in [Chunk -> SUBSET (Msg \ {0})]
         /\ \A d \in Chunk : /\ sent[d] \subseteq sent'[d]
                             /\ \A m \in sent'[d] : m \in sent[d] \/ <<d, m>> \in stray'
                             /\ \A m : <<d, m>> \in stray => <<d, m>> \in stray'
<1>1. CASE UNCHANGED <<sent, history>>
  BY <1>1 DEF history, Typed
<1>2. ASSUME NEW m \in Msg, Sends(c, m), Strays(c, m)
      PROVE  /\ UNCHANGED fallen /\ sent' \in [Chunk -> SUBSET (Msg \ {0})]
             /\ \A d \in Chunk : /\ sent[d] \subseteq sent'[d]
                                 /\ \A n \in sent'[d] : n \in sent[d] \/ <<d, n>> \in stray'
                                 /\ \A n : <<d, n>> \in stray => <<d, n>> \in stray'
  <2>1. sent' = [sent EXCEPT ![c] = @ \cup {m}] /\ m \in Msg \ {0}
    BY <1>2 DEF Sends
  <2>2. stray' = stray \cup {<<c, m>>} /\ UNCHANGED fallen
    BY <1>2 DEF Strays
  <2>3. sent' \in [Chunk -> SUBSET (Msg \ {0})]
    BY <2>1 DEF Typed
  <2>4. \A d \in Chunk : sent'[d] = IF d = c THEN sent[d] \cup {m} ELSE sent[d]
    BY <2>1 DEF Typed
  <2>. QED  BY <2>2, <2>3, <2>4
<1>. QED  BY <1>1, <1>2 DEF SentUnseen

LEMMA Deleted ==
  ASSUME Typed, NEW del, Deletes(del)
  PROVE  /\ UNCHANGED fallen /\ sent' \in [Chunk -> SUBSET (Msg \ {0})]
         /\ \A c \in Chunk : /\ sent'[c] \subseteq sent[c]
                             /\ \A m \in sent'[c] : <<c, m>> \in del => <<c, m>> \in stray'
                             /\ \A m : <<c, m>> \in stray => <<c, m>> \in stray'
<1>1. PICK F \in SUBSET del : sent' = Without(del \ F) /\ stray' = stray \cup F /\ UNCHANGED <<fallen, unqueued>>
  BY DEF Deletes
<1>2. \A c \in Chunk : sent'[c] = {m \in sent[c] : <<c, m>> \notin del \ F}
  BY <1>1 DEF Without
<1>3. sent' \in [Chunk -> SUBSET (Msg \ {0})]
  BY <1>1 DEF Without, Typed
<1>. QED  BY <1>1, <1>2, <1>3

\* What Restart makes of the jobs.
LEMMA JobsRestarted ==
  ASSUME Typed, Restart
  PROVE  /\ job' \in [Chunk -> JobState]
         /\ \A c \in Chunk : \/ job'[c] = [job[c] EXCEPT !.by = None] /\ job[c] # NoJob
                             \/ job'[c] = NoJob
                             \/ job'[c] = [NoJob EXCEPT !.st = "wait"] /\ row[c].st = "buffered"
<1>1. PICK F \in SUBSET {c \in Chunk : job[c] = NoJob /\ row[c].st = "buffered"} :
         job' = [c \in Chunk |-> IF c \in F THEN NoJob
                                 ELSE IF job[c] = NoJob THEN Requeued(c) ELSE [job[c] EXCEPT !.by = None]]
  BY DEF Restart
<1>2. \A c \in Chunk : \/ job'[c] = [job[c] EXCEPT !.by = None] /\ job[c] # NoJob
                       \/ job'[c] = NoJob
                       \/ job'[c] = [NoJob EXCEPT !.st = "wait"] /\ row[c].st = "buffered"
  BY <1>1 DEF Requeued
<1>3. \A c \in Chunk : [job[c] EXCEPT !.by = None] \in JobState
  BY DEF Typed, JobState
<1>4. NoJob \in JobState /\ [NoJob EXCEPT !.st = "wait"] \in JobState
  BY DEF NoJob, JobState
<1>. QED  BY <1>1, <1>2, <1>3, <1>4

\* Every step keeps the types.
LEMMA TypedStep ==
  ASSUME Typed, Separate, [Next]_vars
  PROVE  Typed'
<1>1. ASSUME NEW p \in Post, NEW c \in Chunk, Start(p, c)
      PROVE  Typed'
  BY <1>1, AtChunk, Zero, PostTyped, RowTyped
  DEF Start, record, setup, SetPost, SetRow, Typed, PostPc, WorkerPc
<1>2. ASSUME NEW p \in Post, StartFile(p)
      PROVE  Typed'
  BY <1>2, AtChunk, Zero, PostTyped, RowTyped
  DEF StartFile, record, setup, SetPost, Typed, PostPc, WorkerPc
<1>3. ASSUME NEW p \in Post, WriteDisk(p)
      PROVE  Typed'
  BY <1>3, AtChunk, Zero, PostTyped, RowTyped
  DEF WriteDisk, record, setup, SetPost, Typed, PostPc, WorkerPc
<1>4. ASSUME NEW p \in Post, FallBack(p)
      PROVE  Typed'
  BY <1>4, AtChunk, Zero, PostTyped, RowTyped
  DEF FallBack, Falls, record, setup, SetPost, Typed, PostPc, WorkerPc
<1>5. ASSUME NEW p \in Post, CreateRow(p)
      PROVE  Typed'
  BY <1>5, AtChunk, Zero, PostTyped, RowTyped
  DEF CreateRow, Exists, record, setup, SetPost, SetRow, Typed, PostPc, WorkerPc
<1>6. ASSUME NEW p \in Post, CreateFileRow(p)
      PROVE  Typed'
  BY <1>6, AtChunk, Zero, PostTyped, RowTyped
  DEF CreateFileRow, setup, SetPost, SetRow, Typed, PostPc, WorkerPc
<1>7. ASSUME NEW p \in Post, RefuseRow(p)
      PROVE  Typed'
  BY <1>7, AtChunk, Zero, PostTyped, RowTyped
  DEF RefuseRow, Falls, record, setup, SetPost, Typed, PostPc, WorkerPc
<1>8. ASSUME NEW p \in Post, AddJob(p)
      PROVE  Typed'
  BY <1>8, AtChunk, Zero, PostTyped, RowTyped, JobTyped
  DEF AddJob, record, setup, EndPost, Typed, PostPc, WorkerPc
<1>9. ASSUME NEW p \in Post, CreatePending(p)
      PROVE  Typed'
  <2>1. post[p].c \in Chunk
    BY <1>9, AtChunk DEF CreatePending
  <2>2. row' \in [Chunk -> RowState]
    BY <1>9, <2>1, RowTyped, Zero DEF CreatePending, SetRow, Typed
  <2>3. post' \in [Post -> PostState]
    BY <1>9, <2>1, PostTyped, Zero DEF CreatePending, SetPost, EndPost, PostPc
  <2>. QED  BY <1>9, <2>2, <2>3 DEF CreatePending, Typed, record, setup
<1>10. ASSUME NEW p \in Post, CreateFile(p)
      PROVE  Typed'
  BY <1>10, AtChunk, Zero, PostTyped, RowTyped
  DEF CreateFile, setup, SetPost, SetRow, Typed, PostPc, WorkerPc
<1>11. ASSUME NEW p \in Post, SendAny(p)
      PROVE  Typed'
  BY <1>11, AtChunk, Zero, PostTyped, RowTyped
  DEF SendAny, Sends, record, setup, SetPost, Typed, PostPc, WorkerPc
<1>12. ASSUME NEW p \in Post, SendFailed(p)
      PROVE  Typed'
  <2>1. post[p].c \in Chunk
    BY <1>12, AtChunk DEF SendFailed
  <2>2. sent' \in [Chunk -> SUBSET (Msg \ {0})]
    BY <1>12, <2>1, Unseen DEF SendFailed
  <2>3. row' \in [Chunk -> RowState] /\ post' \in [Post -> PostState]
    BY <1>12, <2>1, RowTyped, PostTyped, Zero DEF SendFailed, SetRow, EndPost, Typed
  <2>. QED  BY <1>12, <2>2, <2>3 DEF SendFailed, Typed, record, setup
<1>13. ASSUME NEW p \in Post, SendFileFailed(p)
      PROVE  Typed'
  <2>1. Whole \in Chunk
    BY AtChunk
  <2>2. sent' \in [Chunk -> SUBSET (Msg \ {0})]
    BY <1>13, <2>1, Unseen DEF SendFileFailed
  <2>3. row' \in [Chunk -> RowState] /\ post' \in [Post -> PostState]
    BY <1>13, <2>1, RowTyped, PostTyped, Zero DEF SendFileFailed, RemoveRecord, SetRow, EndPost, Typed
  <2>. QED  BY <1>13, <2>2, <2>3 DEF SendFileFailed, Typed, setup
<1>14. ASSUME NEW p \in Post, Update(p)
      PROVE  Typed'
  <2>1. post[p].c \in Chunk /\ post[p].msg \in Msg
    BY <1>14, AtChunk DEF Update
  <2>2. row' \in [Chunk -> RowState]
    BY <1>14, <2>1, RowTyped DEF Update, SetRow, Typed
  <2>3. post' \in [Post -> PostState]
    BY <1>14, <2>1, PostTyped DEF Update, SetPost, PostPc
  <2>. QED  BY <1>14, <2>2, <2>3 DEF Update, Typed, record, setup
<1>15. ASSUME NEW p \in Post, UpdateSingle(p)
      PROVE  Typed'
  BY <1>15, AtChunk, Zero, PostTyped, RowTyped
  DEF UpdateSingle, setup, EndPost, SetRow, Typed, PostPc, WorkerPc
<1>16. ASSUME NEW p \in Post, CheckStatus(p)
      PROVE  Typed'
  <2>1. post[p].c \in Chunk /\ post[p].msg \in Msg
    BY <1>16, AtChunk DEF CheckStatus
  <2>2. post' \in [Post -> PostState]
    BY <1>16, <2>1, PostTyped DEF CheckStatus, SetPost, EndPost, PostPc
  <2>. QED  BY <1>16, <2>2 DEF CheckStatus, Typed, record, setup
<1>17. ASSUME NEW p \in Post, Undo(p)
      PROVE  Typed'
  <2>1. post[p].c \in Chunk
    BY <1>17, AtChunk DEF Undo
  <2>2. sent' \in [Chunk -> SUBSET (Msg \ {0})]
    BY <1>17, <2>1 DEF Undo, Typed
  <2>3. post' \in [Post -> PostState]
    BY <1>17, PostTyped DEF Undo, EndPost
  <2>. QED  BY <1>17, <2>2, <2>3 DEF Undo, Typed, record, setup
<1>18. ASSUME NEW w \in Worker, NEW c \in Chunk, Fetch(w, c)
      PROVE  Typed'
  BY <1>18, AtChunk, Zero, WorkerTyped, JobTyped DEF Fetch, record, setup, Typed, PostPc, WorkerPc
<1>19. ASSUME NEW w \in Worker, Check(w)
      PROVE  Typed'
  <2>1. worker' \in [Worker -> WorkerState]
    <3>1. [worker EXCEPT ![w].pc = "read"] \in [Worker -> WorkerState]
      BY WorkerTyped DEF WorkerPc
    <3>2. [worker EXCEPT ![w] = Resting] \in [Worker -> WorkerState]
      BY WorkerTyped
    <3>. QED  BY <1>19, <3>1, <3>2 DEF Check, SetWorker, EndWorker
  <2>2. job' \in [Chunk -> JobState]
    BY <1>19, JobTyped DEF Check, Typed
  <2>. QED  BY <1>19, <2>1, <2>2 DEF Check, Typed, record, setup
<1>20. ASSUME NEW w \in Worker, Read(w)
      PROVE  Typed'
  <2>1. worker' \in [Worker -> WorkerState]
    <3>1. [worker EXCEPT ![w].pc = "send"] \in [Worker -> WorkerState]
      BY WorkerTyped DEF WorkerPc
    <3>2. [worker EXCEPT ![w] = Resting] \in [Worker -> WorkerState]
      BY WorkerTyped
    <3>. QED  BY <1>20, <3>1, <3>2 DEF Read, FailJob, SetWorker, EndWorker
  <2>2. job' \in [Chunk -> JobState]
    BY <1>20, JobTyped DEF Read, FailJob, Typed
  <2>. QED  BY <1>20, <2>1, <2>2 DEF Read, Typed, setup
<1>21. ASSUME NEW w \in Worker, Dispatch(w)
      PROVE  Typed'
  <2>1. worker[w].pc = "send" /\ worker[w].c \in Chunk
    BY <1>21, AtChunk DEF Dispatch
  <2>2. PICK m \in Msg : Sends(worker[w].c, m) /\ worker' = [worker EXCEPT ![w].pc = "tx", ![w].msg = m]
    BY <1>21 DEF Dispatch
  <2>3. sent' \in [Chunk -> SUBSET (Msg \ {0})]
    BY <2>1, <2>2 DEF Sends, Typed
  <2>4. worker' \in [Worker -> WorkerState]
    BY <2>2, WorkerTyped
  <2>. QED  BY <1>21, <2>3, <2>4 DEF Dispatch, UseSlot, Typed
<1>22. ASSUME NEW w \in Worker, Resend(w)
      PROVE  Typed'
  <2>1. worker[w].pc = "send" /\ worker[w].c \in Chunk
    BY <1>22, AtChunk DEF Resend
  <2>2. PICK m \in Msg : Sends(worker[w].c, m)
    BY <1>22 DEF Resend
  <2>3. sent' \in [Chunk -> SUBSET (Msg \ {0})]
    BY <2>1, <2>2 DEF Sends, Typed
  <2>. QED  BY <1>22, <2>3 DEF Resend, record, setup, Typed
<1>23. ASSUME NEW w \in Worker, DispatchFails(w)
      PROVE  Typed'
  BY <1>23, AtChunk, Zero, WorkerTyped, JobTyped
  DEF DispatchFails, UseSlot, FailJob, Failing, Exists, EndWorker, Typed, PostPc, WorkerPc
<1>24. ASSUME NEW w \in Worker, Count(w)
      PROVE  Typed'
  <2>1. worker' \in [Worker -> WorkerState]
    <3>1. CASE row[worker[w].c].st = "none"
      <4>1. EndWorker(w)
        BY <1>24, <3>1 DEF Count, FailJob
      <4>. QED  BY <4>1, WorkerTyped DEF EndWorker
    <3>2. CASE row[worker[w].c].st # "none"
      <4>1. PICK b \in BOOLEAN : worker' = [worker EXCEPT ![w].pc = "commit", ![w].last = b]
        BY <1>24, <3>2 DEF Count
      <4>. QED  BY <4>1, WorkerTyped
    <3>. QED  BY <3>1, <3>2
  <2>2. job' \in [Chunk -> JobState]
    BY <1>24, JobTyped DEF Count, FailJob, Typed
  <2>. QED  BY <1>24, <2>1, <2>2 DEF Count, Typed, setup
<1>25. ASSUME NEW w \in Worker, Commit(w)
      PROVE  Typed'
  <2>1. worker' \in [Worker -> WorkerState]
    BY <1>25, WorkerTyped DEF Commit, SetWorker, WorkerPc
  <2>2. row' \in [Chunk -> RowState]
    BY <1>25, RowTyped, AtChunk DEF Commit, SetRow
  <2>3. charged' \in Nat
    BY <1>25 DEF Commit, Typed
  <2>. QED  BY <1>25, <2>1, <2>2, <2>3 DEF Commit, Typed, setup
<1>26. ASSUME NEW w \in Worker, Remove(w)
      PROVE  Typed'
  BY <1>26, AtChunk, Zero, WorkerTyped, JobTyped
  DEF Remove, record, setup, EndWorker, Typed, PostPc, WorkerPc
<1>27. ASSUME NEW c \in Chunk, Stall(c)
      PROVE  Typed'
  <2>1. job' \in [Chunk -> JobState]
    BY <1>27, JobTyped DEF Stall
  <2>2. stalls' \in Nat
    BY <1>27 DEF Stall, Typed
  <2>. QED  BY <1>27, <2>1, <2>2 DEF Stall, Typed, record, setup
<1>28. ASSUME NEW c \in Chunk, FindStalled(c)
      PROVE  Typed'
  BY <1>28, AtChunk, Zero, JobTyped DEF FindStalled, record, setup, Typed, PostPc, WorkerPc
<1>29. ASSUME Confirm
      PROVE  Typed'
  BY <1>29, AtChunk, Zero DEF Confirm, Exists, record, setup, Typed, PostPc, WorkerPc
<1>30. ASSUME Flip
      PROVE  Typed'
  BY <1>30, AtChunk, Zero DEF Flip, setup, Typed, PostPc, WorkerPc
<1>31. ASSUME Charge
      PROVE  Typed'
  BY <1>31, AtChunk, Zero DEF Charge, setup, Typed, PostPc, WorkerPc
<1>32. ASSUME Abort
      PROVE  Typed'
  BY <1>32, AtChunk, Zero DEF Abort, SetAbort, record, setup, Typed, PostPc, WorkerPc
<1>33. ASSUME MarkAborted
      PROVE  Typed'
  BY <1>33, AtChunk, Zero DEF MarkAborted, SetAbort, setup, Typed, PostPc, WorkerPc
<1>34. ASSUME DeleteFirst
      PROVE  Typed'
  <2>1. sent' \in [Chunk -> SUBSET (Msg \ {0})]
    BY <1>34, Deleted DEF DeleteFirst
  <2>. QED  BY <1>34, <2>1 DEF DeleteFirst, Typed, record, setup
<1>35. ASSUME DeleteAgain
      PROVE  Typed'
  <2>1. sent' \in [Chunk -> SUBSET (Msg \ {0})]
    BY <1>35, Deleted DEF DeleteAgain
  <2>. QED  BY <1>35, <2>1 DEF DeleteAgain, Typed, record, setup
<1>36. ASSUME Erase
      PROVE  Typed'
  <2>1. row' \in [Chunk -> RowState]
    BY <1>36, Zero DEF Erase, NoRow, RowState
  <2>. QED  BY <1>36, <2>1 DEF Erase, Typed, setup
<1>37. ASSUME Restart
      PROVE  Typed'
  <2>1. worker' \in [Worker -> WorkerState] /\ post' \in [Post -> PostState]
    BY <1>37, Zero DEF Restart, Resting, Idle, WorkerState, PostState, WorkerPc, PostPc
  <2>4. job' \in [Chunk -> JobState]
    BY <1>37, JobsRestarted
  <2>5. restarts' \in Nat
    BY <1>37 DEF Restart, Typed
  <2>. QED  BY <1>37, <2>1, <2>4, <2>5 DEF Restart, Typed, record, setup
<1>38. ASSUME UNCHANGED NoUpload
      PROVE  Typed'
  BY <1>38 DEF NoUpload, Typed
<1>39. ASSUME NEW p \in Post, SkipJob(p)
      PROVE  Typed'
  BY <1>39, PostTyped DEF SkipJob, record, setup, EndPost, Typed
<1>40. ASSUME NEW p \in Post, ResendFile(p)
      PROVE  Typed'
  <2>1. Whole \in Chunk
    BY AtChunk
  <2>2. PICK m \in Msg : Sends(Whole, m)
    BY <1>40 DEF ResendFile
  <2>3. sent' \in [Chunk -> SUBSET (Msg \ {0})]
    BY <2>1, <2>2 DEF Sends, Typed
  <2>. QED  BY <1>40, <2>3 DEF ResendFile, record, setup, Typed
<1>41. ASSUME NEW p \in Post, UpdateFails(p)
      PROVE  Typed'
  <2>1. row' \in [Chunk -> RowState] /\ post' \in [Post -> PostState]
    BY <1>41, AtChunk, RowTyped, PostTyped, Zero DEF UpdateFails, RemoveRecord, SetRow, EndPost, Typed
  <2>. QED  BY <1>41, <2>1 DEF UpdateFails, Typed, setup
<1>42. ASSUME NEW p \in Post, CheckFails(p)
      PROVE  Typed'
  BY <1>42, PostTyped DEF CheckFails, record, setup, EndPost, Typed
<1>43. ASSUME AbortFails
      PROVE  Typed'
  BY <1>43 DEF AbortFails, record, setup, Typed
<1>. QED
  BY <1>39, <1>40, <1>41, <1>42, <1>43, <1>1, <1>2, <1>3, <1>4, <1>5, <1>6, <1>7, <1>8, <1>9,
      <1>10, <1>11, <1>12, <1>13, <1>14, <1>15,
      <1>16, <1>17, <1>18, <1>19, <1>20, <1>21, <1>22, <1>23, <1>24, <1>25, <1>26, <1>27, <1>28,
      <1>29, <1>30, <1>31, <1>32, <1>33, <1>34, <1>35, <1>36, <1>37, <1>38
  DEF Next, PostStep, WorkerStep, AbortStep, Write, WriteFile, Enqueue, EnqueueFile, Send, SendFile,
      SlotMove, Rivals, Clock, vars, record, setup, NoUpload

\* Two requests never have the same chunk.
LEMMA PostsApartStep ==
  ASSUME Typed, Separate, [Next]_vars
  PROVE  PostsApart'
<1>1. ASSUME NEW p \in Post, NEW c \in Chunk, Start(p, c)
      PROVE  PostsApart'
  BY <1>1, AtChunk, NoneAssumption
  DEF Start, history, record, setup, SetPost, SetRow, Idle, Active, Typed, Separate, PostsApart
<1>2. ASSUME NEW p \in Post, StartFile(p)
      PROVE  PostsApart'
  BY <1>2, AtChunk, NoneAssumption
  DEF StartFile, history, record, setup, SetPost, Active, Typed, Separate, PostsApart
<1>3. ASSUME NEW p \in Post, WriteDisk(p)
      PROVE  PostsApart'
  BY <1>3, AtChunk, NoneAssumption DEF WriteDisk, history, record, setup, SetPost, Typed, Separate, PostsApart
<1>4. ASSUME NEW p \in Post, FallBack(p)
      PROVE  PostsApart'
  BY <1>4, AtChunk, NoneAssumption
  DEF FallBack, Falls, record, setup, SetPost, Typed, Separate, PostsApart
<1>5. ASSUME NEW p \in Post, CreateRow(p)
      PROVE  PostsApart'
  BY <1>5, AtChunk, NoneAssumption
  DEF CreateRow, Exists, history, record, setup, SetPost, SetRow, Typed, Separate, PostsApart
<1>6. ASSUME NEW p \in Post, CreateFileRow(p)
      PROVE  PostsApart'
  BY <1>6, AtChunk, NoneAssumption
  DEF CreateFileRow, history, setup, SetPost, SetRow, Typed, Separate, PostsApart
<1>7. ASSUME NEW p \in Post, RefuseRow(p)
      PROVE  PostsApart'
  BY <1>7, AtChunk, NoneAssumption
  DEF RefuseRow, Falls, record, setup, SetPost, Typed, Separate, PostsApart
<1>8. ASSUME NEW p \in Post, AddJob(p)
      PROVE  PostsApart'
  BY <1>8, AtChunk, NoneAssumption
  DEF AddJob, NoJob, history, record, setup, EndPost, Idle, Typed, Separate, PostsApart
<1>9. ASSUME NEW p \in Post, CreatePending(p)
      PROVE  PostsApart'
  BY <1>9, AtChunk, NoneAssumption
  DEF CreatePending, Exists, history, record, setup, SetPost, EndPost, SetRow, Idle, Typed, Separate,
      PostsApart
<1>10. ASSUME NEW p \in Post, CreateFile(p)
      PROVE  PostsApart'
  BY <1>10, AtChunk, NoneAssumption DEF CreateFile, history, setup, SetPost, SetRow, Typed,
      Separate, PostsApart
<1>11. ASSUME NEW p \in Post, SendAny(p)
      PROVE  PostsApart'
  BY <1>11, AtChunk, NoneAssumption
  DEF SendAny, Sends, history, record, setup, SetPost, Typed, Separate, PostsApart
<1>12. ASSUME NEW p \in Post, SendFailed(p)
      PROVE  PostsApart'
  <2>1. /\ \A q \in Post \ {p} : post'[q] = post[q]
        /\ post'[p] = Idle
    BY <1>12 DEF SendFailed, EndPost, Typed
  <2>2. UNCHANGED <<mode, fallen>>
    BY <1>12, AtChunk, Unseen DEF SendFailed, Strays, history, record, setup
  <2>. QED  BY <2>1, <2>2, NoneAssumption DEF Separate, PostsApart, Idle
<1>13. ASSUME NEW p \in Post, SendFileFailed(p)
      PROVE  PostsApart'
  <2>1. /\ \A q \in Post \ {p} : post'[q] = post[q]
        /\ post'[p] = Idle
    BY <1>13 DEF SendFileFailed, EndPost, Typed
  <2>2. UNCHANGED <<mode, fallen>>
    BY <1>13, AtChunk, Unseen DEF SendFileFailed, Strays, history, record, setup
  <2>. QED  BY <2>1, <2>2, NoneAssumption DEF Separate, PostsApart, Idle
<1>14. ASSUME NEW p \in Post, Update(p)
      PROVE  PostsApart'
  <2>1. /\ \A q \in Post \ {p} : post'[q] = post[q]
        /\ post'[p].pc \in {"status", "undo"} /\ post'[p].c = post[p].c
    BY <1>14 DEF Update, SetPost, Typed
  <2>. QED  BY <1>14, <2>1 DEF Update, history, record, setup, Separate, PostsApart
<1>15. ASSUME NEW p \in Post, UpdateSingle(p)
      PROVE  PostsApart'
  BY <1>15, AtChunk, NoneAssumption
  DEF UpdateSingle, history, setup, EndPost, SetRow, Idle, Typed, Separate, PostsApart
<1>16. ASSUME NEW p \in Post, CheckStatus(p)
      PROVE  PostsApart'
  BY SMTT(40), <1>16, AtChunk, NoneAssumption
  DEF CheckStatus, history, record, setup, SetPost, EndPost, Idle, Typed, Separate, PostsApart
<1>17. ASSUME NEW p \in Post, Undo(p)
      PROVE  PostsApart'
  <2>1. /\ \A q \in Post \ {p} : post'[q] = post[q]
        /\ post'[p] = Idle
    BY <1>17 DEF Undo, EndPost, Typed
  <2>2. UNCHANGED <<mode, fallen>>
    BY <1>17, AtChunk, Unseen DEF Undo, Strays, history, record, setup
  <2>. QED  BY <2>1, <2>2, NoneAssumption DEF Separate, PostsApart, Idle
<1>18. ASSUME Restart
      PROVE  PostsApart'
  BY <1>18, AtChunk, NoneAssumption
  DEF Restart, Requeued, NoJob, Resting, Idle, SetAbort, history, record, setup, Typed, Separate, PostsApart
<1>19. ASSUME UNCHANGED <<mode, post, fallen>>
      PROVE  PostsApart'
  BY <1>19 DEF Active, Typed, Separate, PostsApart
<1>20. ASSUME NEW p \in Post, SkipJob(p)
      PROVE  PostsApart'
  <2>1. /\ \A q \in Post \ {p} : post'[q] = post[q]
        /\ post'[p] = Idle
    BY <1>20 DEF SkipJob, EndPost, Typed
  <2>2. UNCHANGED <<mode, fallen>>
    BY <1>20, AtChunk, Unseen DEF SkipJob, Strays, history, record, setup
  <2>. QED  BY <2>1, <2>2, NoneAssumption DEF Separate, PostsApart, Idle
<1>21. ASSUME NEW p \in Post, UpdateFails(p)
      PROVE  PostsApart'
  <2>1. /\ \A q \in Post \ {p} : post'[q] = post[q]
        /\ post'[p] = Idle
    BY <1>21 DEF UpdateFails, EndPost, Typed
  <2>2. UNCHANGED <<mode, fallen>>
    BY <1>21, AtChunk, Unseen DEF UpdateFails, Strays, history, record, setup
  <2>. QED  BY <2>1, <2>2, NoneAssumption DEF Separate, PostsApart, Idle
<1>22. ASSUME NEW p \in Post, CheckFails(p)
      PROVE  PostsApart'
  <2>1. /\ \A q \in Post \ {p} : post'[q] = post[q]
        /\ post'[p] = Idle
    BY <1>22 DEF CheckFails, EndPost, Typed
  <2>2. UNCHANGED <<mode, fallen>>
    BY <1>22, AtChunk, Unseen DEF CheckFails, Strays, history, record, setup
  <2>. QED  BY <2>1, <2>2, NoneAssumption DEF Separate, PostsApart, Idle
<1>23. ASSUME NEW w \in Worker, Resend(w)
      PROVE  PostsApart'
  <2>1. UNCHANGED <<mode, post, fallen>>
    BY <1>23 DEF Resend, Strays, record, setup
  <2>. QED  BY <2>1 DEF Separate, PostsApart
<1>24. ASSUME NEW p \in Post, ResendFile(p)
      PROVE  PostsApart'
  <2>1. UNCHANGED <<mode, post, fallen>>
    BY <1>24 DEF ResendFile, Strays, record, setup
  <2>. QED  BY <2>1 DEF Separate, PostsApart
<1>25. ASSUME DeleteFirst \/ DeleteAgain
      PROVE  PostsApart'
  <2>1. UNCHANGED <<mode, post, fallen>>
    BY <1>25, Deleted DEF DeleteFirst, DeleteAgain, record, setup
  <2>. QED  BY <2>1 DEF Separate, PostsApart
<1>. QED
  BY <1>23, <1>24, <1>25, <1>20, <1>21, <1>22, <1>1, <1>2, <1>3, <1>4, <1>5, <1>6, <1>7, <1>8,
      <1>9, <1>10, <1>11, <1>12, <1>13, <1>14, <1>15,
      <1>16, <1>17, <1>18, <1>19
  DEF Next, PostStep, WorkerStep, AbortStep, Write, WriteFile, Enqueue, EnqueueFile, Send, SendFile,
      Fetch, Check, Read, Dispatch, DispatchFails, Count, Commit, Remove, Stall,
      FindStalled, Confirm, Flip, Charge, Abort, MarkAborted, AbortFails, Erase,
      history, UseSlot, SlotMove, Rivals, Clock, NoUpload, vars, history, record, setup

\* Rows and jobs are of the kind of the upload.
LEMMA RowsApartStep ==
  ASSUME Typed, Separate, [Next]_vars
  PROVE  RowsApart'
<1>1. ASSUME NEW p \in Post, NEW c \in Chunk, Start(p, c)
      PROVE  RowsApart'
  BY <1>1, AtChunk
  DEF Start, history, record, setup, SetPost, SetRow, Idle, Typed, Separate, PostsApart, RowsApart,
      WorkersApart
<1>2. ASSUME NEW p \in Post, CreateRow(p)
      PROVE  RowsApart'
  BY <1>2, AtChunk
  DEF CreateRow, Exists, history, record, setup, SetPost, SetRow, Typed, Separate, PostsApart, RowsApart,
      WorkersApart
<1>3. ASSUME NEW p \in Post, CreateFileRow(p)
      PROVE  RowsApart'
  BY <1>3, AtChunk
  DEF CreateFileRow, history, setup, SetPost, SetRow, Typed, Separate, PostsApart, RowsApart, WorkersApart
<1>4. ASSUME NEW p \in Post, AddJob(p)
      PROVE  RowsApart'
  <2> DEFINE W == [NoJob EXCEPT !.st = "wait"]
  <2>1. post[p].c \in Chunk /\ mode.buffer /\ (mode.single => post[p].c = Whole)
    BY <1>4, AtChunk DEF AddJob, Separate, PostsApart
  <2>2. W.st = "wait" /\ W.tries < Attempts
    BY Waits, BoundsAssumption
  <2>3. job' = [job EXCEPT ![post[p].c] = W] /\ UNCHANGED <<mode, row, fallen>>
    BY <1>4 DEF AddJob, history, record, setup
  <2> HIDE DEF W
  <2>. QED  BY <2>1, <2>2, <2>3 DEF Typed, Separate, RowsApart
<1>5. ASSUME NEW p \in Post, CreatePending(p)
      PROVE  RowsApart'
  <2>1. post[p].c \in Chunk /\ ~mode.single /\ (~mode.buffer \/ post[p].c \in fallen)
    BY <1>5, AtChunk DEF CreatePending, Separate, PostsApart
  <2>2. /\ \A c \in Chunk \ {post[p].c} : row'[c] = row[c]
        /\ row'[post[p].c] = row[post[p].c] \/ row'[post[p].c] = [st |-> "pending", msg |-> 0]
    BY <1>5, <2>1 DEF CreatePending, SetRow, Typed
  <2>. QED  BY <1>5, <2>1, <2>2 DEF CreatePending, history, record, setup, Separate, RowsApart
<1>6. ASSUME NEW p \in Post, CreateFile(p)
      PROVE  RowsApart'
  BY <1>6, AtChunk
  DEF CreateFile, history, setup, SetPost, SetRow, Typed, Separate, PostsApart, RowsApart, WorkersApart
<1>7. ASSUME NEW p \in Post, SendFailed(p)
      PROVE  RowsApart'
  <2>1. post[p].c \in Chunk
    BY <1>7, AtChunk DEF SendFailed
  <2>2. UNCHANGED <<mode, job, fallen>>
    BY <1>7, <2>1, AtChunk, Unseen DEF SendFailed, Strays, history, record, setup
  <2>3. \A c \in Chunk : row'[c] = row[c] \/ row'[c] = NoRow
    BY <1>7, <2>1 DEF SendFailed, RemoveRecord, SetRow, NoRow, Typed
  <2>. QED  BY <2>2, <2>3 DEF NoRow, Separate, RowsApart
<1>8. ASSUME NEW p \in Post, SendFileFailed(p)
      PROVE  RowsApart'
  <2>1. post[p].c \in Chunk
    BY <1>8, AtChunk DEF SendFileFailed
  <2>2. UNCHANGED <<mode, job, fallen>>
    BY <1>8, <2>1, AtChunk, Unseen DEF SendFileFailed, Strays, history, record, setup
  <2>3. \A c \in Chunk : row'[c] = row[c] \/ row'[c] = NoRow
    BY <1>8, <2>1 DEF SendFileFailed, RemoveRecord, SetRow, NoRow, Typed
  <2>. QED  BY <2>2, <2>3 DEF NoRow, Separate, RowsApart
<1>9. ASSUME NEW p \in Post, Update(p)
      PROVE  RowsApart'
  BY <1>9, AtChunk
  DEF Update, history, record, setup, SetPost, SetRow, Typed, Separate, PostsApart, RowsApart, WorkersApart
<1>10. ASSUME NEW p \in Post, UpdateSingle(p)
      PROVE  RowsApart'
  BY <1>10, AtChunk
  DEF UpdateSingle, history, setup, EndPost, SetRow, Idle, Typed, Separate, PostsApart, RowsApart,
      WorkersApart
<1>11. ASSUME NEW w \in Worker, NEW c \in Chunk, Fetch(w, c)
      PROVE  RowsApart'
  BY <1>11, AtChunk
  DEF Fetch, history, record, setup, Resting, Typed, Separate, PostsApart, RowsApart, WorkersApart
<1>12. ASSUME NEW w \in Worker, Check(w)
      PROVE  RowsApart'
  <2>1. \A c \in Chunk : /\ job'[c].st # "none" => job[c].st # "none"
                         /\ job'[c].st \in {"wait", "active"} => job'[c].tries < Attempts
    BY <1>12, AtChunk, JobMoves, JobBounds DEF Check, FailJob, Separate, RowsApart
  <2>. QED  BY <1>12, <2>1 DEF Check, UseSlot, Separate, RowsApart, history, record, setup
<1>13. ASSUME NEW w \in Worker, Read(w)
      PROVE  RowsApart'
  <2>1. \A c \in Chunk : /\ job'[c].st # "none" => job[c].st # "none"
                         /\ job'[c].st \in {"wait", "active"} => job'[c].tries < Attempts
    BY <1>13, AtChunk, JobMoves, JobBounds DEF Read, FailJob, Separate, RowsApart
  <2>. QED  BY <1>13, <2>1 DEF Read, UseSlot, Separate, RowsApart, history, record, setup
<1>14. ASSUME NEW w \in Worker, DispatchFails(w)
      PROVE  RowsApart'
  <2>1. \A c \in Chunk : /\ job'[c].st # "none" => job[c].st # "none"
                         /\ job'[c].st \in {"wait", "active"} => job'[c].tries < Attempts
    BY <1>14, AtChunk, JobMoves, JobBounds DEF DispatchFails, FailJob, Separate, RowsApart
  <2>. QED  BY <1>14, <2>1 DEF DispatchFails, UseSlot, Separate, RowsApart, history, record, setup
<1>15. ASSUME NEW w \in Worker, Count(w)
      PROVE  RowsApart'
  <2>1. \A c \in Chunk : /\ job'[c].st # "none" => job[c].st # "none"
                         /\ job'[c].st \in {"wait", "active"} => job'[c].tries < Attempts
    BY <1>15, AtChunk, JobMoves, JobBounds DEF Count, FailJob, Separate, RowsApart
  <2>. QED  BY <1>15, <2>1 DEF Count, UseSlot, Separate, RowsApart, history, record, setup
<1>16. ASSUME NEW w \in Worker, Commit(w)
      PROVE  RowsApart'
  BY <1>16, AtChunk
  DEF Commit, SetRow, history, setup, SetWorker, Typed, Separate, PostsApart, RowsApart, WorkersApart
<1>17. ASSUME NEW w \in Worker, Remove(w)
      PROVE  RowsApart'
  <2>1. \A c \in Chunk : /\ job'[c].st # "none" => job[c].st # "none"
                         /\ job'[c].st \in {"wait", "active"} => job'[c].tries < Attempts
    BY <1>17, AtChunk, JobMoves, JobBounds DEF Remove, FailJob, Separate, RowsApart
  <2>. QED  BY <1>17, <2>1 DEF Remove, UseSlot, Separate, RowsApart, history, record, setup
<1>18. ASSUME NEW c \in Chunk, Stall(c)
      PROVE  RowsApart'
  <2>1. \A d \in Chunk : /\ job'[d].st # "none" => job[d].st # "none"
                         /\ job'[d].st \in {"wait", "active"} => job'[d].tries < Attempts
    BY <1>18, JobTakenBack, Fields DEF Stall, Separate, RowsApart
  <2>. QED  BY <1>18, <2>1 DEF Stall, Separate, RowsApart, history, record, setup
<1>19. ASSUME NEW c \in Chunk, FindStalled(c)
      PROVE  RowsApart'
  <2>1. \A d \in Chunk : /\ job'[d].st # "none" => job[d].st # "none"
                         /\ job'[d].st \in {"wait", "active"} => job'[d].tries < Attempts
    BY <1>19, JobTakenBack, Fields DEF FindStalled, Separate, RowsApart
  <2>. QED  BY <1>19, <2>1 DEF FindStalled, Separate, RowsApart, history, record, setup
<1>20. ASSUME Erase
      PROVE  RowsApart'
  BY <1>20, AtChunk
  DEF Erase, SetAbort, NoRow, history, setup, Typed, Separate, PostsApart, RowsApart, WorkersApart
<1>21. ASSUME Restart
      PROVE  RowsApart'
  <2>1. \A c \in Chunk : /\ job'[c].st # "none" => job[c].st # "none" \/ row[c].st = "buffered"
                         /\ job'[c].st \in {"wait", "active"} => job'[c].tries < Attempts
    <3> TAKE c \in Chunk
    <3>1. [job[c] EXCEPT !.by = None].st = job[c].st /\ [job[c] EXCEPT !.by = None].tries = job[c].tries
      BY Fields DEF Typed, JobState
    <3>2. CASE job'[c] = [job[c] EXCEPT !.by = None]
      BY <3>1, <3>2 DEF Separate, RowsApart
    <3>3. CASE job'[c] = NoJob
      BY <3>3, Waits
    <3>4. CASE job'[c] = [NoJob EXCEPT !.st = "wait"] /\ row[c].st = "buffered"
      BY <3>4, Waits, BoundsAssumption
    <3>. QED  BY <1>21, <3>2, <3>3, <3>4, JobsRestarted
  <2>2. UNCHANGED <<mode, row, fallen>>
    BY <1>21 DEF Restart, record, setup
  <2>. QED  BY <2>1, <2>2 DEF Separate, RowsApart
<1>22. ASSUME UNCHANGED <<mode, row, job, fallen>>
      PROVE  RowsApart'
  BY <1>22 DEF Typed, Separate, PostsApart, RowsApart, WorkersApart
<1>23. ASSUME NEW p \in Post, UpdateFails(p)
      PROVE  RowsApart'
  <2>1. post[p].c \in Chunk
    BY <1>23, AtChunk DEF UpdateFails
  <2>2. UNCHANGED <<mode, job, fallen>>
    BY <1>23, <2>1, AtChunk, Unseen DEF UpdateFails, Strays, history, record, setup
  <2>3. \A c \in Chunk : row'[c] = row[c] \/ row'[c] = NoRow
    BY <1>23, <2>1 DEF UpdateFails, RemoveRecord, SetRow, NoRow, Typed
  <2>. QED  BY <2>2, <2>3 DEF NoRow, Separate, RowsApart
<1>24. ASSUME NEW p \in Post, FallBack(p)
      PROVE  RowsApart'
  <2>1. UNCHANGED <<mode, row, job>> /\ fallen \subseteq fallen'
    BY <1>24 DEF FallBack, Falls, record, setup
  <2>. QED  BY <2>1 DEF Separate, RowsApart
<1>25. ASSUME NEW p \in Post, RefuseRow(p)
      PROVE  RowsApart'
  <2>1. UNCHANGED <<mode, row, job>> /\ fallen \subseteq fallen'
    BY <1>25 DEF RefuseRow, Falls, record, setup
  <2>. QED  BY <2>1 DEF Separate, RowsApart
<1>26. ASSUME NEW p \in Post, SkipJob(p)
      PROVE  RowsApart'
  <2>1. UNCHANGED <<mode, row, job, fallen>>
    BY <1>26 DEF SkipJob, Strays, history, record, setup
  <2>. QED  BY <2>1 DEF Separate, RowsApart
<1>27. ASSUME NEW p \in Post, CheckFails(p)
      PROVE  RowsApart'
  <2>1. UNCHANGED <<mode, row, job, fallen>>
    BY <1>27 DEF CheckFails, Strays, history, record, setup
  <2>. QED  BY <2>1 DEF Separate, RowsApart
<1>28. ASSUME NEW p \in Post, Undo(p)
      PROVE  RowsApart'
  <2>1. UNCHANGED <<mode, row, job, fallen>>
    BY <1>28 DEF Undo, Strays, history, record, setup
  <2>. QED  BY <2>1 DEF Separate, RowsApart
<1>29. ASSUME NEW p \in Post, ResendFile(p)
      PROVE  RowsApart'
  <2>1. UNCHANGED <<mode, row, job, fallen>>
    BY <1>29 DEF ResendFile, Strays, history, record, setup
  <2>. QED  BY <2>1 DEF Separate, RowsApart
<1>30. ASSUME NEW w \in Worker, Resend(w)
      PROVE  RowsApart'
  <2>1. UNCHANGED <<mode, row, job, fallen>>
    BY <1>30 DEF Resend, Strays, history, record, setup
  <2>. QED  BY <2>1 DEF Separate, RowsApart
<1>31. ASSUME DeleteFirst \/ DeleteAgain
      PROVE  RowsApart'
  <2>1. UNCHANGED <<mode, row, job, fallen>>
    BY <1>31, Deleted DEF DeleteFirst, DeleteAgain, history, record, setup
  <2>. QED  BY <2>1 DEF Separate, RowsApart
<1>. QED
  BY <1>24, <1>25, <1>26, <1>27, <1>28, <1>29, <1>30, <1>31, <1>23, <1>1, <1>2, <1>3, <1>4, <1>5,
      <1>6, <1>7, <1>8, <1>9, <1>10, <1>11, <1>12, <1>13, <1>14, <1>15,
      <1>16, <1>17, <1>18, <1>19, <1>20, <1>21, <1>22
  DEF Next, PostStep, WorkerStep, AbortStep, Write, WriteFile, Enqueue, EnqueueFile, Send, SendFile,
      StartFile, WriteDisk, SendAny, CheckStatus, Dispatch,
      Confirm, Flip, Charge, Abort, MarkAborted, AbortFails,
      history, UseSlot, SlotMove, Rivals, Clock, NoUpload, vars, history, record, setup

\* A job names the worker that is at its chunk.
LEMMA WorkersApartStep ==
  ASSUME Typed, Separate, [Next]_vars
  PROVE  WorkersApart'
<1>1. ASSUME NEW p \in Post, AddJob(p)
      PROVE  WorkersApart'
  BY <1>1, AtChunk
  DEF AddJob, NoJob, record, setup, EndPost, Idle, Typed, Separate, RowsApart, WorkersApart
<1>2. ASSUME NEW c \in Chunk, Stall(c)
      PROVE  WorkersApart'
  <2>1. \A d \in Chunk, v \in Worker : job'[d].st = "active" /\ job'[d].by = v =>
          job[d].st = "active" /\ job[d].by = v
    BY <1>2, JobTakenBack DEF Stall
  <2>. QED  BY <1>2, <2>1 DEF Stall, Separate, WorkersApart, setup, record
<1>3. ASSUME NEW c \in Chunk, FindStalled(c)
      PROVE  WorkersApart'
  <2>1. \A d \in Chunk, v \in Worker : job'[d].st = "active" /\ job'[d].by = v =>
          job[d].st = "active" /\ job[d].by = v
    BY <1>3, JobTakenBack DEF FindStalled
  <2>. QED  BY <1>3, <2>1 DEF FindStalled, Separate, WorkersApart, setup, record
<1>4. ASSUME NEW w \in Worker, NEW c \in Chunk, Fetch(w, c)
      PROVE  WorkersApart'
  BY <1>4, AtChunk DEF Fetch, record, setup, Resting, Typed, Separate, RowsApart, WorkersApart
<1>5. ASSUME NEW w \in Worker, Check(w)
      PROVE  WorkersApart'
  <2>1. /\ \A v \in Worker \ {w} : worker'[v] = worker[v]
        /\ worker'[w].pc = "idle" \/ (worker'[w].c = worker[w].c /\ worker[w].pc # "idle" /\ worker'[w].pc # "idle")
    BY <1>5, WorkerMoves DEF Check, WorkerPc
  <2>2. \A c \in Chunk, v \in Worker : job'[c].st = "active" /\ job'[c].by = v =>
          job[c].st = "active" /\ job[c].by = v /\ (worker'[w].pc = "idle" => v # w)
    <3>1. FinishJob(w) \/ RetryJob(w) \/ (UNCHANGED job /\ worker'[w].pc # "idle")
      BY <1>5, WorkerMoves DEF Check, WorkerPc
    <3>. QED  BY <3>1, JobMoves, NoneAssumption
  <2>. QED  BY <1>5, <2>1, <2>2 DEF Check, Separate, WorkersApart, setup, record
<1>6. ASSUME NEW w \in Worker, Read(w)
      PROVE  WorkersApart'
  <2>1. /\ \A v \in Worker \ {w} : worker'[v] = worker[v]
        /\ worker'[w].pc = "idle" \/ (worker'[w].c = worker[w].c /\ worker[w].pc # "idle" /\ worker'[w].pc # "idle")
    BY <1>6, WorkerMoves DEF Read, FailJob, WorkerPc
  <2>2. \A c \in Chunk, v \in Worker : job'[c].st = "active" /\ job'[c].by = v =>
          job[c].st = "active" /\ job[c].by = v /\ (worker'[w].pc = "idle" => v # w)
    <3>1. FinishJob(w) \/ RetryJob(w) \/ (UNCHANGED job /\ worker'[w].pc # "idle")
      BY <1>6, WorkerMoves DEF Read, FailJob, WorkerPc
    <3>. QED  BY <3>1, JobMoves, NoneAssumption
  <2>. QED  BY <1>6, <2>1, <2>2 DEF Read, Separate, WorkersApart, setup
<1>7. ASSUME NEW w \in Worker, Dispatch(w)
      PROVE  WorkersApart'
  BY <1>7, AtChunk DEF Dispatch, UseSlot, Sends, Typed, Separate, RowsApart, WorkersApart
<1>8. ASSUME NEW w \in Worker, DispatchFails(w)
      PROVE  WorkersApart'
  <2>1. /\ \A v \in Worker \ {w} : worker'[v] = worker[v]
        /\ worker'[w].pc = "idle" \/ (worker'[w].c = worker[w].c /\ worker[w].pc # "idle" /\ worker'[w].pc # "idle")
    BY <1>8, WorkerMoves DEF DispatchFails, FailJob, WorkerPc
  <2>2. \A c \in Chunk, v \in Worker : job'[c].st = "active" /\ job'[c].by = v =>
          job[c].st = "active" /\ job[c].by = v /\ (worker'[w].pc = "idle" => v # w)
    <3>1. FinishJob(w) \/ RetryJob(w) \/ (UNCHANGED job /\ worker'[w].pc # "idle")
      BY <1>8, WorkerMoves DEF DispatchFails, FailJob, WorkerPc
    <3>. QED  BY <3>1, JobMoves, NoneAssumption
  <2>. QED  BY <1>8, <2>1, <2>2 DEF DispatchFails, Separate, WorkersApart, UseSlot
<1>9. ASSUME NEW w \in Worker, Count(w)
      PROVE  WorkersApart'
  <2>1. /\ \A v \in Worker \ {w} : worker'[v] = worker[v]
        /\ worker'[w].pc = "idle" \/ (worker'[w].c = worker[w].c /\ worker[w].pc # "idle" /\ worker'[w].pc # "idle")
    BY <1>9, WorkerMoves DEF Count, FailJob, WorkerPc
  <2>2. \A c \in Chunk, v \in Worker : job'[c].st = "active" /\ job'[c].by = v =>
          job[c].st = "active" /\ job[c].by = v /\ (worker'[w].pc = "idle" => v # w)
    <3>1. FinishJob(w) \/ RetryJob(w) \/ (UNCHANGED job /\ worker'[w].pc # "idle")
      BY <1>9, WorkerMoves DEF Count, FailJob, WorkerPc
    <3>. QED  BY <3>1, JobMoves, NoneAssumption
  <2>. QED  BY <1>9, <2>1, <2>2 DEF Count, Separate, WorkersApart, setup
<1>10. ASSUME NEW w \in Worker, Commit(w)
      PROVE  WorkersApart'
  BY <1>10, AtChunk DEF Commit, SetRow, setup, SetWorker, Typed, Separate, RowsApart, WorkersApart
<1>11. ASSUME NEW w \in Worker, Remove(w)
      PROVE  WorkersApart'
  <2>1. /\ \A v \in Worker \ {w} : worker'[v] = worker[v]
        /\ worker'[w].pc = "idle" \/ (worker'[w].c = worker[w].c /\ worker[w].pc # "idle" /\ worker'[w].pc # "idle")
    BY <1>11, WorkerMoves DEF Remove, WorkerPc
  <2>2. \A c \in Chunk, v \in Worker : job'[c].st = "active" /\ job'[c].by = v =>
          job[c].st = "active" /\ job[c].by = v /\ (worker'[w].pc = "idle" => v # w)
    <3>1. FinishJob(w) \/ RetryJob(w) \/ (UNCHANGED job /\ worker'[w].pc # "idle")
      BY <1>11, WorkerMoves DEF Remove, WorkerPc
    <3>. QED  BY <3>1, JobMoves, NoneAssumption
  <2>. QED  BY <1>11, <2>1, <2>2 DEF Remove, Separate, WorkersApart, setup, record
<1>12. ASSUME Restart
      PROVE  WorkersApart'
  <2>1. \A c \in Chunk : job'[c].st = "active" => job'[c].by = None
    BY <1>12 DEF Restart, Requeued, NoJob, Typed, JobState
  <2>2. \A w \in Worker : worker'[w].pc = "idle"
    BY <1>12 DEF Restart, Resting
  <2>. QED  BY <2>1, <2>2, NoneAssumption DEF WorkersApart
<1>13. ASSUME UNCHANGED <<mode, job, worker>>
      PROVE  WorkersApart'
  BY <1>13 DEF Typed, Separate, RowsApart, WorkersApart
<1>14. ASSUME DeleteFirst \/ DeleteAgain
      PROVE  WorkersApart'
  <2>1. UNCHANGED <<mode, job, worker>>
    BY <1>14 DEF DeleteFirst, DeleteAgain, record, setup
  <2>. QED  BY <2>1 DEF Separate, WorkersApart
<1>. QED
  BY <1>14, <1>1, <1>2, <1>3, <1>4, <1>5, <1>6, <1>7, <1>8, <1>9, <1>10, <1>11, <1>12, <1>13
  DEF Next, PostStep, WorkerStep, AbortStep, Write, WriteFile, Enqueue, EnqueueFile, Send, SendFile,
      Start, StartFile, WriteDisk, FallBack, SkipJob, ResendFile, UpdateFails, CheckFails,
      CreateRow, CreateFileRow, RefuseRow, CreatePending,
      CreateFile, SendAny, SendFailed, SendFileFailed, Update, UpdateSingle, CheckStatus, Undo,
      Resend, Confirm, Flip, Charge, Abort, MarkAborted, AbortFails, Erase,
      UseSlot, SlotMove, Rivals, Clock, NoUpload, vars, record, setup

-----------------------------------------------------------------------------
(* While nobody aborts.                                                    *)

\* Who has begun to abort goes on.
LEMMA NoAbortYet ==
  ASSUME [Next]_vars, Untouched'
  PROVE  Untouched /\ ~Abort /\ ~AbortStep
<1>1. ASSUME Abort \/ AbortStep
      PROVE  FALSE
  BY <1>1
  DEF Abort, AbortStep, MarkAborted, DeleteFirst, DeleteAgain, Erase, AbortFails, SetAbort, Untouched, NoAbort
<1>2. ASSUME Restart
      PROVE  Untouched
  BY <1>2 DEF Restart, SetAbort, Untouched, NoAbort
<1>3. ASSUME NEW p \in Post, PostStep(p) \/ StartFile(p) \/ \E c \in Chunk : Start(p, c)
      PROVE  UNCHANGED aborter
  BY <1>3 DEF PostStep, Write, WriteFile, Enqueue, EnqueueFile, Send, SendFile, StartFile, Start,
      WriteDisk, FallBack, SkipJob, ResendFile, UpdateFails, CheckFails, CreateRow, CreateFileRow,
      RefuseRow, AddJob, CreatePending, CreateFile,
      SendAny, SendFailed, SendFileFailed, Update, UpdateSingle, CheckStatus, Undo
<1>4. ASSUME NEW w \in Worker, WorkerStep(w) \/ \E c \in Chunk : Fetch(w, c)
      PROVE  UNCHANGED aborter
  BY <1>4 DEF WorkerStep, Fetch, Check, Read, Dispatch, Resend, DispatchFails, Count, Commit, Remove
<1>5. ASSUME (\E c \in Chunk : Stall(c) \/ FindStalled(c)) \/ Confirm \/ Flip \/ Charge
              \/ (\E c \in Caller : SlotMove(c)) \/ Rivals \/ Clock \/ UNCHANGED vars
      PROVE  UNCHANGED aborter
  BY <1>5 DEF Stall, FindStalled, Confirm, Flip, Charge, SlotMove, Rivals, Clock, NoUpload, vars
<1>. QED  BY <1>1, <1>2, <1>3, <1>4, <1>5 DEF Next, Untouched

\* A row that has no message yet may go when its request fails.
LEMMA Dropped ==
  ASSUME Typed, Separate, Fits, NEW p \in Post, SendFailed(p) \/ SendFileFailed(p) \/ UpdateFails(p)
  PROVE  /\ post[p].c \in Chunk /\ row[post[p].c].st = "pending"
         /\ UNCHANGED <<mode, job, disk, worker, completer, fallen>>
         /\ (\A q \in Post \ {p} : post'[q] = post[q]) /\ post'[p] = Idle
         /\ \A d \in Chunk : sent[d] \subseteq sent'[d] /\ (d # post[p].c => row'[d] = row[d])
         /\ row'[post[p].c] \in {row[post[p].c], NoRow}
         /\ status' = status \/ (mode.single /\ status' = "gone")
         /\ charged' = charged /\ stalls' = stalls
<1>1. post[p].c \in Chunk /\ post[p].pc \in {"send", "update"} /\ (mode.single => post[p].c = Whole)
  BY AtChunk DEF SendFailed, SendFileFailed, UpdateFails, Separate, PostsApart
<1>2. row[post[p].c].st = "pending"
  BY <1>1 DEF Fits, PostsFit, PostFits
<1>3. UNCHANGED <<mode, job, disk, worker, completer, charged, stalls>>
  BY DEF SendFailed, SendFileFailed, UpdateFails, record, setup
<1>4. (\A q \in Post \ {p} : post'[q] = post[q]) /\ post'[p] = Idle
  BY DEF SendFailed, SendFileFailed, UpdateFails, EndPost, Typed
<1>5. UNCHANGED fallen /\ \A d \in Chunk : sent[d] \subseteq sent'[d]
  BY <1>1, Unseen, AtChunk DEF SendFailed, SendFileFailed, UpdateFails, Strays
<1>6. /\ \A d \in Chunk : d # post[p].c => row'[d] = row[d]
      /\ row'[post[p].c] \in {row[post[p].c], NoRow}
  <2>1. row' \in {row, [row EXCEPT ![post[p].c] = NoRow]}
    BY <1>1 DEF SendFailed, SendFileFailed, UpdateFails, RemoveRecord, SetRow, NoRow
  <2>. QED  BY <1>1, <2>1 DEF Typed
<1>7. status' = status \/ (mode.single /\ status' = "gone")
  BY DEF SendFailed, SendFileFailed, UpdateFails, RemoveRecord, record, setup
<1>. QED  BY <1>1, <1>2, <1>3, <1>4, <1>5, <1>6, <1>7

\* Nobody finds an aborted upload yet.
LEMMA NotUndone ==
  ASSUME Typed, Separate, Fits, NEW p \in Post
  PROVE  ~CheckFails(p) /\ ~Undo(p)
BY DEF CheckFails, Undo, Fits, PostsFit, PostFits, StatusFits

\* A request knows what its row and its temp file are.
LEMMA PostsFitStep ==
  ASSUME Typed, Separate, Fits, Untouched', [Next]_vars
  PROVE  PostsFit'
<1>1. ASSUME NEW p \in Post, NEW c \in Chunk, Start(p, c)
      PROVE  PostsFit'
  BY <1>1, AtChunk
  DEF Start, record, setup, SetPost, SetRow, Idle, Typed, Separate, PostsApart, RowsApart, Fits,
      PostsFit, PostFits, RowsFit, RowFits
<1>2. ASSUME NEW p \in Post, StartFile(p)
      PROVE  PostsFit'
  <2>1. row[Whole].st = "none"
    BY <1>2 DEF StartFile, Fits, StatusFits
  <2>. QED
    BY <1>2, <2>1, AtChunk DEF StartFile, record, setup, SetPost, Typed, Fits, PostsFit, PostFits
<1>3. ASSUME NEW p \in Post, WriteDisk(p)
      PROVE  PostsFit'
  BY <1>3, AtChunk
  DEF WriteDisk, record, setup, SetPost, Typed, Separate, PostsApart, RowsApart, Fits, PostsFit,
      PostFits, RowsFit, RowFits
<1>4. ASSUME NEW p \in Post, FallBack(p)
      PROVE  PostsFit'
  BY <1>4, AtChunk
  DEF FallBack, record, setup, SetPost, Typed, Separate, PostsApart, Fits, PostsFit, PostFits
<1>5. ASSUME NEW p \in Post, CreateRow(p)
      PROVE  PostsFit'
  BY <1>5, AtChunk
  DEF CreateRow, Exists, record, setup, SetPost, SetRow, Typed, Separate, PostsApart, RowsApart,
      Fits, PostsFit, PostFits, RowsFit, RowFits
<1>6. ASSUME NEW p \in Post, CreateFileRow(p)
      PROVE  PostsFit'
  BY <1>6, AtChunk
  DEF CreateFileRow, setup, SetPost, SetRow, Typed, Separate, PostsApart, RowsApart, Fits, PostsFit,
      PostFits, RowsFit, RowFits
<1>7. ASSUME NEW p \in Post, RefuseRow(p)
      PROVE  PostsFit'
  BY <1>7, AtChunk
  DEF RefuseRow, record, setup, SetPost, Typed, Separate, PostsApart, Fits, PostsFit, PostFits
<1>8. ASSUME NEW p \in Post, AddJob(p)
      PROVE  PostsFit'
  BY <1>8, AtChunk
  DEF AddJob, NoJob, record, setup, EndPost, Idle, Typed, Separate, PostsApart, RowsApart, Fits,
      PostsFit, PostFits, RowsFit, RowFits
<1>9. ASSUME NEW p \in Post, CreatePending(p)
      PROVE  PostsFit'
  BY <1>9, AtChunk
  DEF CreatePending, Exists, record, setup, SetPost, EndPost, SetRow, Idle, Typed, Separate,
      PostsApart, RowsApart, Fits, PostsFit, PostFits, RowsFit, RowFits
<1>10. ASSUME NEW p \in Post, CreateFile(p)
      PROVE  PostsFit'
  BY <1>10, AtChunk
  DEF CreateFile, setup, SetPost, SetRow, Typed, Separate, PostsApart, RowsApart, Fits, PostsFit,
      PostFits, RowsFit, RowFits
<1>11. ASSUME NEW p \in Post, SendAny(p)
      PROVE  PostsFit'
  BY <1>11, AtChunk
  DEF SendAny, Sends, record, setup, SetPost, Typed, Separate, PostsApart, RowsApart, Fits,
      PostsFit, PostFits, RowsFit, RowFits
<1>12. ASSUME NEW p \in Post, SendFailed(p)
      PROVE  PostsFit'
  <2>1. \A q \in Post \ {p} : post[q].c # post[p].c
    BY <1>12, Dropped DEF Separate, PostsApart
  <2>2. ASSUME NEW q \in Post PROVE PostFits(q)'
    <3>1. CASE q = p
      BY <1>12, <3>1, Dropped DEF PostFits, Idle
    <3>2. CASE q # p
      <4>1. post'[q] = post[q] /\ PostFits(q)
        BY <1>12, <3>2, Dropped DEF Fits, PostsFit
      <4>2. post[q].pc # "idle" => post[q].c \in Chunk
        BY AtChunk
      <4>3. post[q].pc # "idle" => row'[post[q].c] = row[post[q].c] /\ sent[post[q].c] \subseteq sent'[post[q].c]
        BY <1>12, <2>1, <3>2, <4>2, Dropped
      <4>. QED  BY <1>12, <4>1, <4>2, <4>3, Dropped DEF PostFits
    <3>. QED  BY <3>1, <3>2
  <2>. QED  BY <2>2 DEF PostsFit
<1>13. ASSUME NEW p \in Post, SendFileFailed(p)
      PROVE  PostsFit'
  <2>1. \A q \in Post \ {p} : post[q].c # post[p].c
    BY <1>13, Dropped DEF Separate, PostsApart
  <2>2. ASSUME NEW q \in Post PROVE PostFits(q)'
    <3>1. CASE q = p
      BY <1>13, <3>1, Dropped DEF PostFits, Idle
    <3>2. CASE q # p
      <4>1. post'[q] = post[q] /\ PostFits(q)
        BY <1>13, <3>2, Dropped DEF Fits, PostsFit
      <4>2. post[q].pc # "idle" => post[q].c \in Chunk
        BY AtChunk
      <4>3. post[q].pc # "idle" => row'[post[q].c] = row[post[q].c] /\ sent[post[q].c] \subseteq sent'[post[q].c]
        BY <1>13, <2>1, <3>2, <4>2, Dropped
      <4>. QED  BY <1>13, <4>1, <4>2, <4>3, Dropped DEF PostFits
    <3>. QED  BY <3>1, <3>2
  <2>. QED  BY <2>2 DEF PostsFit
<1>14. ASSUME NEW p \in Post, Update(p)
      PROVE  PostsFit'
  BY <1>14, AtChunk
  DEF Update, record, setup, SetPost, SetRow, Typed, Separate, PostsApart, RowsApart, Fits,
      PostsFit, PostFits, RowsFit, RowFits
<1>15. ASSUME NEW p \in Post, UpdateSingle(p)
      PROVE  PostsFit'
  BY <1>15, AtChunk
  DEF UpdateSingle, setup, EndPost, SetRow, Idle, Typed, Separate, PostsApart, RowsApart, Fits,
      PostsFit, PostFits, RowsFit, RowFits
<1>16. ASSUME NEW p \in Post, CheckStatus(p)
      PROVE  PostsFit'
  <2>1. status \notin {"aborted", "gone"}
    BY <1>16, NoAbortYet DEF CheckStatus, Fits, StatusFits, PostsFit, PostFits
  <2>. QED
    BY <1>16, <2>1, AtChunk
    DEF CheckStatus, EndPost, Idle, record, setup, Typed, Fits, PostsFit, PostFits
<1>17. ASSUME NEW p \in Post, Undo(p)
      PROVE  PostsFit'
  BY <1>17, NotUndone
<1>18. ASSUME NEW w \in Worker, NEW c \in Chunk, Fetch(w, c)
      PROVE  PostsFit'
  BY <1>18, AtChunk
  DEF Fetch, record, setup, Resting, Typed, Separate, PostsApart, RowsApart, Fits, PostsFit,
      PostFits, RowsFit, RowFits
<1>19. ASSUME NEW w \in Worker, Check(w)
      PROVE  PostsFit'
  BY <1>19, AtChunk
  DEF Check, FinishJob, NoJob, record, setup, SetWorker, EndWorker, Resting, Typed, Separate,
      PostsApart, RowsApart, Fits, PostsFit, PostFits, RowsFit, RowFits
<1>20. ASSUME NEW w \in Worker, Read(w)
      PROVE  PostsFit'
  <2>1. \A c \in Chunk : job'[c].st # "none" => job[c].st # "none"
    BY <1>20, JobMoves DEF Read, FailJob
  <2>. QED  BY <1>20, <2>1, AtChunk DEF Read, Fits, PostsFit, PostFits, setup
<1>21. ASSUME NEW w \in Worker, Dispatch(w)
      PROVE  PostsFit'
  BY <1>21, AtChunk
  DEF Dispatch, UseSlot, Sends, Typed, Separate, PostsApart, RowsApart, Fits, PostsFit, PostFits,
      RowsFit, RowFits
<1>22. ASSUME NEW w \in Worker, Resend(w)
      PROVE  PostsFit'
  BY <1>22, AtChunk
  DEF Resend, Sends, Failing, record, setup, Typed, Separate, PostsApart, RowsApart, Fits, PostsFit,
      PostFits, RowsFit, RowFits
<1>23. ASSUME NEW w \in Worker, DispatchFails(w)
      PROVE  PostsFit'
  BY <1>23, AtChunk
  DEF DispatchFails, UseSlot, FailJob, RetryJob, Failing, Exists, EndWorker, Resting, Typed,
      Separate, PostsApart, RowsApart, Fits, PostsFit, PostFits, RowsFit, RowFits
<1>24. ASSUME NEW w \in Worker, Count(w)
      PROVE  PostsFit'
  <2>1. \A c \in Chunk : job'[c].st # "none" => job[c].st # "none"
    BY <1>24, JobMoves DEF Count, FailJob
  <2>. QED  BY <1>24, <2>1, AtChunk DEF Count, Fits, PostsFit, PostFits, setup
<1>25. ASSUME NEW w \in Worker, Commit(w)
      PROVE  PostsFit'
  <2>1. worker[w].c \in Chunk /\ row[worker[w].c].st \in {"buffered", "complete"}
    BY <1>25, AtChunk DEF Commit, Fits, WorkersFit, WorkerFits
  <2>2. /\ \A c \in Chunk \ {worker[w].c} : row'[c] = row[c]
        /\ row'[worker[w].c].st = "complete"
    BY <1>25, <2>1 DEF Commit, SetRow, Typed
  <2>3. job[worker[w].c].st = "none" => row[worker[w].c].st = "complete"
    BY <1>25 DEF Commit, Fits, WorkersFit, WorkerFits
  <2>. QED
    BY <1>25, <2>1, <2>2, <2>3, AtChunk DEF Commit, setup, Fits, PostsFit, PostFits
<1>26. ASSUME NEW w \in Worker, Remove(w)
      PROVE  PostsFit'
  <2>1. \A c \in Chunk : job'[c].st # "none" => job[c].st # "none"
    BY <1>26, JobMoves DEF Remove
  <2>2. row[worker[w].c].st = "complete"
    BY <1>26 DEF Remove, Fits, WorkersFit, WorkerFits
  <2>. QED  BY <1>26, <2>1, <2>2, AtChunk DEF Remove, Fits, PostsFit, PostFits, record, setup
<1>27. ASSUME NEW c \in Chunk, Stall(c)
      PROVE  PostsFit'
  BY <1>27, AtChunk
  DEF Stall, TakeBack, record, setup, Typed, Separate, PostsApart, RowsApart, Fits, PostsFit,
      PostFits, RowsFit, RowFits
<1>28. ASSUME NEW c \in Chunk, FindStalled(c)
      PROVE  PostsFit'
  BY <1>28, AtChunk
  DEF FindStalled, TakeBack, record, setup, Typed, Separate, PostsApart, RowsApart, Fits, PostsFit,
      PostFits, RowsFit, RowFits
<1>29. ASSUME Restart
      PROVE  PostsFit'
  <2>1. \A p \in Post : post'[p] = Idle
    BY <1>29 DEF Restart
  <2>. QED  BY <2>1 DEF PostsFit, PostFits, Idle
<1>30. ASSUME UNCHANGED <<mode, row, disk, sent, job, post>>
      PROVE  PostsFit'
  BY <1>30 DEF Typed, Separate, PostsApart, RowsApart, Fits, PostsFit, PostFits, RowsFit, RowFits
<1>31. ASSUME NEW p \in Post, UpdateFails(p)
      PROVE  PostsFit'
  <2>1. \A q \in Post \ {p} : post[q].c # post[p].c
    BY <1>31, Dropped DEF Separate, PostsApart
  <2>2. ASSUME NEW q \in Post PROVE PostFits(q)'
    <3>1. CASE q = p
      BY <1>31, <3>1, Dropped DEF PostFits, Idle
    <3>2. CASE q # p
      <4>1. post'[q] = post[q] /\ PostFits(q)
        BY <1>31, <3>2, Dropped DEF Fits, PostsFit
      <4>2. post[q].pc # "idle" => post[q].c \in Chunk
        BY AtChunk
      <4>3. post[q].pc # "idle" => row'[post[q].c] = row[post[q].c] /\ sent[post[q].c] \subseteq sent'[post[q].c]
        BY <1>31, <2>1, <3>2, <4>2, Dropped
      <4>. QED  BY <1>31, <4>1, <4>2, <4>3, Dropped DEF PostFits
    <3>. QED  BY <3>1, <3>2
  <2>. QED  BY <2>2 DEF PostsFit
<1>32. ASSUME NEW p \in Post, SkipJob(p)
      PROVE  PostsFit'
  BY <1>32, AtChunk
  DEF SkipJob, record, setup, EndPost, Idle, Typed, Separate, PostsApart, Fits, PostsFit, PostFits
<1>33. ASSUME NEW p \in Post, ResendFile(p)
      PROVE  PostsFit'
  <2>1. \A d \in Chunk : sent[d] \subseteq sent'[d]
    BY <1>33 DEF ResendFile, Sends, Typed
  <2>2. UNCHANGED <<mode, row, disk, job, post>>
    BY <1>33 DEF ResendFile, record, setup
  <2>. QED  BY <2>1, <2>2, AtChunk DEF Fits, PostsFit, PostFits
<1>. QED
  BY <1>32, <1>33, <1>31, <1>1, <1>2, <1>3, <1>4, <1>5, <1>6, <1>7, <1>8, <1>9, <1>10, <1>11,
      <1>12, <1>13, <1>14, <1>15,
      <1>16, <1>17, <1>18, <1>19, <1>20, <1>21, <1>22, <1>23, <1>24, <1>25, <1>26, <1>27, <1>28,
      <1>29, <1>30, NoAbortYet, NotUndone
  DEF Next, PostStep, WorkerStep, Write, WriteFile, Enqueue, EnqueueFile, Send, SendFile,
      Confirm, Flip, Charge,
      UseSlot, SlotMove, Rivals, Clock, NoUpload, vars, record, setup

\* A worker knows what its row is, although its job may be gone.
LEMMA WorkersFitStep ==
  ASSUME Typed, Separate, Fits, Untouched', [Next]_vars
  PROVE  WorkersFit'
<1>1. ASSUME NEW p \in Post, NEW c \in Chunk, Start(p, c)
      PROVE  WorkersFit'
  BY <1>1, AtChunk
  DEF Start, history, record, setup, SetPost, SetRow, Idle, Typed, Separate, PostsApart, RowsApart,
      WorkersApart, Fits, PostsFit, PostFits, WorkersFit, WorkerFits, RowsFit, RowFits, Item
<1>2. ASSUME NEW p \in Post, StartFile(p)
      PROVE  WorkersFit'
  BY <1>2, AtChunk
  DEF StartFile, history, record, setup, SetPost, Typed, Separate, PostsApart, RowsApart, WorkersApart, Fits,
      PostsFit, PostFits, WorkersFit, WorkerFits, RowsFit, RowFits, Item
<1>3. ASSUME NEW p \in Post, FallBack(p)
      PROVE  WorkersFit'
  <2>1. UNCHANGED <<mode, row, sent, job, worker>> /\ fallen \subseteq fallen'
    BY <1>3 DEF FallBack, Falls, history, record, setup
  <2>. QED  BY <2>1 DEF Fits, WorkersFit, WorkerFits, Item
<1>4. ASSUME NEW p \in Post, CreateRow(p)
      PROVE  WorkersFit'
  BY <1>4, AtChunk
  DEF CreateRow, Exists, history, record, setup, SetPost, SetRow, Typed, Separate, PostsApart, RowsApart,
      WorkersApart, Fits, PostsFit, PostFits, WorkersFit, WorkerFits, RowsFit, RowFits, Item
<1>5. ASSUME NEW p \in Post, CreateFileRow(p)
      PROVE  WorkersFit'
  BY <1>5, AtChunk
  DEF CreateFileRow, history, setup, SetPost, SetRow, Typed, Separate, PostsApart, RowsApart, WorkersApart,
      Fits, PostsFit, PostFits, WorkersFit, WorkerFits, RowsFit, RowFits, Item
<1>6. ASSUME NEW p \in Post, AddJob(p)
      PROVE  WorkersFit'
  BY <1>6, AtChunk
  DEF AddJob, NoJob, history, record, setup, EndPost, Idle, Typed, Separate, PostsApart, RowsApart,
      WorkersApart, Fits, PostsFit, PostFits, WorkersFit, WorkerFits, RowsFit, RowFits, Item
<1>7. ASSUME NEW p \in Post, CreatePending(p)
      PROVE  WorkersFit'
  BY <1>7, AtChunk
  DEF CreatePending, Exists, history, record, setup, SetPost, EndPost, SetRow, Idle, Typed, Separate,
      PostsApart, RowsApart, WorkersApart, Fits, PostsFit, PostFits, WorkersFit, WorkerFits,
      RowsFit, RowFits, Item
<1>8. ASSUME NEW p \in Post, CreateFile(p)
      PROVE  WorkersFit'
  BY <1>8, AtChunk
  DEF CreateFile, history, setup, SetPost, SetRow, Typed, Separate, PostsApart, RowsApart, WorkersApart,
      Fits, PostsFit, PostFits, WorkersFit, WorkerFits, RowsFit, RowFits, Item
<1>9. ASSUME NEW p \in Post, SendAny(p)
      PROVE  WorkersFit'
  BY <1>9, AtChunk
  DEF SendAny, Sends, history, record, setup, SetPost, Typed, Separate, PostsApart, RowsApart, WorkersApart,
      Fits, PostsFit, PostFits, WorkersFit, WorkerFits, RowsFit, RowFits, Item
<1>10. ASSUME NEW p \in Post, SendFailed(p)
      PROVE  WorkersFit'
  <2>1. \A w \in Worker : worker[w].pc # "idle" => worker[w].c \in Chunk /\ worker[w].c # post[p].c
    BY <1>10, Dropped, AtChunk DEF Fits, WorkersFit, WorkerFits
  <2>2. \A d \in Chunk : row[d].st = "complete" => row'[d] = row[d]
    BY <1>10, Dropped
  <2>3. \A d \in Item : d \in Chunk
    BY AtChunk DEF Item
  <2>4. ASSUME NEW w \in Worker, worker[w].pc # "idle" PROVE WorkerFits(w)'
    <3>1. /\ row'[worker[w].c] = row[worker[w].c] /\ sent[worker[w].c] \subseteq sent'[worker[w].c]
          /\ UNCHANGED <<worker, job, fallen, mode>>
      BY <1>10, <2>1, <2>4, Dropped
    <3>. QED  BY <2>2, <2>3, <2>4, <3>1 DEF Fits, WorkersFit, WorkerFits, Item
  <2>5. UNCHANGED worker
    BY <1>10, Dropped
  <2>. QED  BY <2>4, <2>5 DEF WorkersFit, WorkerFits
<1>11. ASSUME NEW p \in Post, SendFileFailed(p)
      PROVE  WorkersFit'
  <2>1. \A w \in Worker : worker[w].pc # "idle" => worker[w].c \in Chunk /\ worker[w].c # post[p].c
    BY <1>11, Dropped, AtChunk DEF Fits, WorkersFit, WorkerFits
  <2>2. \A d \in Chunk : row[d].st = "complete" => row'[d] = row[d]
    BY <1>11, Dropped
  <2>3. \A d \in Item : d \in Chunk
    BY AtChunk DEF Item
  <2>4. ASSUME NEW w \in Worker, worker[w].pc # "idle" PROVE WorkerFits(w)'
    <3>1. /\ row'[worker[w].c] = row[worker[w].c] /\ sent[worker[w].c] \subseteq sent'[worker[w].c]
          /\ UNCHANGED <<worker, job, fallen, mode>>
      BY <1>11, <2>1, <2>4, Dropped
    <3>. QED  BY <2>2, <2>3, <2>4, <3>1 DEF Fits, WorkersFit, WorkerFits, Item
  <2>5. UNCHANGED worker
    BY <1>11, Dropped
  <2>. QED  BY <2>4, <2>5 DEF WorkersFit, WorkerFits
<1>12. ASSUME NEW p \in Post, Update(p)
      PROVE  WorkersFit'
  BY SMTT(40), <1>12, AtChunk
  DEF Update, history, record, setup, SetPost, SetRow, Typed, Separate, PostsApart, RowsApart, WorkersApart,
      Fits, PostsFit, PostFits, WorkersFit, WorkerFits, RowsFit, RowFits, Item
<1>13. ASSUME NEW p \in Post, UpdateSingle(p)
      PROVE  WorkersFit'
  BY <1>13, AtChunk
  DEF UpdateSingle, history, setup, EndPost, SetRow, Idle, Typed, Separate, PostsApart, RowsApart,
      WorkersApart, Fits, PostsFit, PostFits, WorkersFit, WorkerFits, RowsFit, RowFits, Item
<1>14. ASSUME NEW p \in Post, Undo(p)
      PROVE  WorkersFit'
  BY <1>14, NotUndone
<1>15. ASSUME NEW w \in Worker, NEW c \in Chunk, Fetch(w, c)
      PROVE  WorkersFit'
  BY <1>15, AtChunk
  DEF Fetch, history, record, setup, Resting, Typed, Separate, PostsApart, RowsApart, WorkersApart, Fits,
      PostsFit, PostFits, WorkersFit, WorkerFits, RowsFit, RowFits, Item
<1>16. ASSUME NEW w \in Worker, Check(w)
      PROVE  WorkersFit'
  <2>1. /\ \A v \in Worker \ {w} : worker'[v] = worker[v]
        /\ \/ worker'[w].pc = "idle"
           \/ worker'[w].c = worker[w].c /\ worker'[w].pc \notin {"idle", "remove", "tx", "commit"}
    BY <1>16, WorkerMoves DEF Check, WorkerPc
  <2>2. \A c \in Chunk : job'[c].st = "none" => job[c].st = "none" \/ row[c].st = "complete"
    BY <1>16, AtChunk, JobMoves DEF Check, Separate, WorkersApart, Fits, WorkersFit, WorkerFits
  <2>3. UNCHANGED <<mode, row, sent, fallen>> /\ worker[w].pc # "idle"
    BY <1>16 DEF Check, history, record, setup
  <2>. QED  BY <2>1, <2>2, <2>3, AtChunk DEF Fits, WorkersFit, WorkerFits, Item
<1>17. ASSUME NEW w \in Worker, Read(w)
      PROVE  WorkersFit'
  <2>1. /\ \A v \in Worker \ {w} : worker'[v] = worker[v]
        /\ \/ worker'[w].pc = "idle"
           \/ worker'[w].c = worker[w].c /\ worker'[w].pc \notin {"idle", "remove", "tx", "commit"}
    BY <1>17, WorkerMoves DEF Read, FailJob, WorkerPc
  <2>2. \A c \in Chunk : job'[c].st = "none" => job[c].st = "none" \/ row[c].st = "complete"
    BY <1>17, AtChunk, JobMoves DEF Read, FailJob, Separate, WorkersApart, Fits, WorkersFit, WorkerFits
  <2>3. UNCHANGED <<mode, row, sent, fallen>> /\ worker[w].pc # "idle"
    BY <1>17 DEF Read, history, setup
  <2>. QED  BY <2>1, <2>2, <2>3, AtChunk DEF Fits, WorkersFit, WorkerFits, Item
<1>18. ASSUME NEW w \in Worker, Dispatch(w)
      PROVE  WorkersFit'
  BY <1>18, AtChunk
  DEF Dispatch, history, UseSlot, Sends, Typed, Separate, PostsApart, RowsApart, WorkersApart, Fits,
      PostsFit, PostFits, WorkersFit, WorkerFits, RowsFit, RowFits, Item
<1>19. ASSUME NEW w \in Worker, Resend(w)
      PROVE  WorkersFit'
  <2>1. \A d \in Chunk : sent[d] \subseteq sent'[d]
    BY <1>19 DEF Resend, Sends, Typed
  <2>2. UNCHANGED <<mode, row, job, worker, fallen>>
    BY <1>19 DEF Resend, Strays, record, setup
  <2>. QED  BY <2>1, <2>2, AtChunk DEF Fits, WorkersFit, WorkerFits, Item
<1>20. ASSUME NEW w \in Worker, DispatchFails(w)
      PROVE  WorkersFit'
  <2>1. /\ \A v \in Worker \ {w} : worker'[v] = worker[v]
        /\ \/ worker'[w].pc = "idle"
           \/ worker'[w].c = worker[w].c /\ worker'[w].pc \notin {"idle", "remove", "tx", "commit"}
    BY <1>20, WorkerMoves DEF DispatchFails, FailJob, WorkerPc
  <2>2. \A c \in Chunk : job'[c].st = "none" => job[c].st = "none" \/ row[c].st = "complete"
    BY <1>20, AtChunk, JobMoves
    DEF DispatchFails, FailJob, Separate, WorkersApart, Fits, WorkersFit, WorkerFits
  <2>3. UNCHANGED <<mode, row, sent, fallen>> /\ worker[w].pc # "idle"
    BY <1>20 DEF DispatchFails, history, UseSlot
  <2>. QED  BY <2>1, <2>2, <2>3, AtChunk DEF Fits, WorkersFit, WorkerFits, Item
<1>21. ASSUME NEW w \in Worker, Count(w)
      PROVE  WorkersFit'
  <2>0. worker[w].pc = "tx" /\ worker[w].c \in Chunk /\ row[worker[w].c].st \in {"buffered", "complete"}
    BY <1>21, AtChunk DEF Count, Fits, WorkersFit, WorkerFits
  <2>. DEFINE last == {d \in Item : d = worker[w].c \/ row[d].st \in {"complete", "pending"}} = Item /\ status # "complete"
  <2>1. /\ worker' = [worker EXCEPT ![w].pc = "commit", ![w].last = last]
        /\ UNCHANGED <<mode, row, sent, job, fallen>>
    BY <1>21, <2>0 DEF Count, history, setup
  <2>2. last \in BOOLEAN
    OBVIOUS
  <2>3. last => \A d \in Item \ {worker[w].c} : row[d].st = "complete" \/ d \in fallen
    <3>1. CASE mode.single
      BY <2>0, <3>1, <1>21 DEF Item, Count, Separate, WorkersApart
    <3>2. CASE ~mode.single
      <4>1. ASSUME last, NEW d \in Item \ {worker[w].c}
            PROVE  row[d].st \in {"complete", "pending"}
        BY <4>1
      <4>2. \A d \in Chunk : row[d].st = "pending" => d \in fallen
        BY <2>0, <3>2 DEF Separate, RowsApart, WorkersApart
      <4>. QED  BY <3>2, <4>1, <4>2 DEF Item
    <3>. QED  BY <3>1, <3>2
  <2>. HIDE DEF last
  <2>4. /\ \A v \in Worker \ {w} : worker'[v] = worker[v]
        /\ worker'[w].pc = "commit" /\ worker'[w].c = worker[w].c
        /\ worker'[w].msg = worker[w].msg /\ worker'[w].last = last
    BY <2>1, <2>2, WorkerMoves
  <2>5. ASSUME NEW v \in Worker
        PROVE  WorkerFits(v)'
    <3>0. WorkerFits(v) /\ WorkerFits(w)
      BY DEF Fits, WorkersFit
    <3>1. CASE v = w
      <4>1. WorkerFits(w)'
        <5>1. /\ job[worker[w].c].st = "none" => row[worker[w].c].st = "complete"
              /\ worker[w].msg \in sent[worker[w].c]
          BY <2>0, <3>0 DEF WorkerFits
        <5>. QED  BY <2>0, <2>1, <2>3, <2>4, <5>1 DEF WorkerFits, Item
      <4>. QED  BY <3>1, <4>1
    <3>2. CASE v # w
      BY <2>1, <2>4, <3>0, <3>2 DEF WorkerFits, Item
    <3>. QED  BY <3>1, <3>2
  <2>. QED  BY <2>5 DEF WorkersFit
<1>22. ASSUME NEW w \in Worker, Commit(w)
      PROVE  WorkersFit'
  BY <1>22, AtChunk
  DEF Commit, SetRow, history, setup, SetWorker, Typed, Separate, PostsApart, RowsApart, WorkersApart, Fits,
      PostsFit, PostFits, WorkersFit, WorkerFits, RowsFit, RowFits, Item
<1>23. ASSUME NEW w \in Worker, Remove(w)
      PROVE  WorkersFit'
  <2>1. /\ \A v \in Worker \ {w} : worker'[v] = worker[v]
        /\ worker'[w].pc = "idle"
    BY <1>23, WorkerMoves DEF Remove
  <2>2. \A c \in Chunk : job'[c].st = "none" => job[c].st = "none" \/ row[c].st = "complete"
    BY <1>23, AtChunk, JobMoves DEF Remove, Separate, WorkersApart, Fits, WorkersFit, WorkerFits
  <2>. QED  BY <1>23, <2>1, <2>2, AtChunk DEF Remove, history, record, setup, Fits, WorkersFit, WorkerFits, Item
<1>24. ASSUME NEW c \in Chunk, Stall(c)
      PROVE  WorkersFit'
  BY <1>24, AtChunk
  DEF Stall, TakeBack, history, record, setup, Typed, Separate, PostsApart, RowsApart, WorkersApart, Fits,
      PostsFit, PostFits, WorkersFit, WorkerFits, RowsFit, RowFits, Item
<1>25. ASSUME NEW c \in Chunk, FindStalled(c)
      PROVE  WorkersFit'
  BY <1>25, AtChunk
  DEF FindStalled, TakeBack, history, record, setup, Typed, Separate, PostsApart, RowsApart, WorkersApart,
      Fits, PostsFit, PostFits, WorkersFit, WorkerFits, RowsFit, RowFits, Item
<1>26. ASSUME Restart
      PROVE  WorkersFit'
  <2>1. \A w \in Worker : worker'[w].pc = "idle"
    BY <1>26 DEF Restart, Resting
  <2>. QED  BY <2>1 DEF WorkersFit, WorkerFits
<1>27. ASSUME UNCHANGED <<mode, row, sent, job, worker, fallen>>
      PROVE  WorkersFit'
  BY <1>27
  DEF Typed, Separate, PostsApart, RowsApart, WorkersApart, Fits, PostsFit, PostFits, WorkersFit,
      WorkerFits, RowsFit, RowFits, Item
<1>28. ASSUME NEW p \in Post, UpdateFails(p)
      PROVE  WorkersFit'
  <2>1. \A w \in Worker : worker[w].pc # "idle" => worker[w].c \in Chunk /\ worker[w].c # post[p].c
    BY <1>28, Dropped, AtChunk DEF Fits, WorkersFit, WorkerFits
  <2>2. \A d \in Chunk : row[d].st = "complete" => row'[d] = row[d]
    BY <1>28, Dropped
  <2>3. \A d \in Item : d \in Chunk
    BY AtChunk DEF Item
  <2>4. ASSUME NEW w \in Worker, worker[w].pc # "idle" PROVE WorkerFits(w)'
    <3>1. /\ row'[worker[w].c] = row[worker[w].c] /\ sent[worker[w].c] \subseteq sent'[worker[w].c]
          /\ UNCHANGED <<worker, job, fallen, mode>>
      BY <1>28, <2>1, <2>4, Dropped
    <3>. QED  BY <2>2, <2>3, <2>4, <3>1 DEF Fits, WorkersFit, WorkerFits, Item
  <2>5. UNCHANGED worker
    BY <1>28, Dropped
  <2>. QED  BY <2>4, <2>5 DEF WorkersFit, WorkerFits
<1>29. ASSUME NEW p \in Post, RefuseRow(p)
      PROVE  WorkersFit'
  <2>1. UNCHANGED <<mode, row, sent, job, worker>> /\ fallen \subseteq fallen'
    BY <1>29 DEF RefuseRow, Falls, record, setup
  <2>. QED  BY <2>1 DEF Fits, WorkersFit, WorkerFits, Item
<1>30. ASSUME NEW p \in Post, ResendFile(p)
      PROVE  WorkersFit'
  <2>1. \A d \in Chunk : sent[d] \subseteq sent'[d]
    BY <1>30 DEF ResendFile, Sends, Typed
  <2>2. UNCHANGED <<mode, row, job, worker, fallen>>
    BY <1>30 DEF ResendFile, Strays, record, setup
  <2>. QED  BY <2>1, <2>2, AtChunk DEF Fits, WorkersFit, WorkerFits, Item
<1>31. ASSUME NEW p \in Post, SkipJob(p)
      PROVE  WorkersFit'
  <2>1. UNCHANGED <<mode, row, sent, job, worker, fallen>>
    BY <1>31 DEF SkipJob, record, setup
  <2>. QED  BY <2>1 DEF Fits, WorkersFit, WorkerFits, Item
<1>. QED
  BY <1>29, <1>30, <1>31, <1>28, <1>1, <1>2, <1>3, <1>4, <1>5, <1>6, <1>7, <1>8, <1>9, <1>10,
      <1>11, <1>12, <1>13, <1>14, <1>15,
      <1>16, <1>17, <1>18, <1>19, <1>20, <1>21, <1>22, <1>23, <1>24, <1>25, <1>26, <1>27,
      NoAbortYet, NotUndone
  DEF Next, PostStep, WorkerStep, Write, WriteFile, Enqueue, EnqueueFile, Send, SendFile,
      WriteDisk, CheckStatus, Confirm, Flip, Charge,
      history, UseSlot, SlotMove, Rivals, Clock, NoUpload, vars, history, record, setup

\* What a row says is on the disk or on Telegram.
LEMMA RowsFitStep ==
  ASSUME Typed, Separate, Fits, Untouched', [Next]_vars
  PROVE  RowsFit'
<1>1. ASSUME NEW p \in Post, NEW c \in Chunk, Start(p, c)
      PROVE  RowsFit'
  BY <1>1, AtChunk
  DEF Start, record, setup, SetPost, SetRow, Idle, Typed, Separate, PostsApart, RowsApart,
      WorkersApart, Fits, PostsFit, PostFits, WorkersFit, WorkerFits, RowsFit, RowFits
<1>2. ASSUME NEW p \in Post, WriteDisk(p)
      PROVE  RowsFit'
  BY <1>2, AtChunk
  DEF WriteDisk, record, setup, SetPost, Typed, Separate, PostsApart, RowsApart, WorkersApart, Fits,
      PostsFit, PostFits, WorkersFit, WorkerFits, RowsFit, RowFits
<1>3. ASSUME NEW p \in Post, CreateRow(p)
      PROVE  RowsFit'
  BY <1>3, AtChunk
  DEF CreateRow, Exists, record, setup, SetPost, SetRow, Typed, Separate, PostsApart, RowsApart,
      WorkersApart, Fits, PostsFit, PostFits, WorkersFit, WorkerFits, RowsFit, RowFits
<1>4. ASSUME NEW p \in Post, CreateFileRow(p)
      PROVE  RowsFit'
  BY <1>4, AtChunk
  DEF CreateFileRow, setup, SetPost, SetRow, Typed, Separate, PostsApart, RowsApart, WorkersApart,
      Fits, PostsFit, PostFits, WorkersFit, WorkerFits, RowsFit, RowFits
<1>5. ASSUME NEW p \in Post, RefuseRow(p)
      PROVE  RowsFit'
  <2>1. UNCHANGED <<row, sent, job>> /\ disk' = disk \ {post[p].c} /\ row[post[p].c].st = "none"
    BY <1>5, AtChunk DEF RefuseRow, Fits, PostsFit, PostFits
  <2>. QED  BY <2>1 DEF Fits, RowsFit, RowFits
<1>6. ASSUME NEW p \in Post, AddJob(p)
      PROVE  RowsFit'
  BY <1>6, AtChunk
  DEF AddJob, NoJob, record, setup, EndPost, Idle, Typed, Separate, PostsApart, RowsApart,
      WorkersApart, Fits, PostsFit, PostFits, WorkersFit, WorkerFits, RowsFit, RowFits
<1>7. ASSUME NEW p \in Post, CreatePending(p)
      PROVE  RowsFit'
  BY <1>7, AtChunk
  DEF CreatePending, Exists, record, setup, SetPost, EndPost, SetRow, Idle, Typed, Separate,
      PostsApart, RowsApart, WorkersApart, Fits, PostsFit, PostFits, WorkersFit, WorkerFits,
      RowsFit, RowFits
<1>8. ASSUME NEW p \in Post, CreateFile(p)
      PROVE  RowsFit'
  BY <1>8, AtChunk
  DEF CreateFile, setup, SetPost, SetRow, Typed, Separate, PostsApart, RowsApart, WorkersApart,
      Fits, PostsFit, PostFits, WorkersFit, WorkerFits, RowsFit, RowFits
<1>9. ASSUME NEW p \in Post, SendAny(p)
      PROVE  RowsFit'
  BY <1>9, AtChunk
  DEF SendAny, Sends, record, setup, SetPost, Typed, Separate, PostsApart, RowsApart, WorkersApart,
      Fits, PostsFit, PostFits, WorkersFit, WorkerFits, RowsFit, RowFits
<1>10. ASSUME NEW p \in Post, SendFailed(p)
      PROVE  RowsFit'
  <2>1. ASSUME NEW d \in Chunk PROVE RowFits(d)'
    <3>1. UNCHANGED <<job, disk>> /\ RowFits(d) /\ sent[d] \subseteq sent'[d]
      BY <1>10, Dropped DEF Fits, RowsFit
    <3>2. row'[d] = row[d] \/ (row[d].st = "pending" /\ row'[d] = NoRow)
      BY <1>10, Dropped
    <3>. QED  BY <3>1, <3>2 DEF RowFits, NoRow
  <2>. QED  BY <2>1 DEF RowsFit
<1>11. ASSUME NEW p \in Post, SendFileFailed(p)
      PROVE  RowsFit'
  <2>1. ASSUME NEW d \in Chunk PROVE RowFits(d)'
    <3>1. UNCHANGED <<job, disk>> /\ RowFits(d) /\ sent[d] \subseteq sent'[d]
      BY <1>11, Dropped DEF Fits, RowsFit
    <3>2. row'[d] = row[d] \/ (row[d].st = "pending" /\ row'[d] = NoRow)
      BY <1>11, Dropped
    <3>. QED  BY <3>1, <3>2 DEF RowFits, NoRow
  <2>. QED  BY <2>1 DEF RowsFit
<1>12. ASSUME NEW p \in Post, Update(p)
      PROVE  RowsFit'
  BY <1>12, AtChunk
  DEF Update, record, setup, SetPost, SetRow, Typed, Separate, PostsApart, RowsApart, WorkersApart,
      Fits, PostsFit, PostFits, WorkersFit, WorkerFits, RowsFit, RowFits
<1>13. ASSUME NEW p \in Post, UpdateSingle(p)
      PROVE  RowsFit'
  BY <1>13, AtChunk
  DEF UpdateSingle, setup, EndPost, SetRow, Idle, Typed, Separate, PostsApart, RowsApart,
      WorkersApart, Fits, PostsFit, PostFits, WorkersFit, WorkerFits, RowsFit, RowFits
<1>14. ASSUME NEW p \in Post, Undo(p)
      PROVE  RowsFit'
  BY <1>14, NotUndone
<1>15. ASSUME NEW w \in Worker, NEW c \in Chunk, Fetch(w, c)
      PROVE  RowsFit'
  BY <1>15, AtChunk
  DEF Fetch, record, setup, Resting, Typed, Separate, PostsApart, RowsApart, WorkersApart, Fits,
      PostsFit, PostFits, WorkersFit, WorkerFits, RowsFit, RowFits
<1>16. ASSUME NEW w \in Worker, Check(w)
      PROVE  RowsFit'
  BY <1>16, AtChunk
  DEF Check, FinishJob, NoJob, record, setup, SetWorker, EndWorker, Resting, Typed, Separate,
      PostsApart, RowsApart, WorkersApart, Fits, PostsFit, PostFits, WorkersFit, WorkerFits,
      RowsFit, RowFits
<1>17. ASSUME NEW w \in Worker, Read(w)
      PROVE  RowsFit'
  <2>1. \A c \in Chunk : job'[c].st # "none" => job[c].st # "none"
    BY <1>17, JobMoves DEF Read, FailJob
  <2>. QED  BY <1>17, <2>1 DEF Read, setup, Fits, RowsFit, RowFits
<1>18. ASSUME NEW w \in Worker, Dispatch(w)
      PROVE  RowsFit'
  BY <1>18, AtChunk
  DEF Dispatch, UseSlot, Sends, Typed, Separate, PostsApart, RowsApart, WorkersApart, Fits,
      PostsFit, PostFits, WorkersFit, WorkerFits, RowsFit, RowFits
<1>19. ASSUME NEW w \in Worker, Resend(w)
      PROVE  RowsFit'
  <2>1. \A d \in Chunk : sent[d] \subseteq sent'[d]
    BY <1>19 DEF Resend, Sends, Typed
  <2>2. UNCHANGED <<row, job, disk>>
    BY <1>19 DEF Resend
  <2>. QED  BY <2>1, <2>2 DEF Fits, RowsFit, RowFits
<1>20. ASSUME NEW w \in Worker, DispatchFails(w)
      PROVE  RowsFit'
  BY <1>20, AtChunk
  DEF DispatchFails, UseSlot, FailJob, RetryJob, Failing, Exists, EndWorker, Resting, Typed,
      Separate, PostsApart, RowsApart, WorkersApart, Fits, PostsFit, PostFits, WorkersFit,
      WorkerFits, RowsFit, RowFits
<1>21. ASSUME NEW w \in Worker, Count(w)
      PROVE  RowsFit'
  BY <1>21, AtChunk
  DEF Count, FailJob, RetryJob, Exists, setup, EndWorker, Resting, Typed, Separate, PostsApart,
      RowsApart, WorkersApart, Fits, PostsFit, PostFits, WorkersFit, WorkerFits, RowsFit, RowFits
<1>22. ASSUME NEW w \in Worker, Commit(w)
      PROVE  RowsFit'
  BY <1>22, AtChunk
  DEF Commit, SetRow, setup, SetWorker, Typed, Separate, PostsApart, RowsApart, WorkersApart, Fits,
      PostsFit, PostFits, WorkersFit, WorkerFits, RowsFit, RowFits
<1>23. ASSUME NEW w \in Worker, Remove(w)
      PROVE  RowsFit'
  BY <1>23, AtChunk
  DEF Remove, FinishJob, NoJob, record, setup, EndWorker, Resting, Typed, Separate, PostsApart,
      RowsApart, WorkersApart, Fits, PostsFit, PostFits, WorkersFit, WorkerFits, RowsFit, RowFits
<1>24. ASSUME NEW c \in Chunk, Stall(c)
      PROVE  RowsFit'
  BY <1>24, AtChunk
  DEF Stall, TakeBack, record, setup, Typed, Separate, PostsApart, RowsApart, WorkersApart, Fits,
      PostsFit, PostFits, WorkersFit, WorkerFits, RowsFit, RowFits
<1>25. ASSUME NEW c \in Chunk, FindStalled(c)
      PROVE  RowsFit'
  BY <1>25, AtChunk
  DEF FindStalled, TakeBack, record, setup, Typed, Separate, PostsApart, RowsApart, WorkersApart,
      Fits, PostsFit, PostFits, WorkersFit, WorkerFits, RowsFit, RowFits
<1>26. ASSUME Restart
      PROVE  RowsFit'
  <2>1. \A c \in Chunk : job'[c].st # "none" => job[c].st # "none" \/ row[c].st = "buffered"
    <3> TAKE c \in Chunk
    <3>1. [job[c] EXCEPT !.by = None].st = job[c].st
      BY Fields DEF Typed, JobState
    <3>. QED  BY <1>26, <3>1, JobsRestarted, Waits
  <2>2. UNCHANGED <<row, disk, sent>>
    BY <1>26 DEF Restart
  <2>. QED  BY <2>1, <2>2 DEF Fits, RowsFit, RowFits
<1>27. ASSUME UNCHANGED <<row, disk, sent, job>>
      PROVE  RowsFit'
  BY <1>27
  DEF Typed, Separate, PostsApart, RowsApart, WorkersApart, Fits, PostsFit, PostFits, WorkersFit,
      WorkerFits, RowsFit, RowFits
<1>28. ASSUME NEW p \in Post, UpdateFails(p)
      PROVE  RowsFit'
  <2>1. ASSUME NEW d \in Chunk PROVE RowFits(d)'
    <3>1. UNCHANGED <<job, disk>> /\ RowFits(d) /\ sent[d] \subseteq sent'[d]
      BY <1>28, Dropped DEF Fits, RowsFit
    <3>2. row'[d] = row[d] \/ (row[d].st = "pending" /\ row'[d] = NoRow)
      BY <1>28, Dropped
    <3>. QED  BY <3>1, <3>2 DEF RowFits, NoRow
  <2>. QED  BY <2>1 DEF RowsFit
<1>29. ASSUME NEW p \in Post, ResendFile(p)
      PROVE  RowsFit'
  <2>1. \A d \in Chunk : sent[d] \subseteq sent'[d]
    BY <1>29 DEF ResendFile, Sends, Typed
  <2>2. UNCHANGED <<row, job, disk>>
    BY <1>29 DEF ResendFile
  <2>. QED  BY <2>1, <2>2 DEF Fits, RowsFit, RowFits
<1>. QED
  BY <1>29, <1>28, <1>1, <1>2, <1>3, <1>4, <1>5, <1>6, <1>7, <1>8, <1>9, <1>10, <1>11, <1>12,
      <1>13, <1>14, <1>15,
      <1>16, <1>17, <1>18, <1>19, <1>20, <1>21, <1>22, <1>23, <1>24, <1>25, <1>26, <1>27,
      NoAbortYet, NotUndone
  DEF Next, PostStep, WorkerStep, Write, WriteFile, Enqueue, EnqueueFile, Send, SendFile,
      StartFile, FallBack, SkipJob, CheckStatus, Confirm, Flip, Charge,
      UseSlot, SlotMove, Rivals, Clock, NoUpload, vars, record, setup

\* Only an upload with all its chunks is complete.
LEMMA StatusFitsStep ==
  ASSUME Typed, Separate, Fits, Untouched', [Next]_vars
  PROVE  StatusFits'
<1>1. ASSUME NEW p \in Post, NEW c \in Chunk, Start(p, c)
      PROVE  StatusFits'
  BY <1>1, AtChunk
  DEF Start, history, record, setup, SetPost, SetRow, Idle, Typed, Separate, PostsApart, RowsApart,
      WorkersApart, Fits, PostsFit, PostFits, WorkersFit, WorkerFits, RowsFit, RowFits, StatusFits,
      Item
<1>2. ASSUME NEW p \in Post, CreateRow(p)
      PROVE  StatusFits'
  BY <1>2, AtChunk
  DEF CreateRow, Exists, history, record, setup, SetPost, SetRow, Typed, Separate, PostsApart, RowsApart,
      WorkersApart, Fits, PostsFit, PostFits, WorkersFit, WorkerFits, RowsFit, RowFits, StatusFits,
      Item
<1>3. ASSUME NEW p \in Post, CreateFileRow(p)
      PROVE  StatusFits'
  BY <1>3, AtChunk
  DEF CreateFileRow, history, setup, SetPost, SetRow, Typed, Separate, PostsApart, RowsApart, WorkersApart,
      Fits, PostsFit, PostFits, WorkersFit, WorkerFits, RowsFit, RowFits, StatusFits, Item
<1>4. ASSUME NEW p \in Post, CreatePending(p)
      PROVE  StatusFits'
  BY <1>4, AtChunk
  DEF CreatePending, Exists, history, record, setup, SetPost, EndPost, SetRow, Idle, Typed, Separate,
      PostsApart, RowsApart, WorkersApart, Fits, PostsFit, PostFits, WorkersFit, WorkerFits,
      RowsFit, RowFits, StatusFits, Item
<1>5. ASSUME NEW p \in Post, CreateFile(p)
      PROVE  StatusFits'
  BY <1>5, AtChunk
  DEF CreateFile, history, setup, SetPost, SetRow, Typed, Separate, PostsApart, RowsApart, WorkersApart,
      Fits, PostsFit, PostFits, WorkersFit, WorkerFits, RowsFit, RowFits, StatusFits, Item
<1>6. ASSUME NEW p \in Post, SendFailed(p)
      PROVE  StatusFits'
  <2>1. /\ completer \in {"flip", "charge"} => FALSE
        /\ status = "complete" => ~mode.single
    BY <1>6, Dropped, AtChunk DEF Fits, StatusFits, Item, Separate, PostsApart, SendFailed,
      SendFileFailed, UpdateFails
  <2>2. \A d \in Chunk : row'[d] = row[d] \/ (row[d].st = "pending" /\ row'[d] = NoRow)
    BY <1>6, Dropped
  <2>3. UNCHANGED <<mode, completer, fallen>> /\ (status' = status \/ (mode.single /\ status' = "gone"))
    BY <1>6, Dropped
  <2>. QED  BY <2>1, <2>2, <2>3, AtChunk DEF Fits, StatusFits, Item, NoRow
<1>7. ASSUME NEW p \in Post, SendFileFailed(p)
      PROVE  StatusFits'
  <2>1. /\ completer \in {"flip", "charge"} => FALSE
        /\ status = "complete" => ~mode.single
    BY <1>7, Dropped, AtChunk DEF Fits, StatusFits, Item, Separate, PostsApart, SendFailed,
      SendFileFailed, UpdateFails
  <2>2. \A d \in Chunk : row'[d] = row[d] \/ (row[d].st = "pending" /\ row'[d] = NoRow)
    BY <1>7, Dropped
  <2>3. UNCHANGED <<mode, completer, fallen>> /\ (status' = status \/ (mode.single /\ status' = "gone"))
    BY <1>7, Dropped
  <2>. QED  BY <2>1, <2>2, <2>3, AtChunk DEF Fits, StatusFits, Item, NoRow
<1>8. ASSUME NEW p \in Post, Update(p)
      PROVE  StatusFits'
  BY <1>8, AtChunk
  DEF Update, history, record, setup, SetPost, SetRow, Typed, Separate, PostsApart, RowsApart, WorkersApart,
      Fits, PostsFit, PostFits, WorkersFit, WorkerFits, RowsFit, RowFits, StatusFits, Item
<1>9. ASSUME NEW p \in Post, UpdateSingle(p)
      PROVE  StatusFits'
  BY <1>9, AtChunk
  DEF UpdateSingle, history, setup, EndPost, SetRow, Idle, Typed, Separate, PostsApart, RowsApart,
      WorkersApart, Fits, PostsFit, PostFits, WorkersFit, WorkerFits, RowsFit, RowFits, StatusFits,
      Item
<1>10. ASSUME NEW w \in Worker, Read(w)
      PROVE  StatusFits'
  <2>1. status' \in {status, "buffer_failed"} /\ UNCHANGED <<mode, row, completer, fallen>>
    BY <1>10 DEF Read, FailJob, history, setup
  <2>2. status' # status => status # "none"
    BY <1>10 DEF Read, FailJob, Exists
  <2>. QED  BY <2>1, <2>2 DEF Fits, StatusFits, Item
<1>11. ASSUME NEW w \in Worker, DispatchFails(w)
      PROVE  StatusFits'
  <2>1. status' \in {status, "buffer_failed"} /\ UNCHANGED <<mode, row, completer, fallen>>
    BY <1>11 DEF DispatchFails, FailJob, history, setup, UseSlot
  <2>2. status' # status => status # "none"
    BY <1>11 DEF DispatchFails, FailJob, Exists
  <2>. QED  BY <2>1, <2>2 DEF Fits, StatusFits, Item
<1>12. ASSUME NEW w \in Worker, Count(w)
      PROVE  StatusFits'
  <2>1. status' \in {status, "buffer_failed"} /\ UNCHANGED <<mode, row, completer, fallen>>
    BY <1>12 DEF Count, FailJob, history, setup
  <2>2. status' # status => status # "none"
    BY <1>12 DEF Count, FailJob, Exists
  <2>. QED  BY <2>1, <2>2 DEF Fits, StatusFits, Item
<1>13. ASSUME NEW w \in Worker, Commit(w)
      PROVE  StatusFits'
  BY <1>13, AtChunk
  DEF Commit, SetRow, history, setup, SetWorker, Typed, Separate, PostsApart, RowsApart, WorkersApart, Fits,
      PostsFit, PostFits, WorkersFit, WorkerFits, RowsFit, RowFits, StatusFits, Item
<1>14. ASSUME Confirm
      PROVE  StatusFits'
  BY <1>14, AtChunk
  DEF Confirm, Exists, history, record, setup, Typed, Separate, PostsApart, RowsApart, WorkersApart, Fits,
      PostsFit, PostFits, WorkersFit, WorkerFits, RowsFit, RowFits, StatusFits, Item
<1>15. ASSUME Flip
      PROVE  StatusFits'
  BY <1>15, AtChunk
  DEF Flip, history, setup, Typed, Separate, PostsApart, RowsApart, WorkersApart, Fits, PostsFit, PostFits,
      WorkersFit, WorkerFits, RowsFit, RowFits, StatusFits, Item
<1>16. ASSUME Charge
      PROVE  StatusFits'
  BY <1>16, AtChunk
  DEF Charge, history, setup, Typed, Separate, PostsApart, RowsApart, WorkersApart, Fits, PostsFit, PostFits,
      WorkersFit, WorkerFits, RowsFit, RowFits, StatusFits, Item
<1>17. ASSUME Restart
      PROVE  StatusFits'
  <2>1. completer' = "idle" /\ UNCHANGED <<mode, status, row, fallen>>
    BY <1>17 DEF Restart, record, setup
  <2>. QED  BY <2>1 DEF Fits, StatusFits, Item
<1>18. ASSUME UNCHANGED <<mode, status, row, completer>> /\ fallen \subseteq fallen'
      PROVE  StatusFits'
  BY <1>18
  DEF Typed, Separate, PostsApart, RowsApart, WorkersApart, Fits, PostsFit, PostFits, WorkersFit,
      WorkerFits, RowsFit, RowFits, StatusFits, Item
<1>19. ASSUME NEW p \in Post, UpdateFails(p)
      PROVE  StatusFits'
  <2>1. /\ completer \in {"flip", "charge"} => FALSE
        /\ status = "complete" => ~mode.single
    BY <1>19, Dropped, AtChunk DEF Fits, StatusFits, Item, Separate, PostsApart, SendFailed,
      SendFileFailed, UpdateFails
  <2>2. \A d \in Chunk : row'[d] = row[d] \/ (row[d].st = "pending" /\ row'[d] = NoRow)
    BY <1>19, Dropped
  <2>3. UNCHANGED <<mode, completer, fallen>> /\ (status' = status \/ (mode.single /\ status' = "gone"))
    BY <1>19, Dropped
  <2>. QED  BY <2>1, <2>2, <2>3, AtChunk DEF Fits, StatusFits, Item, NoRow
<1>20. ASSUME NEW p \in Post, SkipJob(p)
      PROVE  StatusFits'
  <2>1. UNCHANGED <<mode, status, row, completer, fallen>>
    BY <1>20 DEF SkipJob, Strays, record, setup
  <2>. QED  BY <2>1 DEF Fits, StatusFits, Item
<1>21. ASSUME NEW p \in Post, ResendFile(p)
      PROVE  StatusFits'
  <2>1. UNCHANGED <<mode, status, row, completer, fallen>>
    BY <1>21 DEF ResendFile, Strays, record, setup
  <2>. QED  BY <2>1 DEF Fits, StatusFits, Item
<1>22. ASSUME NEW w \in Worker, Resend(w)
      PROVE  StatusFits'
  <2>1. UNCHANGED <<mode, status, row, completer, fallen>>
    BY <1>22 DEF Resend, Strays, record, setup
  <2>. QED  BY <2>1 DEF Fits, StatusFits, Item
<1>23. ASSUME NEW p \in Post, FallBack(p)
      PROVE  StatusFits'
  <2>1. UNCHANGED <<mode, status, row, completer>> /\ fallen \subseteq fallen'
    BY <1>23 DEF FallBack, Falls, record, setup
  <2>. QED  BY <2>1 DEF Fits, StatusFits, Item
<1>24. ASSUME NEW p \in Post, RefuseRow(p)
      PROVE  StatusFits'
  <2>1. UNCHANGED <<mode, status, row, completer>> /\ fallen \subseteq fallen'
    BY <1>24 DEF RefuseRow, Falls, record, setup
  <2>. QED  BY <2>1 DEF Fits, StatusFits, Item
<1>. QED
  BY <1>20, <1>21, <1>22, <1>23, <1>24, <1>19, <1>1, <1>2, <1>3, <1>4, <1>5, <1>6, <1>7, <1>8,
      <1>9, <1>10, <1>11, <1>12, <1>13, <1>14, <1>15,
      <1>16, <1>17, <1>18, NoAbortYet, NotUndone
  DEF history, Next, PostStep, WorkerStep, Write, WriteFile, Enqueue, EnqueueFile, Send, SendFile,
      StartFile, WriteDisk, AddJob, SendAny, CheckStatus, Fetch, Check,
      Dispatch, Remove, Stall, FindStalled,
      history, UseSlot, SlotMove, Rivals, Clock, NoUpload, vars, history, record, setup

-----------------------------------------------------------------------------
(* While no job is taken from its worker.                                  *)

\* Stalled jobs are counted.
LEMMA NoStallYet ==
  ASSUME Typed, [Next]_vars, stalls' = 0
  PROVE  stalls = 0 /\ \A c \in Chunk : ~Stall(c)
<1>1. ASSUME NEW c \in Chunk, Stall(c)
      PROVE  FALSE
  BY <1>1 DEF Stall, Typed
<1>2. ASSUME NEW p \in Post, PostStep(p) \/ StartFile(p) \/ \E c \in Chunk : Start(p, c)
      PROVE  UNCHANGED stalls
  BY <1>2 DEF PostStep, Write, WriteFile, Enqueue, EnqueueFile, Send, SendFile, StartFile, Start,
      WriteDisk, FallBack, SkipJob, ResendFile, UpdateFails, CheckFails, CreateRow, CreateFileRow,
      RefuseRow, AddJob, CreatePending, CreateFile,
      SendAny, SendFailed, SendFileFailed, Update, UpdateSingle, CheckStatus, Undo
<1>3. ASSUME NEW w \in Worker, WorkerStep(w) \/ \E c \in Chunk : Fetch(w, c)
      PROVE  UNCHANGED stalls
  BY <1>3 DEF WorkerStep, Fetch, Check, Read, Dispatch, Resend, DispatchFails, Count, Commit, Remove
<1>4. ASSUME (\E c \in Chunk : FindStalled(c)) \/ Confirm \/ Flip \/ Charge \/ Abort \/ AbortStep \/ Restart
              \/ (\E c \in Caller : SlotMove(c)) \/ Rivals \/ Clock \/ UNCHANGED vars
      PROVE  UNCHANGED stalls
  BY <1>4 DEF FindStalled, Confirm, Flip, Charge, Abort, AbortStep, MarkAborted, DeleteFirst,
      DeleteAgain, Erase, AbortFails, Restart, SlotMove, Rivals, Clock, NoUpload, vars
<1>. QED  BY <1>1, <1>2, <1>3, <1>4 DEF Next

\* No worker works on a job that another one has.
LEMMA OwnedStep ==
  ASSUME Typed, Separate, Fits, Once, Untouched', stalls' = 0, [Next]_vars
  PROVE  Owned'
<1>1. ASSUME NEW p \in Post, NEW c \in Chunk, Start(p, c)
      PROVE  Owned'
  BY <1>1, AtChunk, NoneAssumption
  DEF Start, record, setup, SetPost, SetRow, Idle, Typed, Separate, PostsApart, RowsApart,
      WorkersApart, Fits, PostsFit, PostFits, WorkersFit, WorkerFits, RowsFit, RowFits, Once, Owned
<1>2. ASSUME NEW p \in Post, CreateRow(p)
      PROVE  Owned'
  BY <1>2, AtChunk, NoneAssumption
  DEF CreateRow, Exists, record, setup, SetPost, SetRow, Typed, Separate, PostsApart, RowsApart,
      WorkersApart, Fits, PostsFit, PostFits, WorkersFit, WorkerFits, RowsFit, RowFits, Once, Owned
<1>3. ASSUME NEW p \in Post, CreateFileRow(p)
      PROVE  Owned'
  BY <1>3, AtChunk, NoneAssumption
  DEF CreateFileRow, setup, SetPost, SetRow, Typed, Separate, PostsApart, RowsApart, WorkersApart,
      Fits, PostsFit, PostFits, WorkersFit, WorkerFits, RowsFit, RowFits, Once, Owned
<1>4. ASSUME NEW p \in Post, CreatePending(p)
      PROVE  Owned'
  BY <1>4, AtChunk, NoneAssumption
  DEF CreatePending, Exists, record, setup, SetPost, EndPost, SetRow, Idle, Typed, Separate,
      PostsApart, RowsApart, WorkersApart, Fits, PostsFit, PostFits, WorkersFit, WorkerFits,
      RowsFit, RowFits, Once, Owned
<1>5. ASSUME NEW p \in Post, CreateFile(p)
      PROVE  Owned'
  BY <1>5, AtChunk, NoneAssumption
  DEF CreateFile, setup, SetPost, SetRow, Typed, Separate, PostsApart, RowsApart, WorkersApart,
      Fits, PostsFit, PostFits, WorkersFit, WorkerFits, RowsFit, RowFits, Once, Owned
<1>6. ASSUME NEW p \in Post, SendFailed(p)
      PROVE  Owned'
  <2>1. UNCHANGED <<job, worker>> /\ row[post[p].c].st = "pending" /\ post[p].c \in Chunk
        /\ \A d \in Chunk : d # post[p].c => row'[d] = row[d]
    BY <1>6, Dropped
  <2>2. \A w \in Worker : worker[w].pc # "idle" => worker[w].c \in Chunk
    BY AtChunk
  <2>. QED  BY <2>1, <2>2 DEF Once, Owned
<1>7. ASSUME NEW p \in Post, SendFileFailed(p)
      PROVE  Owned'
  <2>1. UNCHANGED <<job, worker>> /\ row[post[p].c].st = "pending" /\ post[p].c \in Chunk
        /\ \A d \in Chunk : d # post[p].c => row'[d] = row[d]
    BY <1>7, Dropped
  <2>2. \A w \in Worker : worker[w].pc # "idle" => worker[w].c \in Chunk
    BY AtChunk
  <2>. QED  BY <2>1, <2>2 DEF Once, Owned
<1>8. ASSUME NEW p \in Post, Update(p)
      PROVE  Owned'
  BY SMTT(40), <1>8, AtChunk, NoneAssumption
  DEF Update, record, setup, SetPost, SetRow, Typed, Separate, PostsApart, RowsApart, WorkersApart,
      Fits, PostsFit, PostFits, WorkersFit, WorkerFits, RowsFit, RowFits, Once, Owned
<1>9. ASSUME NEW p \in Post, UpdateSingle(p)
      PROVE  Owned'
  BY <1>9, AtChunk, NoneAssumption
  DEF UpdateSingle, setup, EndPost, SetRow, Idle, Typed, Separate, PostsApart, RowsApart,
      WorkersApart, Fits, PostsFit, PostFits, WorkersFit, WorkerFits, RowsFit, RowFits, Once, Owned
<1>10. ASSUME NEW p \in Post, AddJob(p)
      PROVE  Owned'
  BY <1>10, AtChunk, NoneAssumption
  DEF AddJob, NoJob, record, setup, EndPost, Idle, Typed, Separate, PostsApart, RowsApart,
      WorkersApart, Fits, PostsFit, PostFits, WorkersFit, WorkerFits, RowsFit, RowFits, Once, Owned
<1>11. ASSUME NEW c \in Chunk, FindStalled(c)
      PROVE  Owned'
  BY <1>11, AtChunk, NoneAssumption
  DEF FindStalled, TakeBack, record, setup, Typed, Separate, PostsApart, RowsApart, WorkersApart,
      Fits, PostsFit, PostFits, WorkersFit, WorkerFits, RowsFit, RowFits, Once, Owned
<1>12. ASSUME NEW w \in Worker, NEW c \in Chunk, Fetch(w, c)
      PROVE  Owned'
  BY <1>12, AtChunk, NoneAssumption
  DEF Fetch, record, setup, Resting, Typed, Separate, PostsApart, RowsApart, WorkersApart, Fits,
      PostsFit, PostFits, WorkersFit, WorkerFits, RowsFit, RowFits, Once, Owned
<1>13. ASSUME NEW w \in Worker, Check(w)
      PROVE  Owned'
  <2>0. worker[w].pc # "idle" /\ worker[w].c \in Chunk /\ UNCHANGED row
    BY <1>13, AtChunk DEF Check
  <2>1. /\ \A v \in Worker \ {w} : worker'[v] = worker[v]
        /\ \/ worker'[w].pc = "idle" /\ (FinishJob(w) \/ RetryJob(w))
           \/ worker'[w].c = worker[w].c /\ row[worker[w].c].st = "buffered" /\ UNCHANGED job
    BY <1>13, WorkerMoves DEF Check, WorkerPc
  <2>2. \A v \in Worker \ {w} : worker[v].pc # "idle" => job'[worker[v].c] = job[worker[v].c]
    BY <2>1, JobMoves, AtChunk DEF Once, Owned
  <2>. QED  BY <2>0, <2>1, <2>2 DEF Once, Owned
<1>14. ASSUME NEW w \in Worker, Read(w)
      PROVE  Owned'
  <2>0. worker[w].pc # "idle" /\ worker[w].c \in Chunk /\ UNCHANGED row
    BY <1>14, AtChunk DEF Read
  <2>1. /\ \A v \in Worker \ {w} : worker'[v] = worker[v]
        /\ \/ worker'[w].pc = "idle" /\ (FinishJob(w) \/ RetryJob(w))
           \/ worker'[w].c = worker[w].c /\ row[worker[w].c].st = "buffered" /\ UNCHANGED job
    BY <1>14, WorkerMoves DEF Read, FailJob, WorkerPc, Once, Owned
  <2>2. \A v \in Worker \ {w} : worker[v].pc # "idle" => job'[worker[v].c] = job[worker[v].c]
    BY <2>1, JobMoves, AtChunk DEF Once, Owned
  <2>. QED  BY <2>0, <2>1, <2>2 DEF Once, Owned
<1>15. ASSUME NEW w \in Worker, Dispatch(w)
      PROVE  Owned'
  BY <1>15, AtChunk, NoneAssumption
  DEF Dispatch, UseSlot, Sends, Typed, Separate, PostsApart, RowsApart, WorkersApart, Fits,
      PostsFit, PostFits, WorkersFit, WorkerFits, RowsFit, RowFits, Once, Owned
<1>16. ASSUME NEW w \in Worker, DispatchFails(w)
      PROVE  Owned'
  <2>0. worker[w].pc # "idle" /\ worker[w].c \in Chunk /\ UNCHANGED row
    BY <1>16, AtChunk DEF DispatchFails
  <2>1. /\ \A v \in Worker \ {w} : worker'[v] = worker[v]
        /\ \/ worker'[w].pc = "idle" /\ (FinishJob(w) \/ RetryJob(w))
           \/ worker'[w].c = worker[w].c /\ row[worker[w].c].st = "buffered" /\ UNCHANGED job
    BY <1>16, WorkerMoves DEF DispatchFails, FailJob, WorkerPc
  <2>2. \A v \in Worker \ {w} : worker[v].pc # "idle" => job'[worker[v].c] = job[worker[v].c]
    BY <2>1, JobMoves, AtChunk DEF Once, Owned
  <2>. QED  BY <2>0, <2>1, <2>2 DEF Once, Owned
<1>17. ASSUME NEW w \in Worker, Count(w)
      PROVE  Owned'
  <2>0. worker[w].pc # "idle" /\ worker[w].c \in Chunk /\ UNCHANGED row
    BY <1>17, AtChunk DEF Count
  <2>1. /\ \A v \in Worker \ {w} : worker'[v] = worker[v]
        /\ \/ worker'[w].pc = "idle" /\ (FinishJob(w) \/ RetryJob(w))
           \/ worker'[w].c = worker[w].c /\ row[worker[w].c].st = "buffered" /\ UNCHANGED job
    <3>1. CASE row[worker[w].c].st = "none"
      BY <1>17, <3>1, WorkerMoves DEF Count, FailJob
    <3>2. CASE row[worker[w].c].st # "none"
      <4>1. PICK b \in BOOLEAN : worker' = [worker EXCEPT ![w].pc = "commit", ![w].last = b]
        BY <1>17, <3>2 DEF Count
      <4>2. worker[w].pc = "tx" /\ UNCHANGED job
        BY <1>17, <3>2 DEF Count
      <4>. QED  BY <4>1, <4>2, WorkerMoves DEF Once, Owned
    <3>. QED  BY <3>1, <3>2
  <2>2. \A v \in Worker \ {w} : worker[v].pc # "idle" => job'[worker[v].c] = job[worker[v].c]
    BY <2>1, JobMoves, AtChunk DEF Once, Owned
  <2>. QED  BY <2>0, <2>1, <2>2 DEF Once, Owned
<1>18. ASSUME NEW w \in Worker, Commit(w)
      PROVE  Owned'
  BY <1>18, AtChunk, NoneAssumption
  DEF Commit, SetRow, setup, SetWorker, Typed, Separate, PostsApart, RowsApart, WorkersApart, Fits,
      PostsFit, PostFits, WorkersFit, WorkerFits, RowsFit, RowFits, Once, Owned
<1>19. ASSUME NEW w \in Worker, Remove(w)
      PROVE  Owned'
  BY <1>19, AtChunk, NoneAssumption
  DEF Remove, FinishJob, NoJob, record, setup, EndWorker, Resting, Typed, Separate, PostsApart,
      RowsApart, WorkersApart, Fits, PostsFit, PostFits, WorkersFit, WorkerFits, RowsFit, RowFits,
      Once, Owned
<1>20. ASSUME Restart
      PROVE  Owned'
  <2>1. \A w \in Worker : worker'[w].pc = "idle"
    BY <1>20 DEF Restart, Resting
  <2>. QED  BY <2>1 DEF Owned
<1>21. ASSUME UNCHANGED <<mode, row, job, worker>>
      PROVE  Owned'
  BY <1>21
  DEF Typed, Separate, PostsApart, RowsApart, WorkersApart, Fits, PostsFit, PostFits, WorkersFit,
      WorkerFits, RowsFit, RowFits, Once, Owned
<1>22. ASSUME NEW p \in Post, UpdateFails(p)
      PROVE  Owned'
  <2>1. UNCHANGED <<job, worker>> /\ row[post[p].c].st = "pending" /\ post[p].c \in Chunk
        /\ \A d \in Chunk : d # post[p].c => row'[d] = row[d]
    BY <1>22, Dropped
  <2>2. \A w \in Worker : worker[w].pc # "idle" => worker[w].c \in Chunk
    BY AtChunk
  <2>. QED  BY <2>1, <2>2 DEF Once, Owned
<1>. QED
  BY <1>22, <1>1, <1>2, <1>3, <1>4, <1>5, <1>6, <1>7, <1>8, <1>9, <1>10, <1>11, <1>12, <1>13, <1>14, <1>15,
      <1>16, <1>17, <1>18, <1>19, <1>20, <1>21, NoAbortYet, NotUndone, NoStallYet
  DEF Next, PostStep, WorkerStep, Write, WriteFile, Enqueue, EnqueueFile, Send, SendFile,
      StartFile, WriteDisk, FallBack, SkipJob, ResendFile, CheckFails, RefuseRow, SendAny,
      CheckStatus, Undo, Resend, Stall, Confirm,
      Flip, Charge,
      UseSlot, SlotMove, Rivals, Clock, NoUpload, vars, record, setup

\* Who charges finds the owner uncharged.
LEMMA ChargeFitsStep ==
  ASSUME Typed, Separate, Fits, Once, Untouched', stalls' = 0, [Next]_vars
  PROVE  ChargeFits'
<1>0. ASSUME NEW w \in Worker, FailJob(w), worker[w].pc # "idle"
      PROVE  status' = status
  <2>1. job[worker[w].c].st = "active" /\ worker[w].c \in Chunk
    BY <1>0, AtChunk DEF Once, Owned
  <2>2. job[worker[w].c].tries < Attempts /\ job[worker[w].c].tries \in Nat
    BY <2>1, Fields DEF Separate, RowsApart
  <2>. QED  BY <1>0, <2>2, BoundsAssumption DEF FailJob
<1>1. ASSUME NEW p \in Post, CreateFileRow(p)
      PROVE  ChargeFits'
  BY <1>1, AtChunk
  DEF CreateFileRow, setup, SetPost, SetRow, Typed, Separate, PostsApart, RowsApart, WorkersApart,
      Fits, PostsFit, PostFits, WorkersFit, WorkerFits, RowsFit, RowFits, Once, Owned, StatusFits,
      ChargeFits, Item
<1>2. ASSUME NEW p \in Post, CreateFile(p)
      PROVE  ChargeFits'
  BY <1>2, AtChunk
  DEF CreateFile, setup, SetPost, SetRow, Typed, Separate, PostsApart, RowsApart, WorkersApart,
      Fits, PostsFit, PostFits, WorkersFit, WorkerFits, RowsFit, RowFits, Once, Owned, StatusFits,
      ChargeFits, Item
<1>3. ASSUME NEW p \in Post, SendFileFailed(p)
      PROVE  ChargeFits'
  <2>1. UNCHANGED <<charged, completer>> /\ (status' = status \/ (mode.single /\ status' = "gone"))
    BY <1>3, Dropped
  <2>2. mode.single => status # "complete"
    <3>1. row[post[p].c].st = "pending" /\ (mode.single => post[p].c = Whole)
      BY <1>3, Dropped DEF Separate, PostsApart, SendFileFailed, UpdateFails
    <3>. QED  BY <3>1 DEF Fits, StatusFits, Item
  <2>3. completer = "charge" => status # "gone" /\ ~mode.single
    BY <2>2 DEF Once, ChargeFits
  <2>. QED  BY <2>1, <2>2, <2>3 DEF Once, ChargeFits
<1>4. ASSUME NEW p \in Post, UpdateSingle(p)
      PROVE  ChargeFits'
  BY <1>4, AtChunk
  DEF UpdateSingle, setup, EndPost, SetRow, Idle, Typed, Separate, PostsApart, RowsApart,
      WorkersApart, Fits, PostsFit, PostFits, WorkersFit, WorkerFits, RowsFit, RowFits, Once, Owned,
      StatusFits, ChargeFits, Item
<1>5. ASSUME NEW w \in Worker, Read(w)
      PROVE  ChargeFits'
  <2>1. UNCHANGED <<status, charged, completer>>
    BY <1>5, <1>0 DEF Read, history, UseSlot, setup
  <2>. QED  BY <2>1 DEF Once, ChargeFits
<1>6. ASSUME NEW w \in Worker, DispatchFails(w)
      PROVE  ChargeFits'
  <2>1. UNCHANGED <<status, charged, completer>>
    BY <1>6, <1>0 DEF DispatchFails, history, UseSlot, setup
  <2>. QED  BY <2>1 DEF Once, ChargeFits
<1>7. ASSUME NEW w \in Worker, Count(w)
      PROVE  ChargeFits'
  <2>1. UNCHANGED <<status, charged, completer>>
    BY <1>7, <1>0 DEF Count, history, UseSlot, setup
  <2>. QED  BY <2>1 DEF Once, ChargeFits
<1>8. ASSUME NEW w \in Worker, Commit(w)
      PROVE  ChargeFits'
  <2>1. worker[w].c \in Item /\ row[worker[w].c].st = "buffered"
    BY <1>8, AtChunk DEF Commit, Once, Owned, Item, Separate, WorkersApart
  <2>2. mode.single \/ worker[w].last => status # "complete"
    <3>1. CASE mode.single
      BY <2>1, <3>1 DEF Fits, StatusFits
    <3>2. CASE worker[w].last
      BY <1>8, <3>2 DEF Commit, Once, LastFits
    <3>. QED  BY <3>1, <3>2
  <2>. QED  BY <1>8, <2>2 DEF Commit, Once, ChargeFits, Typed
<1>9. ASSUME Confirm
      PROVE  ChargeFits'
  BY <1>9, AtChunk
  DEF Confirm, Exists, record, setup, Typed, Separate, PostsApart, RowsApart, WorkersApart, Fits,
      PostsFit, PostFits, WorkersFit, WorkerFits, RowsFit, RowFits, Once, Owned, StatusFits,
      ChargeFits, Item
<1>10. ASSUME Flip
      PROVE  ChargeFits'
  BY <1>10, AtChunk
  DEF Flip, setup, Typed, Separate, PostsApart, RowsApart, WorkersApart, Fits, PostsFit, PostFits,
      WorkersFit, WorkerFits, RowsFit, RowFits, Once, Owned, StatusFits, ChargeFits, Item
<1>11. ASSUME Charge
      PROVE  ChargeFits'
  BY <1>11, AtChunk
  DEF Charge, setup, Typed, Separate, PostsApart, RowsApart, WorkersApart, Fits, PostsFit, PostFits,
      WorkersFit, WorkerFits, RowsFit, RowFits, Once, Owned, StatusFits, ChargeFits, Item
<1>12. ASSUME Restart
      PROVE  ChargeFits'
  BY <1>12, AtChunk
  DEF Restart, Requeued, NoJob, Resting, Idle, SetAbort, record, setup, Typed, Separate, PostsApart,
      RowsApart, WorkersApart, Fits, PostsFit, PostFits, WorkersFit, WorkerFits, RowsFit, RowFits,
      Once, Owned, StatusFits, ChargeFits, Item
<1>13. ASSUME UNCHANGED <<status, charged, completer>>
      PROVE  ChargeFits'
  BY <1>13
  DEF Typed, Separate, PostsApart, RowsApart, WorkersApart, Fits, PostsFit, PostFits, WorkersFit,
      WorkerFits, RowsFit, RowFits, Once, Owned, StatusFits, ChargeFits, Item
<1>14. ASSUME NEW p \in Post, UpdateFails(p)
      PROVE  ChargeFits'
  <2>1. UNCHANGED <<charged, completer>> /\ (status' = status \/ (mode.single /\ status' = "gone"))
    BY <1>14, Dropped
  <2>2. mode.single => status # "complete"
    <3>1. row[post[p].c].st = "pending" /\ (mode.single => post[p].c = Whole)
      BY <1>14, Dropped DEF Separate, PostsApart, SendFileFailed, UpdateFails
    <3>. QED  BY <3>1 DEF Fits, StatusFits, Item
  <2>3. completer = "charge" => status # "gone" /\ ~mode.single
    BY <2>2 DEF Once, ChargeFits
  <2>. QED  BY <2>1, <2>2, <2>3 DEF Once, ChargeFits
<1>. QED
  BY <1>14, <1>1, <1>2, <1>3, <1>4, <1>5, <1>6, <1>7, <1>8, <1>9, <1>10, <1>11, <1>12, <1>13,
      NoAbortYet, NotUndone,
      NoStallYet
  DEF Next, PostStep, WorkerStep, Write, WriteFile, Enqueue, EnqueueFile, Send, SendFile,
      Start, StartFile, WriteDisk, FallBack, SkipJob, ResendFile, CheckFails, CreateRow, RefuseRow,
      AddJob, CreatePending, SendAny,
      SendFailed, Update, CheckStatus, Undo, Fetch, Check, Dispatch, Resend, Remove, Stall,
      FindStalled,
      UseSlot, SlotMove, Rivals, Clock, NoUpload, vars, record, setup

\* The job that finds the last chunk is the only one.
LEMMA LastFitsStep ==
  ASSUME Typed, Separate, Fits, Once, Untouched', stalls' = 0, [Next]_vars
  PROVE  LastFits'
<1> DEFINE Last(w) == worker[w].pc = "commit" /\ worker[w].last
           Calm == /\ \A w \in Worker : worker'[w].pc = "commit" /\ worker'[w].last => Last(w)
                   /\ status' = "complete" => status = "complete"
<1>1. ASSUME Calm PROVE LastFits'
  BY <1>1 DEF Once, LastFits
<1>2. ASSUME NEW w \in Worker, worker[w].pc = "commit"
      PROVE  worker[w].c \in Item /\ row[worker[w].c].st = "buffered" /\ worker[w].c \in Chunk
  BY <1>2, AtChunk DEF Once, Owned, Item, Separate, WorkersApart
<1>3. ASSUME NEW p \in Post, UpdateSingle(p)
      PROVE  LastFits'
  <2>1. mode.single /\ post[p].pc = "update" /\ UNCHANGED worker
    BY <1>3 DEF UpdateSingle
  <2>2. row[Whole].st = "pending"
    BY <2>1 DEF Separate, PostsApart, Fits, PostsFit, PostFits
  <2>3. \A w \in Worker : worker[w].pc # "commit"
    BY <1>2, <2>1, <2>2 DEF Item
  <2>. QED  BY <2>1, <2>3 DEF LastFits
<1>4. ASSUME Flip
      PROVE  LastFits'
  <2>1. \A w \in Worker : worker[w].pc # "commit"
    BY <1>2, <1>4 DEF Flip, Fits, StatusFits
  <2>. QED  BY <1>4, <2>1 DEF Flip, LastFits
<1>5. ASSUME NEW w \in Worker, Commit(w)
      PROVE  LastFits'
  <2>1. /\ worker'[w].pc = "remove" /\ \A v \in Worker \ {w} : worker'[v] = worker[v]
        /\ worker[w].pc = "commit"
    BY <1>5, WorkerMoves DEF Commit, WorkerPc
  <2>2. CASE ~mode.single /\ ~worker[w].last
    BY <1>1, <1>5, <2>1, <2>2 DEF Commit
  <2>3. CASE worker[w].last
    BY <2>1, <2>3 DEF Once, LastFits
  <2>4. CASE mode.single
    <3>1. \A v \in Worker \ {w} : worker[v].pc # "commit"
      BY <2>1, <2>4 DEF Once, Owned, Separate, WorkersApart
    <3>. QED  BY <2>1, <3>1 DEF LastFits
  <2>. QED  BY <2>2, <2>3, <2>4
<1>6. ASSUME NEW w \in Worker, Count(w)
      PROVE  LastFits'
  <2> DEFINE last == {d \in Item : d = worker[w].c \/ row[d].st \in {"complete", "pending"}} = Item /\ status # "complete"
  <2>1. worker[w].pc = "tx" /\ worker[w].c \in Chunk /\ row[worker[w].c].st = "buffered"
        /\ \A v \in Worker : worker[v].pc = "commit" => worker[v].c # worker[w].c
    BY <1>6, AtChunk DEF Count, Once, Owned
  <2>2. worker' = [worker EXCEPT ![w].pc = "commit", ![w].last = last] /\ UNCHANGED status
    BY <1>6, <2>1 DEF Count
  <2>3. /\ last => status # "complete"
        /\ last => \A d \in Item \ {worker[w].c} : row[d].st \in {"complete", "pending"}
        /\ last \in BOOLEAN
    OBVIOUS
  <2> HIDE DEF last
  <2>4. /\ \A v \in Worker \ {w} : worker'[v] = worker[v]
        /\ worker'[w].pc = "commit" /\ worker'[w].last = last
    BY <2>2, <2>3, WorkerMoves
  <2>5. last => \A v \in Worker \ {w} : worker[v].pc # "commit"
    BY <1>2, <2>1, <2>3
  <2>. QED  BY ZenonT(60), <2>2, <2>3, <2>4, <2>5 DEF Once, LastFits
<1>7. ASSUME NEW w \in Worker, Check(w) \/ Read(w) \/ Dispatch(w) \/ DispatchFails(w) \/ Remove(w) \/ \E c \in Chunk : Fetch(w, c)
      PROVE  LastFits'
  <2>1. /\ \A v \in Worker \ {w} : worker'[v] = worker[v]
        /\ worker'[w].pc # "commit"
    <3>1. CASE \E c \in Chunk : Fetch(w, c)
      BY <3>1 DEF Fetch, Resting, Typed
    <3>2. CASE Check(w) \/ Read(w)
      BY <3>2, WorkerMoves DEF Check, Read, FailJob, WorkerPc
    <3>3. CASE DispatchFails(w) \/ Remove(w)
      BY <3>3, WorkerMoves DEF DispatchFails, Remove, FailJob
    <3>4. CASE Dispatch(w)
      BY <3>4, WorkerMoves DEF Dispatch
    <3>. QED  BY <1>7, <3>1, <3>2, <3>3, <3>4
  <2>2. status' \in {status, "buffer_failed"}
    BY <1>7 DEF Check, Read, Dispatch, DispatchFails, Remove, Fetch, FailJob, record, setup
  <2>. QED  BY <1>1, <2>1, <2>2
<1>8. ASSUME Restart
      PROVE  LastFits'
  BY <1>8 DEF Restart, Resting, LastFits
<1>9. ASSUME UNCHANGED worker, status' = status \/ status' # "complete"
      PROVE  LastFits'
  BY <1>1, <1>9
<1>10. ASSUME NEW p \in Post, SendFailed(p) \/ SendFileFailed(p) \/ UpdateFails(p)
      PROVE  LastFits'
  BY <1>9, <1>10, Dropped
<1>11. ASSUME NEW p \in Post, PostStep(p) \/ StartFile(p) \/ \E c \in Chunk : Start(p, c)
      PROVE  LastFits'
  BY <1>3, <1>9, <1>10, <1>11
  DEF PostStep, Write, WriteFile, Enqueue, EnqueueFile, Send, SendFile, Start, StartFile, WriteDisk, FallBack,
      SkipJob, ResendFile, CheckFails, CreateRow, CreateFileRow, RefuseRow, AddJob, CreatePending,
      CreateFile, SendAny, Update,
      CheckStatus, Undo, record, setup
<1>12. ASSUME (\E w \in Worker : Resend(w)) \/ (\E c \in Chunk : FindStalled(c)) \/ Confirm \/ Charge
              \/ (\E c \in Caller : SlotMove(c)) \/ Rivals \/ Clock \/ UNCHANGED vars
      PROVE  LastFits'
  BY <1>9, <1>12 DEF Resend, FindStalled, Confirm, Charge, SlotMove, Rivals, Clock, NoUpload, vars,
      record, setup
<1>. QED
  BY <1>4, <1>5, <1>6, <1>7, <1>8, <1>11, <1>12, NoAbortYet, NoStallYet DEF Next, WorkerStep

-----------------------------------------------------------------------------
(* While the chunks are sent directly and the core does not restart.       *)

DirectStep ==
  \/ \E p \in Post :
       \/ \E c \in Chunk : Start(p, c)
       \/ CreatePending(p) \/ SendAny(p) \/ SendFailed(p) \/ Update(p) \/ UpdateFails(p)
       \/ CheckStatus(p) \/ CheckFails(p) \/ Undo(p)
  \/ Confirm \/ Flip \/ Charge \/ Abort \/ AbortStep
  \/ UNCHANGED NoUpload

\* Then no job runs, and no temp file is written.
LEMMA DirectSteps ==
  ASSUME Typed, Separate, [Next]_vars, Direct'
  PROVE  Direct /\ DirectStep
<1>1. mode' = mode
  <2>1. ASSUME NEW p \in Post, PostStep(p) \/ StartFile(p) \/ \E c \in Chunk : Start(p, c)
        PROVE  UNCHANGED mode
    BY <2>1 DEF PostStep, Write, WriteFile, Enqueue, EnqueueFile, Send, SendFile, StartFile, Start,
        WriteDisk, FallBack, SkipJob, ResendFile, UpdateFails, CheckFails, CreateRow,
      CreateFileRow, RefuseRow, AddJob, CreatePending, CreateFile,
        SendAny, SendFailed, SendFileFailed, Update, UpdateSingle, CheckStatus, Undo, record, setup
  <2>2. ASSUME NEW w \in Worker, WorkerStep(w) \/ \E c \in Chunk : Fetch(w, c)
        PROVE  UNCHANGED mode
    BY <2>2 DEF WorkerStep, Fetch, Check, Read, Dispatch, Resend, DispatchFails, Count, Commit,
        Remove, record, setup, UseSlot
  <2>3. ASSUME (\E c \in Chunk : Stall(c) \/ FindStalled(c)) \/ Confirm \/ Flip \/ Charge \/ Abort \/ AbortStep
                \/ Restart \/ (\E c \in Caller : SlotMove(c)) \/ Rivals \/ Clock \/ UNCHANGED vars
        PROVE  UNCHANGED mode
    BY <2>3 DEF Stall, FindStalled, Confirm, Flip, Charge, Abort, AbortStep, MarkAborted, DeleteFirst,
        DeleteAgain, Erase, AbortFails, Restart, SlotMove, Rivals, Clock, NoUpload, vars, record, setup
  <2>. QED  BY <2>1, <2>2, <2>3 DEF Next
<1>2. ~mode.buffer /\ ~mode.single
  BY <1>1 DEF Direct
<1>3. ~Restart
  <2>1. restarts \in Nat
    BY DEF Typed
  <2>. QED  BY <2>1 DEF Direct, Restart
<1>4. /\ \A w \in Worker : worker[w].pc = "idle"
      /\ \A c \in Chunk : job[c].st = "none"
      /\ \A p \in Post : post[p].pc \notin {"write", "row", "enqueue"}
  BY <1>2 DEF Separate, PostsApart, RowsApart, WorkersApart
<1>5. \A w \in Worker : ~WorkerStep(w) /\ \A c \in Chunk : ~Fetch(w, c)
  BY <1>4 DEF WorkerStep, Check, Read, Dispatch, Resend, DispatchFails, Count, Commit, Remove, Fetch
<1>6. \A c \in Chunk : ~Stall(c) /\ ~FindStalled(c)
  BY <1>4 DEF Stall, FindStalled
<1>7. \A p \in Post : /\ ~StartFile(p) /\ ~WriteDisk(p) /\ ~FallBack(p) /\ ~CreateRow(p) /\ ~CreateFileRow(p)
                      /\ ~RefuseRow(p) /\ ~AddJob(p) /\ ~CreateFile(p) /\ ~SendFileFailed(p)
                      /\ ~UpdateSingle(p) /\ ~SkipJob(p) /\ ~ResendFile(p)
  BY <1>2, <1>4
  DEF StartFile, WriteDisk, FallBack, CreateRow, CreateFileRow, RefuseRow, AddJob, CreateFile,
                    SendFileFailed, UpdateSingle, SkipJob, ResendFile
<1>8. DirectStep
  BY <1>3, <1>5, <1>6, <1>7
 
  DEF DirectStep, Next, PostStep, Write, WriteFile, Enqueue, EnqueueFile, Send, SendFile, SlotMove,
      Rivals, Clock,
      NoUpload, vars, record, setup
<1>9. restarts' = restarts
  BY <1>8
  DEF DirectStep, AbortStep, Start, UpdateFails, CheckFails, CreatePending, SendAny, SendFailed,
      Update, CheckStatus, Undo,
      Confirm, Flip, Charge, Abort, MarkAborted, DeleteFirst, DeleteAgain, Erase, AbortFails, NoUpload
<1>. QED  BY <1>2, <1>8, <1>9 DEF Direct

\* A request gives its row the message it holds.
LEMMA PostsTracedStep ==
  ASSUME Typed, Separate, Traced, Direct', [Next]_vars
  PROVE  PostsTraced'
<1>1. ASSUME NEW p \in Post, NEW c \in Chunk, Start(p, c)
      PROVE  PostsTraced'
  BY <1>1, AtChunk
  DEF Start, record, setup, SetPost, SetRow, Idle, Typed, Separate, PostsApart, RowsApart, Traced,
      PostsTraced, AbortTraced
<1>2. ASSUME NEW p \in Post, CreatePending(p)
      PROVE  PostsTraced'
  BY <1>2, AtChunk
  DEF CreatePending, Exists, record, setup, SetPost, EndPost, SetRow, Idle, Typed, Separate,
      PostsApart, RowsApart, Traced, PostsTraced, AbortTraced
<1>3. ASSUME NEW p \in Post, SendAny(p)
      PROVE  PostsTraced'
  BY <1>3, AtChunk
  DEF SendAny, Sends, record, setup, SetPost, Typed, Separate, PostsApart, RowsApart, Traced,
      PostsTraced, AbortTraced
<1>4. ASSUME NEW p \in Post, SendFailed(p)
      PROVE  PostsTraced'
  <2>1. post[p].c \in Chunk /\ \A q \in Post \ {p} : post'[q] = post[q] /\ (post[q].pc # "idle" => post[q].c # post[p].c)
    BY <1>4, AtChunk DEF SendFailed, EndPost, Typed, Separate, PostsApart
  <2>2. post'[p].pc = "idle" /\ \A d \in Chunk : d # post[p].c => row'[d] = row[d]
    BY <1>4, <2>1 DEF SendFailed, EndPost, Idle, SetRow, Typed
  <2>3. UNCHANGED status /\ \A q \in Post : post[q].pc # "idle" => post[q].c \in Chunk
    BY <1>4, AtChunk DEF SendFailed, record
  <2>. QED  BY <2>1, <2>2, <2>3 DEF Traced, PostsTraced
<1>5. ASSUME NEW p \in Post, Update(p)
      PROVE  PostsTraced'
  BY <1>5, AtChunk
  DEF Update, record, setup, SetPost, SetRow, Typed, Separate, PostsApart, RowsApart, Traced,
      PostsTraced, AbortTraced
<1>6. ASSUME NEW p \in Post, CheckStatus(p)
      PROVE  PostsTraced'
  BY <1>6, AtChunk
  DEF CheckStatus, record, setup, SetPost, EndPost, Idle, Typed, Separate, PostsApart, RowsApart,
      Traced, PostsTraced, AbortTraced
<1>7. ASSUME NEW p \in Post, Undo(p)
      PROVE  PostsTraced'
  <2>1. (\A q \in Post \ {p} : post'[q] = post[q]) /\ post'[p].pc = "idle" /\ UNCHANGED <<row, status>>
    BY <1>7, DirectSteps DEF Undo, EndPost, Idle, record, Typed, Direct
  <2>. QED  BY <2>1 DEF Traced, PostsTraced
<1>8. ASSUME Flip
      PROVE  PostsTraced'
  BY <1>8, AtChunk
  DEF Flip, setup, Typed, Separate, PostsApart, RowsApart, Traced, PostsTraced, AbortTraced
<1>9. ASSUME MarkAborted
      PROVE  PostsTraced'
  BY <1>9, AtChunk
  DEF MarkAborted, SetAbort, setup, Typed, Separate, PostsApart, RowsApart, Traced, PostsTraced,
      AbortTraced
<1>10. ASSUME Erase
      PROVE  PostsTraced'
  BY <1>10, AtChunk
  DEF Erase, SetAbort, NoRow, setup, Typed, Separate, PostsApart, RowsApart, Traced, PostsTraced,
      AbortTraced
<1>11. ASSUME UNCHANGED <<row, post, status>>
      PROVE  PostsTraced'
  BY <1>11 DEF Typed, Separate, PostsApart, RowsApart, Traced, PostsTraced, AbortTraced
<1>12. ASSUME NEW p \in Post, UpdateFails(p)
      PROVE  PostsTraced'
  <2>1. (\A q \in Post \ {p} : post'[q] = post[q]) /\ post'[p].pc = "idle" /\ UNCHANGED <<row, status>>
    BY <1>12, DirectSteps DEF UpdateFails, EndPost, Idle, record, Typed, Direct
  <2>. QED  BY <2>1 DEF Traced, PostsTraced
<1>13. ASSUME NEW p \in Post, CheckFails(p)
      PROVE  PostsTraced'
  <2>1. (\A q \in Post \ {p} : post'[q] = post[q]) /\ post'[p].pc = "idle" /\ UNCHANGED <<row, status>>
    BY <1>13, DirectSteps DEF CheckFails, EndPost, Idle, record, Typed, Direct
  <2>. QED  BY <2>1 DEF Traced, PostsTraced
<1>. QED
  BY <1>12, <1>13, <1>1, <1>2, <1>3, <1>4, <1>5, <1>6, <1>7, <1>8, <1>9, <1>10, <1>11, DirectSteps
  DEF DirectStep, AbortStep, Confirm, Charge, Abort, DeleteFirst, DeleteAgain, AbortFails, record, setup, NoUpload

LEMMA HeldStays ==
  ASSUME UNCHANGED post
  PROVE  \A c, m : Held(c, m) <=> Held(c, m)'
BY DEF Held

LEMMA PostOf ==
  ASSUME NEW p \in Post, NEW c, NEW m, post'[p].pc = "update", post'[p].c = c, post'[p].msg = m
  PROVE  \E q \in Post : post'[q].pc \in {"update", "status", "undo"} /\ post'[q].c = c /\ post'[q].msg = m
OBVIOUS

\* No message is forgotten.
LEMMA AllTracedStep ==
  ASSUME Typed, Separate, Traced, Direct', [Next]_vars
  PROVE  AllTraced'
<1>1. ASSUME NEW p \in Post, NEW c \in Chunk, Start(p, c)
      PROVE  AllTraced'
  <2>1. post[p].pc = "idle" /\ (\A q \in Post \ {p} : post'[q] = post[q]) /\ UNCHANGED <<aborter, sent, stray, status>>
    BY <1>1 DEF Start, SetPost, Idle, Typed, history, record
  <2>2. \A d \in Chunk : row'[d].msg = row[d].msg \/ row[d].msg = 0
    BY <1>1 DEF Start, SetRow, Typed, Separate, RowsApart
  <2>3. \A d \in Chunk : \A m \in sent[d] : m # 0 /\ (Held(d, m) => Held(d, m)')
    BY <2>1 DEF Held, Typed
  <2>. QED  BY <2>1, <2>2, <2>3 DEF Traced, AllTraced
<1>2. ASSUME NEW p \in Post, CreatePending(p)
      PROVE  AllTraced'
  <2>1. post[p].pc = "create" /\ row[post[p].c].msg = 0 /\ post[p].c \in Chunk
    BY <1>2, AtChunk DEF CreatePending, Traced, PostsTraced
  <2>2. \A c \in Chunk : row'[c].msg = row[c].msg
    BY <1>2, <2>1 DEF CreatePending, SetRow, Typed
  <2>3. \A q \in Post \ {p} : post'[q] = post[q]
    BY <1>2 DEF CreatePending, SetPost, EndPost, Typed
  <2>4. \A c \in Chunk : \A m \in sent[c] : Held(c, m) => Held(c, m)'
    BY <2>1, <2>3 DEF Held
  <2>. QED  BY <1>2, <2>2, <2>4 DEF CreatePending, Traced, AllTraced, history, record
<1>3. ASSUME NEW p \in Post, SendAny(p)
      PROVE  AllTraced'
  <2>1. PICK m \in Msg : Sends(post[p].c, m) /\ SetPost(p, "update", post[p].c, m)
    BY <1>3 DEF SendAny
  <2>2. /\ post[p].pc = "send" /\ post[p].c \in Chunk /\ (\A q \in Post \ {p} : post'[q] = post[q])
        /\ post'[p] = [pc |-> "update", c |-> post[p].c, msg |-> m] /\ UNCHANGED <<aborter, row, stray, status>>
    BY <1>3, <2>1, AtChunk DEF SendAny, SetPost, Typed, history, record
  <2>3. \A d \in Chunk : \A n \in sent'[d] : n \in sent[d] \/ (d = post[p].c /\ n = m)
    BY <2>1, <2>2 DEF Sends, Typed
  <2>4. ASSUME NEW d, NEW n, d = post[p].c, n = m PROVE Held(d, n)'
    <3>1. post'[p].pc = "update" /\ post'[p].c = d /\ post'[p].msg = n
      BY <2>2, <2>4
    <3>. QED  BY <3>1, PostOf DEF Held
  <2>5. \A d \in Chunk : \A n \in sent[d] : Held(d, n) => Held(d, n)'
    BY <2>2 DEF Held
  <2>. QED  BY <2>2, <2>3, <2>4, <2>5 DEF Traced, AllTraced
<1>4. ASSUME NEW p \in Post, SendFailed(p)
      PROVE  AllTraced'
  <2>1. /\ post[p].c \in Chunk /\ \A q \in Post \ {p} : post'[q] = post[q]
        /\ UNCHANGED aborter /\ status' = status
    BY <1>4, AtChunk, DirectSteps DEF SendFailed, EndPost, record, Typed, Direct
  <2>2. \A c \in Chunk : row'[c].msg = row[c].msg \/ row[c].msg = 0
    BY <1>4, <2>1 DEF SendFailed, SetRow, Typed, Direct, Traced, PostsTraced
  <2>3. \A c \in Chunk : \A m \in sent'[c] :
          /\ m # 0 /\ (m \in sent[c] \/ <<c, m>> \in stray')
          /\ (<<c, m>> \in stray => <<c, m>> \in stray')
          /\ post[p].pc \in {"update", "status", "undo"} /\ c = post[p].c /\ m = post[p].msg => <<c, m>> \in stray'
    BY <1>4, <2>1, Unseen DEF SendFailed, Strays, Typed
  <2>4. \A c \in Chunk : \A m \in sent'[c] : Held(c, m) => Held(c, m)' \/ <<c, m>> \in stray'
    BY <2>1, <2>3 DEF Held
  <2>. QED  BY <2>1, <2>2, <2>3, <2>4 DEF Traced, AllTraced
<1>5. ASSUME NEW p \in Post, Update(p)
      PROVE  AllTraced'
  <2>1. post[p].pc = "update" /\ row[post[p].c].msg = 0 /\ post[p].c \in Chunk
    BY <1>5, AtChunk DEF Update, Traced, PostsTraced
  <2>2. \A c \in Chunk : row'[c].msg = row[c].msg \/ row[c].msg = 0
    BY <1>5, <2>1 DEF Update, SetRow, Typed
  <2>3. /\ \A q \in Post \ {p} : post'[q] = post[q]
        /\ post'[p].pc \in {"status", "undo"} /\ post'[p].c = post[p].c /\ post'[p].msg = post[p].msg
    BY <1>5 DEF Update, SetPost, Typed
  <2>4. \A c \in Chunk : \A m \in sent[c] : Held(c, m) => Held(c, m)'
    BY <2>1, <2>3 DEF Held
  <2>5. \A c \in Chunk : \A m \in sent[c] : m # 0
    BY DEF Typed
  <2>. QED  BY <1>5, <2>2, <2>4, <2>5 DEF Update, Traced, AllTraced, history, record
<1>6. ASSUME NEW p \in Post, CheckStatus(p)
      PROVE  AllTraced'
  <2>1. /\ post[p].pc = "status" /\ post[p].c \in Chunk /\ (\A q \in Post \ {p} : post'[q] = post[q])
        /\ UNCHANGED <<aborter, row, sent, stray, status>>
    BY <1>6, AtChunk DEF CheckStatus, SetPost, EndPost, Typed, history, record
  <2>2. CASE status \in {"aborted", "gone"}
    <3>1. post'[p].pc = "undo" /\ post'[p].c = post[p].c /\ post'[p].msg = post[p].msg
      BY <1>6, <2>2 DEF CheckStatus, SetPost, Typed
    <3>2. \A d \in Chunk : \A n \in sent[d] : Held(d, n) => Held(d, n)'
      BY <2>1, <3>1 DEF Held
    <3>. QED  BY <2>1, <3>2 DEF Traced, AllTraced
  <2>3. CASE status \notin {"aborted", "gone"}
    <3>1. row[post[p].c].msg = post[p].msg /\ aborter.pc # "erase"
      BY <2>1, <2>3 DEF Traced, PostsTraced, AbortTraced
    <3>2. \A d \in Chunk : \A n \in sent[d] : Held(d, n) => Held(d, n)' \/ (d = post[p].c /\ n = post[p].msg)
      BY <2>1 DEF Held
    <3>. QED  BY <2>1, <2>3, <3>1, <3>2 DEF Traced, AllTraced
  <2>. QED  BY <2>2, <2>3
<1>7. ASSUME NEW p \in Post, Undo(p)
      PROVE  AllTraced'
  <2>1. /\ post[p].c \in Chunk /\ \A q \in Post \ {p} : post'[q] = post[q]
        /\ UNCHANGED aborter /\ status' = status
    BY <1>7, AtChunk, DirectSteps DEF Undo, EndPost, record, Typed, Direct
  <2>2. \A c \in Chunk : row'[c].msg = row[c].msg \/ row[c].msg = 0
    BY <1>7, <2>1 DEF Undo, SetRow, Typed, Direct, Traced, PostsTraced
  <2>3. \A c \in Chunk : \A m \in sent'[c] :
          /\ m # 0 /\ (m \in sent[c] \/ <<c, m>> \in stray')
          /\ (<<c, m>> \in stray => <<c, m>> \in stray')
          /\ post[p].pc \in {"update", "status", "undo"} /\ c = post[p].c /\ m = post[p].msg => <<c, m>> \in stray'
    <3>1. \/ sent' = [sent EXCEPT ![post[p].c] = @ \ {post[p].msg}] /\ UNCHANGED stray
          \/ stray' = stray \cup {<<post[p].c, post[p].msg>>} /\ UNCHANGED sent
      BY <1>7 DEF Undo, Strays, history
    <3>2. \A c \in Chunk : 0 \notin sent[c]
      BY DEF Typed
    <3>. QED  BY <2>1, <3>1, <3>2 DEF Typed
  <2>4. \A c \in Chunk : \A m \in sent'[c] : Held(c, m) => Held(c, m)' \/ <<c, m>> \in stray'
    BY <2>1, <2>3 DEF Held
  <2>. QED  BY <2>1, <2>2, <2>3, <2>4 DEF Traced, AllTraced
<1>8. ASSUME Flip
      PROVE  AllTraced'
  <2>1. UNCHANGED <<row, post, aborter, sent, stray>> /\ (status' = status \/ status' # "gone")
    BY <1>8 DEF Flip, history
  <2>. QED  BY <2>1, HeldStays DEF Traced, AllTraced, AbortTraced
<1>9. ASSUME Abort
      PROVE  AllTraced'
  <2>1. UNCHANGED <<row, post, status, sent, stray>> /\ aborter'.pc = "mark"
    BY <1>9 DEF Abort, SetAbort, history, record
  <2>. QED  BY <2>1, HeldStays DEF Traced, AllTraced, AbortTraced
<1>10. ASSUME MarkAborted
      PROVE  AllTraced'
  <2>1. UNCHANGED <<row, post, sent, stray>> /\ aborter.pc = "mark" /\ aborter'.pc = "first" /\ status' # "gone"
    BY <1>10 DEF MarkAborted, SetAbort, history
  <2>. QED  BY <2>1, HeldStays DEF Traced, AllTraced, AbortTraced
<1>11. ASSUME DeleteFirst
      PROVE  AllTraced'
  <2>1. UNCHANGED <<row, post, status>> /\ aborter'.pc = "again"
    BY <1>11 DEF DeleteFirst, SetAbort, record
  <2>2. \A c \in Chunk : \A m \in sent'[c] : m \in sent[c] /\ (<<c, m>> \in stray => <<c, m>> \in stray')
    BY <1>11, Deleted DEF DeleteFirst
  <2>3. \A c \in Chunk : \A m : Held(c, m) => Held(c, m)'
    BY <2>1 DEF Held
  <2>4. aborter.pc = "first"
    BY <1>11 DEF DeleteFirst
  <2>. QED  BY <2>1, <2>2, <2>3, <2>4 DEF Traced, AllTraced
<1>12. ASSUME DeleteAgain
      PROVE  AllTraced'
  <2>1. UNCHANGED <<row, post, status>> /\ aborter.pc = "again"
    BY <1>12 DEF DeleteAgain, record
  <2>2. \A c \in Chunk : \A m \in sent'[c] :
          /\ m \in sent[c] /\ (<<c, m>> \in stray => <<c, m>> \in stray')
          /\ <<c, m>> \in Messages \ aborter.del => <<c, m>> \in stray'
    BY <1>12, Deleted DEF DeleteAgain
  <2>3. \A c \in Chunk : row[c].msg # 0 => <<c, row[c].msg>> \in Messages
    BY DEF Messages
  <2>4. \A c \in Chunk : \A m \in sent[c] : m # 0
    BY DEF Typed
  <2>5. ASSUME NEW c \in Chunk, NEW m \in sent'[c]
        PROVE  Held(c, m) \/ <<c, m>> \in stray'
    <3>1. CASE row[c].msg = m
      BY <2>1, <2>2, <2>3, <2>4, <2>5, <3>1 DEF Traced, AbortTraced
    <3>2. CASE row[c].msg # m
      BY <2>2, <2>5, <3>2 DEF Traced, AllTraced
    <3>. QED  BY <3>1, <3>2
  <2>6. \A c \in Chunk : \A m : Held(c, m) => Held(c, m)'
    BY <2>1 DEF Held
  <2>. QED  BY <2>5, <2>6 DEF AllTraced
<1>13. ASSUME Erase
      PROVE  AllTraced'
  <2>1. UNCHANGED <<post, sent, stray>> /\ aborter.pc = "erase"
    BY <1>13 DEF Erase, history
  <2>. QED  BY <2>1, HeldStays DEF Traced, AllTraced, AbortTraced
<1>14. ASSUME UNCHANGED <<row, post, status, sent, aborter, stray>>
      PROVE  AllTraced'
  BY <1>14, HeldStays DEF Traced, AllTraced
<1>15. ASSUME NEW p \in Post, UpdateFails(p)
      PROVE  AllTraced'
  <2>1. /\ post[p].c \in Chunk /\ \A q \in Post \ {p} : post'[q] = post[q]
        /\ UNCHANGED aborter /\ status' = status
    BY <1>15, AtChunk, DirectSteps DEF UpdateFails, EndPost, record, Typed, Direct
  <2>2. \A c \in Chunk : row'[c].msg = row[c].msg \/ row[c].msg = 0
    BY <1>15, <2>1, DirectSteps DEF UpdateFails, SetRow, Typed, Direct, Traced, PostsTraced
  <2>3. \A c \in Chunk : \A m \in sent'[c] :
          /\ m # 0 /\ (m \in sent[c] \/ <<c, m>> \in stray')
          /\ (<<c, m>> \in stray => <<c, m>> \in stray')
          /\ post[p].pc \in {"update", "status", "undo"} /\ c = post[p].c /\ m = post[p].msg => <<c, m>> \in stray'
    BY <1>15, <2>1, Unseen DEF UpdateFails, Strays, Typed
  <2>4. \A c \in Chunk : \A m \in sent'[c] : Held(c, m) => Held(c, m)' \/ <<c, m>> \in stray'
    BY <2>1, <2>3 DEF Held
  <2>. QED  BY <2>1, <2>2, <2>3, <2>4 DEF Traced, AllTraced
<1>16. ASSUME NEW p \in Post, CheckFails(p)
      PROVE  AllTraced'
  <2>1. /\ post[p].c \in Chunk /\ \A q \in Post \ {p} : post'[q] = post[q]
        /\ UNCHANGED aborter /\ status' = status
    BY <1>16, AtChunk, DirectSteps DEF CheckFails, EndPost, record, Typed, Direct
  <2>2. \A c \in Chunk : row'[c].msg = row[c].msg \/ row[c].msg = 0
    BY <1>16, <2>1 DEF CheckFails, SetRow, Typed, Direct, Traced, PostsTraced
  <2>3. \A c \in Chunk : \A m \in sent'[c] :
          /\ m # 0 /\ (m \in sent[c] \/ <<c, m>> \in stray')
          /\ (<<c, m>> \in stray => <<c, m>> \in stray')
          /\ post[p].pc \in {"update", "status", "undo"} /\ c = post[p].c /\ m = post[p].msg => <<c, m>> \in stray'
    BY <1>16, <2>1, Unseen DEF CheckFails, Strays, Typed
  <2>4. \A c \in Chunk : \A m \in sent'[c] : Held(c, m) => Held(c, m)' \/ <<c, m>> \in stray'
    BY <2>1, <2>3 DEF Held
  <2>. QED  BY <2>1, <2>2, <2>3, <2>4 DEF Traced, AllTraced
<1>17. ASSUME AbortFails
      PROVE  AllTraced'
  <2>1. UNCHANGED <<row, post, status, sent, stray>> /\ aborter'.pc = "stopped"
    BY <1>17 DEF AbortFails, SetAbort, history, record
  <2>. QED  BY <2>1, HeldStays DEF Traced, AllTraced, AbortTraced
<1>. QED
  BY <1>17, <1>15, <1>16, <1>1, <1>2, <1>3, <1>4, <1>5, <1>6, <1>7, <1>8, <1>9, <1>10, <1>11,
      <1>12, <1>13, <1>14,
      DirectSteps
  DEF DirectStep, AbortStep, Confirm, Charge, history, record, setup, NoUpload

\* The record is aborted until it is erased.
LEMMA AbortTracedStep ==
  ASSUME Typed, Separate, Traced, Direct', [Next]_vars
  PROVE  AbortTraced'
<1>1. ASSUME Flip
      PROVE  AbortTraced'
  <2>1. UNCHANGED <<row, aborter, sent, stray>> /\ (status' = status \/ (status # "aborted" /\ status' # "gone"))
    BY <1>1 DEF Flip, history
  <2>. QED  BY <2>1 DEF Traced, AbortTraced
<1>2. ASSUME Abort
      PROVE  AbortTraced'
  <2>1. UNCHANGED <<status, row>> /\ status # "gone" /\ aborter'.pc = "mark" /\ aborter'.del = Messages
    BY <1>2 DEF Abort, SetAbort, record, Exists
  <2>2. \A c \in Chunk, m \in Msg : <<c, m>> \in Messages => row[c].msg = m /\ m # 0
    BY DEF Messages
  <2>. QED  BY <2>1, <2>2 DEF AbortTraced
<1>3. ASSUME MarkAborted
      PROVE  AbortTraced'
  <2>1. UNCHANGED row /\ status' = "aborted" /\ aborter.pc = "mark" /\ aborter'.pc = "first" /\ aborter'.del = aborter.del
    BY <1>3 DEF MarkAborted, SetAbort
  <2>. QED  BY <2>1 DEF Traced, AbortTraced
<1>4. ASSUME DeleteFirst
      PROVE  AbortTraced'
  <2>1. UNCHANGED <<status, row>> /\ aborter.pc = "first" /\ aborter'.pc = "again" /\ aborter'.del = aborter.del
    BY <1>4 DEF DeleteFirst, SetAbort, record
  <2>2. \A c \in Chunk : \A m \in sent'[c] : <<c, m>> \in aborter.del => <<c, m>> \in stray'
    BY <1>4, Deleted DEF DeleteFirst
  <2>. QED  BY <2>1, <2>2 DEF Traced, AbortTraced
<1>5. ASSUME DeleteAgain
      PROVE  AbortTraced'
  <2>1. UNCHANGED status /\ aborter.pc = "again" /\ aborter'.pc = "erase"
    BY <1>5 DEF DeleteAgain, SetAbort, record
  <2>. QED  BY <2>1 DEF Traced, AbortTraced
<1>6. ASSUME Erase
      PROVE  AbortTraced'
  <2>1. aborter'.pc = "stopped"
    BY <1>6 DEF Erase, SetAbort
  <2>. QED  BY <2>1 DEF AbortTraced
<1>7. ASSUME UNCHANGED <<status, aborter, row, sent, stray>>
      PROVE  AbortTraced'
  BY <1>7 DEF Typed, Separate, PostsApart, RowsApart, Traced, PostsTraced, AbortTraced, Exists
<1>8. ASSUME NEW p \in Post, NEW c \in Chunk, Start(p, c)
      PROVE  AbortTraced'
  <2>1. UNCHANGED <<status, aborter>>
    BY <1>8, DirectSteps DEF Start, record, Direct
  <2>2. \A d \in Chunk : row'[d].msg = row[d].msg \/ row[d].msg = 0
    BY <1>8, AtChunk, DirectSteps DEF Start, SetRow, Typed, Traced, PostsTraced, Separate, RowsApart, Direct
  <2>3. \A d \in Chunk : \A m \in sent'[d] :
          /\ m \in sent[d] \/ <<d, m>> \in stray' \/ row[d].msg = 0
          /\ <<d, m>> \in stray => <<d, m>> \in stray'
    BY <1>8, AtChunk, Unseen DEF Start, Sends, Strays, history, Typed, Traced, PostsTraced
  <2>4. \A d \in Chunk : row[d].msg \in Msg /\ sent'[d] \subseteq Msg
    BY Fields, TypedStep DEF Typed
  <2>. QED  BY <2>1, <2>2, <2>3, <2>4 DEF Traced, AbortTraced
<1>9. ASSUME NEW p \in Post, CreatePending(p)
      PROVE  AbortTraced'
  <2>1. UNCHANGED <<status, aborter>>
    BY <1>9, DirectSteps DEF CreatePending, record, Direct
  <2>2. \A d \in Chunk : row'[d].msg = row[d].msg \/ row[d].msg = 0
    BY <1>9, AtChunk, DirectSteps DEF CreatePending, SetRow, Typed, Traced, PostsTraced, Separate,
      RowsApart, Direct
  <2>3. \A d \in Chunk : \A m \in sent'[d] :
          /\ m \in sent[d] \/ <<d, m>> \in stray' \/ row[d].msg = 0
          /\ <<d, m>> \in stray => <<d, m>> \in stray'
    BY <1>9, AtChunk, Unseen DEF CreatePending, Sends, Strays, history, Typed, Traced, PostsTraced
  <2>4. \A d \in Chunk : row[d].msg \in Msg /\ sent'[d] \subseteq Msg
    BY Fields, TypedStep DEF Typed
  <2>. QED  BY <2>1, <2>2, <2>3, <2>4 DEF Traced, AbortTraced
<1>10. ASSUME NEW p \in Post, SendAny(p)
      PROVE  AbortTraced'
  <2>1. UNCHANGED <<status, aborter>>
    BY <1>10, DirectSteps DEF SendAny, record, Direct
  <2>2. \A d \in Chunk : row'[d].msg = row[d].msg \/ row[d].msg = 0
    BY <1>10, AtChunk, DirectSteps DEF SendAny, SetRow, Typed, Traced, PostsTraced, Separate,
      RowsApart, Direct
  <2>3. \A d \in Chunk : \A m \in sent'[d] :
          /\ m \in sent[d] \/ <<d, m>> \in stray' \/ row[d].msg = 0
          /\ <<d, m>> \in stray => <<d, m>> \in stray'
    BY <1>10, AtChunk, Unseen DEF SendAny, Sends, Strays, history, Typed, Traced, PostsTraced
  <2>4. \A d \in Chunk : row[d].msg \in Msg /\ sent'[d] \subseteq Msg
    BY Fields, TypedStep DEF Typed
  <2>. QED  BY <2>1, <2>2, <2>3, <2>4 DEF Traced, AbortTraced
<1>11. ASSUME NEW p \in Post, SendFailed(p)
      PROVE  AbortTraced'
  <2>1. UNCHANGED <<status, aborter>>
    BY <1>11, DirectSteps DEF SendFailed, record, Direct
  <2>2. \A d \in Chunk : row'[d].msg = row[d].msg \/ row[d].msg = 0
    BY <1>11, AtChunk, DirectSteps DEF SendFailed, SetRow, Typed, Traced, PostsTraced, Separate,
      RowsApart, Direct
  <2>3. \A d \in Chunk : \A m \in sent'[d] :
          /\ m \in sent[d] \/ <<d, m>> \in stray' \/ row[d].msg = 0
          /\ <<d, m>> \in stray => <<d, m>> \in stray'
    BY <1>11, AtChunk, Unseen DEF SendFailed, Sends, Strays, history, Typed, Traced, PostsTraced
  <2>4. \A d \in Chunk : row[d].msg \in Msg /\ sent'[d] \subseteq Msg
    BY Fields, TypedStep DEF Typed
  <2>. QED  BY <2>1, <2>2, <2>3, <2>4 DEF Traced, AbortTraced
<1>12. ASSUME NEW p \in Post, Update(p)
      PROVE  AbortTraced'
  <2>1. UNCHANGED <<status, aborter>>
    BY <1>12, DirectSteps DEF Update, record, Direct
  <2>2. \A d \in Chunk : row'[d].msg = row[d].msg \/ row[d].msg = 0
    BY <1>12, AtChunk, DirectSteps DEF Update, SetRow, Typed, Traced, PostsTraced, Separate, RowsApart, Direct
  <2>3. \A d \in Chunk : \A m \in sent'[d] :
          /\ m \in sent[d] \/ <<d, m>> \in stray' \/ row[d].msg = 0
          /\ <<d, m>> \in stray => <<d, m>> \in stray'
    BY <1>12, AtChunk, Unseen DEF Update, Sends, Strays, history, Typed, Traced, PostsTraced
  <2>4. \A d \in Chunk : row[d].msg \in Msg /\ sent'[d] \subseteq Msg
    BY Fields, TypedStep DEF Typed
  <2>. QED  BY <2>1, <2>2, <2>3, <2>4 DEF Traced, AbortTraced
<1>13. ASSUME NEW p \in Post, UpdateFails(p)
      PROVE  AbortTraced'
  <2>1. UNCHANGED <<status, aborter>>
    BY <1>13, DirectSteps DEF UpdateFails, record, Direct
  <2>2. \A d \in Chunk : row'[d].msg = row[d].msg \/ row[d].msg = 0
    BY <1>13, AtChunk, DirectSteps DEF UpdateFails, SetRow, Typed, Traced, PostsTraced, Separate,
      RowsApart, Direct
  <2>3. \A d \in Chunk : \A m \in sent'[d] :
          /\ m \in sent[d] \/ <<d, m>> \in stray' \/ row[d].msg = 0
          /\ <<d, m>> \in stray => <<d, m>> \in stray'
    BY <1>13, AtChunk, Unseen DEF UpdateFails, Sends, Strays, history, Typed, Traced, PostsTraced
  <2>4. \A d \in Chunk : row[d].msg \in Msg /\ sent'[d] \subseteq Msg
    BY Fields, TypedStep DEF Typed
  <2>. QED  BY <2>1, <2>2, <2>3, <2>4 DEF Traced, AbortTraced
<1>14. ASSUME NEW p \in Post, CheckStatus(p)
      PROVE  AbortTraced'
  <2>1. UNCHANGED <<status, aborter>>
    BY <1>14, DirectSteps DEF CheckStatus, record, Direct
  <2>2. \A d \in Chunk : row'[d].msg = row[d].msg \/ row[d].msg = 0
    BY <1>14, AtChunk, DirectSteps DEF CheckStatus, SetRow, Typed, Traced, PostsTraced, Separate,
      RowsApart, Direct
  <2>3. \A d \in Chunk : \A m \in sent'[d] :
          /\ m \in sent[d] \/ <<d, m>> \in stray' \/ row[d].msg = 0
          /\ <<d, m>> \in stray => <<d, m>> \in stray'
    BY <1>14, AtChunk, Unseen DEF CheckStatus, Sends, Strays, history, Typed, Traced, PostsTraced
  <2>4. \A d \in Chunk : row[d].msg \in Msg /\ sent'[d] \subseteq Msg
    BY Fields, TypedStep DEF Typed
  <2>. QED  BY <2>1, <2>2, <2>3, <2>4 DEF Traced, AbortTraced
<1>15. ASSUME NEW p \in Post, CheckFails(p)
      PROVE  AbortTraced'
  <2>1. UNCHANGED <<status, aborter>>
    BY <1>15, DirectSteps DEF CheckFails, record, Direct
  <2>2. \A d \in Chunk : row'[d].msg = row[d].msg \/ row[d].msg = 0
    BY <1>15, AtChunk, DirectSteps DEF CheckFails, SetRow, Typed, Traced, PostsTraced, Separate,
      RowsApart, Direct
  <2>3. \A d \in Chunk : \A m \in sent'[d] :
          /\ m \in sent[d] \/ <<d, m>> \in stray' \/ row[d].msg = 0
          /\ <<d, m>> \in stray => <<d, m>> \in stray'
    BY <1>15, AtChunk, Unseen DEF CheckFails, Sends, Strays, history, Typed, Traced, PostsTraced
  <2>4. \A d \in Chunk : row[d].msg \in Msg /\ sent'[d] \subseteq Msg
    BY Fields, TypedStep DEF Typed
  <2>. QED  BY <2>1, <2>2, <2>3, <2>4 DEF Traced, AbortTraced
<1>16. ASSUME NEW p \in Post, Undo(p)
      PROVE  AbortTraced'
  <2>1. UNCHANGED <<status, aborter>>
    BY <1>16, DirectSteps DEF Undo, record, Direct
  <2>2. \A d \in Chunk : row'[d].msg = row[d].msg \/ row[d].msg = 0
    BY <1>16, AtChunk, DirectSteps DEF Undo, SetRow, Typed, Traced, PostsTraced, Separate, RowsApart, Direct
  <2>3. \A d \in Chunk : \A m \in sent'[d] :
          /\ m \in sent[d] \/ <<d, m>> \in stray' \/ row[d].msg = 0
          /\ <<d, m>> \in stray => <<d, m>> \in stray'
    BY ZenonT(60), <1>16, AtChunk, Unseen DEF Undo, Sends, Strays, history, Typed, Traced, PostsTraced
  <2>4. \A d \in Chunk : row[d].msg \in Msg /\ sent'[d] \subseteq Msg
    BY Fields, TypedStep DEF Typed
  <2>. QED  BY <2>1, <2>2, <2>3, <2>4 DEF Traced, AbortTraced
<1>17. ASSUME AbortFails
      PROVE  AbortTraced'
  <2>1. aborter'.pc = "stopped"
    BY <1>17 DEF AbortFails, SetAbort
  <2>. QED  BY <2>1 DEF AbortTraced
<1>. QED
  BY <1>17, <1>8, <1>9, <1>10, <1>11, <1>12, <1>13, <1>14, <1>15, <1>16, <1>1, <1>2, <1>3, <1>4,
      <1>5, <1>6, <1>7, DirectSteps
  DEF DirectStep, AbortStep, Confirm, Charge, history, record, setup, NoUpload

-----------------------------------------------------------------------------
(* What holds always.                                                      *)

LEMMA InitInv == Init => IInv
<1>. SUFFICES ASSUME Init  PROVE IInv
  OBVIOUS
<1>1. /\ \A c \in Chunk : row[c] \in {NoRow, [NoRow EXCEPT !.st = "buffered"]}
      /\ \A c \in Chunk : job[c] \in {NoJob, [NoJob EXCEPT !.st = "wait"]}
      /\ \A p \in Post : post[p] = Idle
      /\ \A w \in Worker : worker[w] = Resting
  BY DEF Init
<1>2. Typed
  <2>1. row \in [Chunk -> RowState]
    BY <1>1, Zero DEF Init, NoRow, RowState
  <2>2. job \in [Chunk -> JobState]
    BY <1>1 DEF Init, NoJob, JobState
  <2>3. worker \in [Worker -> WorkerState]
    BY <1>1, Zero DEF Init, Resting, WorkerState, WorkerPc
  <2>4. post \in [Post -> PostState]
    BY <1>1, Zero DEF Init, Idle, PostState, PostPc
  <2>5. disk \in SUBSET Chunk
    BY ChunkAssumption DEF Init, Whole
  <2>. QED  BY <2>1, <2>2, <2>3, <2>4, <2>5 DEF Init, Typed
<1>3. \A c \in Chunk : /\ row[c].msg = 0
                       /\ row[c].st \in {"none", "buffered"} /\ job[c].st \in {"none", "wait"} /\ job[c].tries = 0
                       /\ row[c].st = "buffered" <=> mode.paced /\ c = Whole
                       /\ job[c].st = "wait" <=> mode.paced /\ c = Whole
  BY DEF Init, NoRow, NoJob
<1>4. /\ \A p \in Post : post[p].pc = "idle" /\ post[p].c = None
      /\ \A w \in Worker : worker[w].pc = "idle"
  BY <1>1 DEF Idle, Resting
<1>5. mode.paced => mode.buffer /\ ~mode.single
  BY DEF Init
<1>6. Separate
  BY <1>3, <1>4, <1>5, NoneAssumption, BoundsAssumption DEF Separate, PostsApart, RowsApart, WorkersApart
<1>7. Whole \in Chunk /\ charged = 0 /\ completer = "idle" /\ aborter.pc = "idle"
      /\ \A c \in Chunk : sent[c] = {}
  BY ChunkAssumption DEF Init, Whole, NoAbort
<1>8. status = (IF mode.single THEN "none" ELSE "uploading") /\ (mode.paced => disk = {Whole})
  BY DEF Init
<1>9. Fits
  BY <1>3, <1>4, <1>5, <1>7, <1>8
  DEF Fits, PostsFit, PostFits, WorkersFit, WorkerFits, RowsFit, RowFits, StatusFits
<1>10. Once
  BY <1>4, <1>7 DEF Once, Owned, ChargeFits, LastFits
<1>11. Traced
  BY <1>4, <1>7 DEF Traced, PostsTraced, AllTraced, AbortTraced
<1>. QED  BY <1>2, <1>6, <1>9, <1>10, <1>11 DEF IInv

LEMMA NextInv == IInv /\ [Next]_vars => IInv'
<1>. SUFFICES ASSUME IInv, [Next]_vars  PROVE IInv'
  OBVIOUS
<1>1. Typed /\ Separate
  BY DEF IInv
<1>2. Typed'
  BY <1>1, TypedStep
<1>3. Separate'
  BY <1>1, PostsApartStep, RowsApartStep, WorkersApartStep DEF Separate
<1>4. ASSUME Untouched'
      PROVE  Fits'
  <2>1. Fits
    BY <1>4, NoAbortYet DEF IInv
  <2>. QED  BY <1>1, <1>4, <2>1, PostsFitStep, WorkersFitStep, RowsFitStep, StatusFitsStep DEF Fits
<1>5. ASSUME Untouched', stalls' = 0
      PROVE  Once'
  <2>1. Fits /\ Once
    BY <1>1, <1>5, NoAbortYet, NoStallYet DEF IInv
  <2>. QED  BY <1>1, <1>5, <2>1, OwnedStep, ChargeFitsStep, LastFitsStep DEF Once
<1>6. ASSUME Direct'
      PROVE  Traced'
  <2>1. Traced
    BY <1>1, <1>6, DirectSteps DEF IInv
  <2>. QED  BY <1>1, <1>6, <2>1, PostsTracedStep, AllTracedStep, AbortTracedStep DEF Traced
<1>. QED  BY <1>2, <1>3, <1>4, <1>5, <1>6 DEF IInv

LEMMA Invariance == Spec => []IInv
BY InitInv, NextInv, PTL DEF Spec

\* For every number of chunks, requests and workers: as long as nobody aborts, a chunk
\* that upload-buffer.service.ts accepted is on the disk until it is on Telegram, and a
\* file is complete only with all its chunks there, whatever fails, stalls or restarts;
\* chunks that were sent directly beside buffered ones are excepted.
THEOREM KeptUntilSent == Spec => []Kept
<1>1. IInv => Kept
  BY DEF IInv, Kept, Fits, RowsFit, RowFits, StatusFits
<1>. QED  BY <1>1, Invariance, PTL

\* The jobs of upload-queue.processor.ts and completeChunkedUpload charge the owner once
\* between them, and only for a complete upload, if no worker loses its job.
THEOREM ChargedAtMostOnce == Spec => []ChargedOnce
<1>1. IInv => ChargedOnce
  BY DEF IInv, ChargedOnce, Once, ChargeFits
<1>. QED  BY <1>1, Invariance, PTL

\* abortUpload and the requests that it overtakes leave no message behind but those
\* whose deletion, answer or row failed, when the chunks are sent directly and the core
\* does not restart.
THEOREM AbortIsClean == Spec => []AbortLeavesNothing
<1>1. IInv => AbortLeavesNothing
  <2>. SUFFICES ASSUME IInv, ~mode.buffer, ~mode.single, status = "gone", restarts = 0, Active = {},
                       NEW c \in Chunk, NEW m \in sent[c]
                PROVE  <<c, m>> \in stray
    BY DEF AbortLeavesNothing, IInv, Typed
  <2>1. ~Held(c, m)
    BY DEF Held, Active
  <2>. QED  BY <2>1 DEF IInv, Direct, Traced, AllTraced
<1>. QED  BY <1>1, Invariance, PTL

-----------------------------------------------------------------------------
(* The slots. What was granted in the last T seconds is among the scores     *)
(* that are younger than that, by the clock that is behind, and a round that *)
(* took a slot saw all of them.                                              *)

SlotsTyped ==
  /\ slots \in [Bot -> SUBSET Int] /\ \A b \in Bot : IsFiniteSet(slots[b])
  /\ granted \in [Bot -> [0 .. Window - 1 -> Nat]]
  /\ skew \in [Service -> Nat] /\ \E s \in Service : skew[s] = 0
  /\ ask = [c \in Caller |-> ask[c]]
  /\ \A c \in Caller : DOMAIN ask[c] = {"pc", "now", "first", "tried", "wait"}

\* A round is not older than a call may take.
AsksTimely == \A c \in Caller : ask[c].pc = "try" => ask[c].now \in Now(c) - MaxLag .. Now(c)

Latest(b, T) == {s \in slots[b] : s > -MaxLag - T}
Recent(b, T) == SumFunctionOnSet(granted[b], 0 .. T - 1)

Recorded == \A b \in Bot : \A T \in 0 .. Window - Slack : Recent(b, T) <= Cardinality(Latest(b, T))

SlotInv == SlotsTyped /\ AsksTimely /\ Recorded /\ Paced

LEMMA SlackBounds ==
  ASSUME SlotsTyped
  PROVE  Slack \in Nat /\ Window \in Nat /\ MaxLag \in Nat /\ \A c \in Caller : Now(c) \in Nat /\ Now(c) + MaxLag <= Slack
<1>1. skew["core"] \in Nat /\ skew["go"] \in Nat /\ (skew["core"] = 0 \/ skew["go"] = 0)
  BY DEF SlotsTyped, Service
<1>2. \A c \in Caller : Now(c) \in {skew["core"], skew["go"]}
  BY DEF Now, ServiceOf
<1> QED
  BY <1>1, <1>2, SlotAssumption, SMTT(30) DEF Slack

\* The sums and the sets are finite.
LEMMA RecentTyped ==
  ASSUME SlotsTyped, NEW b \in Bot, NEW T \in 0 .. Window - Slack
  PROVE  /\ Recent(b, T) \in Nat /\ IsFiniteSet(0 .. T - 1) /\ 0 .. T - 1 \subseteq 0 .. Window - 1
         /\ IsFiniteSet(Latest(b, T)) /\ Cardinality(Latest(b, T)) \in Nat
<1>1. T \in Nat /\ T <= Window
  BY SlackBounds
<1>2. IsFiniteSet(0 .. T - 1)
  BY <1>1, FS_Interval
<1>3. 0 .. T - 1 \subseteq 0 .. Window - 1
  BY <1>1, SlackBounds
<1>4. \A t \in 0 .. T - 1 : granted[b][t] \in Nat
  BY <1>3 DEF SlotsTyped
<1>5. Recent(b, T) \in Nat
  BY <1>2, <1>4, SumNat DEF Recent
<1>6. Latest(b, T) \in SUBSET slots[b] /\ IsFiniteSet(slots[b])
  BY DEF Latest, SlotsTyped
<1> QED
  BY <1>2, <1>3, <1>5, <1>6, FS_Subset, FS_CardinalityType

\* What leaves the set because it is out of the window of some clock was granted
\* longer ago than any stretch that counts.
LEMMA WindowKeeps ==
  ASSUME SlotsTyped, NEW b \in Bot, NEW T \in 0 .. Window - Slack, NEW now \in Int, now + MaxLag <= Slack
  PROVE  {s \in InWindow(b, now) : s > -MaxLag - T} = Latest(b, T)
<1>1. \A s \in slots[b] : s \in Int
  BY DEF SlotsTyped
<1>2. \A s \in slots[b] : s > -MaxLag - T => s > now - Window
  BY <1>1, SlackBounds
<1> QED
  BY <1>2 DEF InWindow, Latest

\* Nothing is granted, and the scores are at most pruned.
LEMMA PruneKeeps ==
  ASSUME SlotInv, SlotsTyped', UNCHANGED <<granted, skew>>,
         \A b \in Bot : slots'[b] = slots[b] \/ \E now \in Int : now + MaxLag <= Slack /\ slots'[b] = InWindow(b, now)
  PROVE  Recorded' /\ Paced'
<1>1. Slack' = Slack
  BY DEF Slack
<1>2. ASSUME NEW b \in Bot, NEW T \in 0 .. Window - Slack PROVE Latest(b, T)' = Latest(b, T)
  <2>1. CASE slots'[b] = slots[b]
    BY <2>1 DEF Latest
  <2>2. ASSUME NEW now \in Int, now + MaxLag <= Slack, slots'[b] = InWindow(b, now) PROVE Latest(b, T)' = Latest(b, T)
    <3>1. {s \in InWindow(b, now) : s > -MaxLag - T} = Latest(b, T)
      BY <2>2, WindowKeeps DEF SlotInv
    <3>2. Latest(b, T)' = {s \in slots'[b] : s > -MaxLag - T}
      BY DEF Latest
    <3> QED
      BY <2>2, <3>1, <3>2
  <2> QED
    BY <2>1, <2>2
<1>3. ASSUME NEW b \in Bot, NEW T \in 0 .. Window - Slack PROVE Recent(b, T)' <= Cardinality(Latest(b, T)')
  <2>1. Recent(b, T)' = Recent(b, T)
    BY DEF Recent
  <2> QED
    BY <1>2, <2>1 DEF SlotInv, Recorded
<1>4. Recorded'
  BY <1>1, <1>3 DEF Recorded
<1>5. Paced'
  BY <1>1 DEF SlotInv, Paced
<1> QED
  BY <1>4, <1>5

\* A slot is granted.
LEMMA GrantKeeps ==
  ASSUME SlotInv, SlotsTyped', UNCHANGED skew, NEW b \in Bot, NEW now \in Int, -MaxLag <= now, now + MaxLag <= Slack,
         Admits(b, now), slots' = [slots EXCEPT ![b] = InWindow(b, now) \cup {now}],
         granted' = [granted EXCEPT ![b][0] = @ + 1]
  PROVE  Recorded' /\ Paced'
<1> USE SlackBounds DEF SlotInv
<1>1. Slack' = Slack
  BY DEF Slack
<1>2. slots'[b] = InWindow(b, now) \cup {now} /\ \A a \in Bot \ {b} : slots'[a] = slots[a] /\ granted'[a] = granted[a]
  BY DEF SlotsTyped
<1>3. /\ InWindow(b, now) \in SUBSET Int /\ IsFiniteSet(InWindow(b, now))
      /\ now \notin InWindow(b, now) /\ Cardinality(InWindow(b, now)) < Limit /\ Limit \in Nat
  <2>1. InWindow(b, now) \in SUBSET slots[b] /\ slots[b] \in SUBSET Int /\ IsFiniteSet(slots[b])
    BY DEF InWindow, SlotsTyped
  <2>2. now \notin InWindow(b, now)
    BY SlotAssumption DEF Admits
  <2> QED
    BY <2>1, <2>2, FS_Subset, SlotAssumption DEF Admits
<1>4. /\ granted[b] \in [0 .. Window - 1 -> Nat] /\ granted'[b] \in [0 .. Window - 1 -> Nat]
      /\ 0 \in 0 .. Window - 1
      /\ granted'[b][0] = granted[b][0] + 1 /\ \A t \in 0 .. Window - 1 : t # 0 => granted'[b][t] = granted[b][t]
  BY SlotAssumption DEF SlotsTyped
<1>5. ASSUME NEW T \in 0 .. Window - Slack
      PROVE  /\ Recent(b, T)' = Recent(b, T) + (IF T = 0 THEN 0 ELSE 1)
             /\ Cardinality(Latest(b, T)') = Cardinality(Latest(b, T)) + (IF T = 0 THEN 0 ELSE 1)
                \/ T = 0
             /\ Latest(b, T) \subseteq InWindow(b, now)
  <2>1. Recent(b, T)' = SumFunctionOnSet(granted'[b], 0 .. T - 1)
    BY DEF Recent
  <2>2. CASE T = 0
    <3>1. 0 .. T - 1 = {}
      BY <2>2
    <3>2. Recent(b, T) = 0 /\ Recent(b, T)' = 0
      BY <2>1, <3>1, SumEmpty DEF Recent
    <3>3. Latest(b, T) \subseteq InWindow(b, now)
      BY WindowKeeps
    <3> QED
      BY <2>2, <3>2, <3>3
  <2>3. CASE T # 0
    <3>1. 0 \in 0 .. T - 1 /\ IsFiniteSet(0 .. T - 1) /\ 0 .. T - 1 \subseteq 0 .. Window - 1
      BY <2>3, RecentTyped
    <3>2. SumFunctionOnSet(granted'[b], 0 .. T - 1) = SumFunctionOnSet(granted[b], 0 .. T - 1) + granted'[b][0] - granted[b][0]
      <4>1. \A t \in 0 .. T - 1 : /\ granted[b][t] \in Int /\ granted'[b][t] \in Int
                                  /\ (t # 0 => granted'[b][t] = granted[b][t])
        BY <1>4, <3>1
      <4>2. ASSUME NEW S, IsFiniteSet(S), 0 \in S, NEW f, NEW g,
                   \A t \in S : f[t] \in Int /\ g[t] \in Int /\ (t # 0 => g[t] = f[t])
            PROVE  SumFunctionOnSet(g, S) = SumFunctionOnSet(f, S) + g[0] - f[0]
        BY <4>2, SumChange
      <4> DEFINE S == 0 .. T - 1
                 f == granted[b]
                 g == granted'[b]
      <4>3. /\ IsFiniteSet(S) /\ 0 \in S
            /\ \A t \in S : f[t] \in Int /\ g[t] \in Int /\ (t # 0 => g[t] = f[t])
        BY <3>1, <4>1
      <4> HIDE DEF S, f, g
      <4>4. SumFunctionOnSet(g, S) = SumFunctionOnSet(f, S) + g[0] - f[0]
        BY ONLY <4>2, <4>3
      <4> QED
        BY <4>4 DEF S, f, g
    <3>3. Recent(b, T)' = Recent(b, T) + 1
      <4>1. granted[b][0] \in Nat /\ granted'[b][0] = granted[b][0] + 1 /\ Recent(b, T) \in Nat
        BY <1>4, RecentTyped
      <4>2. Recent(b, T)' = Recent(b, T) + granted'[b][0] - granted[b][0]
        BY <2>1, <3>2 DEF Recent
      <4> QED
        BY ONLY <4>1, <4>2
    <3>4. {s \in InWindow(b, now) : s > -MaxLag - T} = Latest(b, T)
      BY WindowKeeps
    <3>5. Latest(b, T)' = Latest(b, T) \cup {now}
      <4>1. Latest(b, T)' = {s \in InWindow(b, now) \cup {now} : s > -MaxLag - T}
        BY <1>2 DEF Latest
      <4>2. now > -MaxLag - T
        BY <2>3
      <4> QED
        BY <3>4, <4>1, <4>2
    <3>6. now \notin Latest(b, T) /\ Latest(b, T) \subseteq InWindow(b, now)
      BY <1>3, <3>4
    <3>7. Cardinality(Latest(b, T) \cup {now}) = Cardinality(Latest(b, T)) + 1
      BY <3>6, RecentTyped, FS_AddElement
    <3> QED
      BY <2>3, <3>3, <3>5, <3>6, <3>7
  <2> QED
    BY <2>2, <2>3
<1>6. Recorded'
  <2>1. ASSUME NEW a \in Bot, NEW T \in 0 .. Window - Slack PROVE Recent(a, T)' <= Cardinality(Latest(a, T)')
    <3>1. /\ Recent(a, T) <= Cardinality(Latest(a, T)) /\ Recent(a, T) \in Nat
          /\ Cardinality(Latest(a, T)) \in Nat
      BY RecentTyped DEF Recorded
    <3>2. CASE a # b
      <4>1. Recent(a, T)' = Recent(a, T) /\ Latest(a, T)' = Latest(a, T)
        BY <1>2, <3>2 DEF Recent, Latest
      <4> QED
        BY <3>1, <4>1
    <3>3. CASE a = b /\ T # 0
      BY <1>5, <3>1, <3>3
    <3>4. CASE a = b /\ T = 0
      <4>1. Recent(a, T)' = 0
        <5>1. 0 .. T - 1 = {}
          BY <3>4
        <5> QED
          BY <5>1, SumEmpty DEF Recent
      <4>2. Latest(a, T)' \in SUBSET slots'[a] /\ IsFiniteSet(slots'[a])
        BY DEF Latest, SlotsTyped
      <4> QED
        BY <4>1, <4>2, FS_Subset, FS_CardinalityType
    <3> QED
      BY <3>2, <3>3, <3>4
  <2> QED
    BY <1>1, <2>1 DEF Recorded
<1>7. Paced'
  <2> SUFFICES ASSUME NEW a \in Bot PROVE SumFunctionOnSet(granted'[a], 0 .. Window - 1 - Slack) <= Limit
    BY <1>1 DEF Paced
  <2>1. CASE a # b
    BY <1>2, <2>1 DEF Paced
  <2>2. CASE a = b /\ Window - Slack < 0
    <3>1. 0 .. Window - 1 - Slack = {}
      BY <2>2
    <3>2. SumFunctionOnSet(granted'[a], 0 .. Window - 1 - Slack) = 0
      BY <3>1, SumEmpty
    <3> QED
      BY <1>3, <3>2
  <2>3. CASE a = b /\ ~(Window - Slack < 0)
    <3> DEFINE T == Window - Slack
    <3>1. T \in 0 .. Window - Slack /\ 0 .. Window - 1 - Slack = 0 .. T - 1
      BY <2>3
    <3> HIDE DEF T
    <3>2. /\ Recent(b, T) <= Cardinality(Latest(b, T)) /\ Recent(b, T) \in Nat
          /\ Cardinality(Latest(b, T)) \in Nat
      BY <3>1, RecentTyped DEF Recorded
    <3>3. /\ Cardinality(Latest(b, T)) <= Cardinality(InWindow(b, now))
          /\ Cardinality(InWindow(b, now)) \in Nat
      <4>1. Latest(b, T) \subseteq InWindow(b, now)
        BY <1>5, <3>1
      <4> QED
        BY <1>3, <4>1, FS_Subset, FS_CardinalityType
    <3>4. SumFunctionOnSet(granted'[b], 0 .. T - 1) = Recent(b, T) + (IF T = 0 THEN 0 ELSE 1)
      BY <1>5, <3>1 DEF Recent
    <3> QED
      BY <1>3, <2>3, <3>1, <3>2, <3>3, <3>4
  <2> QED
    BY <2>1, <2>2, <2>3
<1> QED
  BY <1>6, <1>7

\* A second passes: what was granted, and the scores, are a second older.
LEMMA TickKeeps ==
  ASSUME SlotInv, SlotTick
  PROVE  SlotInv'
<1> USE SlackBounds DEF SlotInv
<1>1. /\ slots' = [b \in Bot |-> {s - 1 : s \in {t \in slots[b] : t > -(Window + MaxLag)}}]
      /\ granted' = [b \in Bot |-> [t \in 0 .. Window - 1 |-> IF t = 0 \/ t >= Window - Slack THEN 0 ELSE granted[b][t - 1]]]
      /\ ask' = [c \in Caller |-> [ask[c] EXCEPT !.now = IF ask[c].pc = "try" THEN @ - 1 ELSE @,
                                                 !.wait = IF @ = 0 THEN 0 ELSE @ - 1]]
      /\ skew' = skew /\ \A c \in Caller : ask[c].pc = "try" => Now(c) - ask[c].now < MaxLag
  BY DEF SlotTick
<1>2. Slack' = Slack
  BY <1>1 DEF Slack
\* One score less, or one more second.
<1>3. ASSUME NEW S \in SUBSET Int, IsFiniteSet(S)
      PROVE  IsFiniteSet({s - 1 : s \in S}) /\ Cardinality({s - 1 : s \in S}) = Cardinality(S)
  <2> DEFINE U == {s - 1 : s \in S}
             h == [s \in S |-> s - 1]
  <2>1. h \in [S -> U] /\ (\A s, t \in S : h[s] = h[t] => s = t) /\ \A u \in U : \E s \in S : h[s] = u
    OBVIOUS
  <2> HIDE DEF h, U
  <2>2. h \in Injection(S, U) /\ h \in Surjection(S, U)
    BY <2>1 DEF Injection, Surjection, IsInjective
  <2>3. ExistsBijection(S, U)
    BY <2>2 DEF ExistsBijection, Bijection
  <2> QED
    BY <1>3, <2>3, FS_Bijection DEF U
<1>4. SlotsTyped'
  <2>1. ASSUME NEW b \in Bot PROVE slots'[b] \in SUBSET Int /\ IsFiniteSet(slots'[b])
    <3> DEFINE S == {t \in slots[b] : t > -(Window + MaxLag)}
    <3>1. S \in SUBSET Int /\ IsFiniteSet(S)
      BY FS_Subset DEF SlotsTyped
    <3>2. slots'[b] = {s - 1 : s \in S}
      BY <1>1
    <3> HIDE DEF S
    <3>3. IsFiniteSet({s - 1 : s \in S}) /\ {s - 1 : s \in S} \in SUBSET Int
      BY <1>3, <3>1
    <3> QED
      BY <3>2, <3>3
  <2>2. slots' \in [Bot -> SUBSET Int]
    BY <1>1, <2>1
  <2>3. granted' \in [Bot -> [0 .. Window - 1 -> Nat]]
    <3>1. \A b \in Bot : \A t \in 0 .. Window - 1 : t # 0 => t - 1 \in 0 .. Window - 1 /\ granted[b][t - 1] \in Nat
      BY DEF SlotsTyped
    <3> QED
      BY <1>1, <3>1
  <2>4. ask' = [c \in Caller |-> ask'[c]] /\ \A c \in Caller : DOMAIN ask'[c] = {"pc", "now", "first", "tried", "wait"}
    BY <1>1 DEF SlotsTyped
  <2> QED
    BY <1>1, <2>1, <2>2, <2>3, <2>4 DEF SlotsTyped
<1>5. AsksTimely'
  <2>1. ASSUME NEW c \in Caller, ask'[c].pc = "try" PROVE ask'[c].now \in Now(c)' - MaxLag .. Now(c)'
    <3>1. ask[c].pc = "try" /\ ask'[c].now = ask[c].now - 1
      BY <1>1, <2>1 DEF SlotsTyped
    <3>2. /\ ask[c].now \in Now(c) - MaxLag .. Now(c) /\ Now(c) - ask[c].now < MaxLag
          /\ Now(c)' = Now(c) /\ Now(c) \in Nat
      BY <1>1, <3>1 DEF AsksTimely, Now
    <3> QED
      BY <3>1, <3>2
  <2> QED
    BY <2>1 DEF AsksTimely
\* The first T seconds are now what the first T - 1 were.
<1>6. ASSUME NEW b \in Bot, NEW T \in 0 .. Window - Slack, T # 0
      PROVE  T - 1 \in 0 .. Window - Slack /\ Recent(b, T)' = Recent(b, T - 1)
  <2>1. T - 1 \in 0 .. Window - Slack /\ T \in Nat /\ T <= Window - Slack
    BY <1>6
  <2> DEFINE S == 0 .. (T - 1) - 1
             h == [t \in S |-> t + 1]
             f == granted[b]
             g == granted'[b]
  <2>2. IsFiniteSet(S) /\ S \subseteq 0 .. Window - 1
    BY <2>1, RecentTyped
  <2>3. \A s, t \in S : h[s] = h[t] => s = t
    BY <2>1
  <2>4. \A s \in S : f[s] \in Int /\ g[h[s]] = f[s]
    <3> TAKE s \in S
    <3>1. /\ h[s] = s + 1 /\ s + 1 \in 0 .. Window - 1 /\ s + 1 # 0 /\ ~(s + 1 >= Window - Slack)
          /\ (s + 1) - 1 = s
      BY <2>1
    <3>2. g[s + 1] = granted[b][(s + 1) - 1]
      BY <1>1, <3>1
    <3> QED
      BY <2>2, <3>1, <3>2 DEF SlotsTyped
  <2>5. {h[s] : s \in S} = (0 .. T - 1) \ {0}
    <3>1. \A t \in (0 .. T - 1) \ {0} : t - 1 \in S /\ h[t - 1] = t
      BY <2>1
    <3>2. \A s \in S : h[s] \in (0 .. T - 1) \ {0}
      BY <2>1
    <3> QED
      BY <3>1, <3>2
  <2>6. g[0] = 0 /\ 0 \in 0 .. T - 1 /\ IsFiniteSet(0 .. T - 1) /\ 0 .. T - 1 \subseteq 0 .. Window - 1
    <3>1. 0 \in 0 .. Window - 1 /\ 0 \in 0 .. T - 1
      BY <2>1, SlotAssumption
    <3>2. IsFiniteSet(0 .. T - 1) /\ 0 .. T - 1 \subseteq 0 .. Window - 1
      BY RecentTyped
    <3> QED
      BY <1>1, <3>1, <3>2
  <2>7. \A t \in 0 .. T - 1 : g[t] \in Int
    BY <1>4, <2>6 DEF SlotsTyped
  <2>8. Recent(b, T)' = SumFunctionOnSet(g, 0 .. T - 1) /\ Recent(b, T - 1) = SumFunctionOnSet(f, S)
    BY DEF Recent
  <2> HIDE DEF S, h, f, g
  <2>9. SumFunctionOnSet(g, {h[s] : s \in S}) = SumFunctionOnSet(f, S)
    <3>1. IsFiniteSet(S)
      BY <2>2
    <3> QED
      BY ONLY <2>3, <2>4, <3>1, SumAlong
  <2>10. SumFunctionOnSet(g, 0 .. T - 1) = g[0] + SumFunctionOnSet(g, (0 .. T - 1) \ {0})
    BY <2>6, <2>7, SumRemove
  <2>11. SumFunctionOnSet(f, S) \in Nat
    BY <2>1, <2>8, RecentTyped
  <2>12. Recent(b, T)' = 0 + SumFunctionOnSet(f, S)
    BY <2>5, <2>6, <2>8, <2>9, <2>10
  <2> QED
    BY <2>1, <2>8, <2>11, <2>12
<1>7. ASSUME NEW b \in Bot, NEW T \in 0 .. Window - Slack, T # 0
      PROVE  Cardinality(Latest(b, T)') = Cardinality(Latest(b, T - 1))
  <2>1. T - 1 \in 0 .. Window - Slack
    BY <1>7
  <2>2. \A s \in slots[b] : s \in Int
    BY DEF SlotsTyped
  <2>3. Latest(b, T)' = {s - 1 : s \in Latest(b, T - 1)}
    <3>1. Latest(b, T)' = {x \in {s - 1 : s \in {t \in slots[b] : t > -(Window + MaxLag)}} : x > -MaxLag - T}
      BY <1>1 DEF Latest
    <3>2. \A s \in slots[b] : s - 1 > -MaxLag - T <=> s > -MaxLag - (T - 1)
      BY <2>1, <2>2
    <3>3. \A s \in slots[b] : s > -MaxLag - (T - 1) => s > -(Window + MaxLag)
      BY <2>1, <2>2
    <3> QED
      BY <3>1, <3>2, <3>3 DEF Latest
  <2>4. Latest(b, T - 1) \in SUBSET Int /\ IsFiniteSet(Latest(b, T - 1))
    BY <2>1, <2>2, RecentTyped DEF Latest
  <2> QED
    BY <1>3, <2>3, <2>4
<1>8. Recorded'
  <2>1. ASSUME NEW b \in Bot, NEW T \in 0 .. Window - Slack PROVE Recent(b, T)' <= Cardinality(Latest(b, T)')
    <3>1. CASE T # 0
      BY <1>6, <1>7, <3>1 DEF Recorded
    <3>2. CASE T = 0
      <4>1. Recent(b, T)' = 0
        <5>1. 0 .. T - 1 = {}
          BY <3>2
        <5> QED
          BY <5>1, SumEmpty DEF Recent
      <4>2. Latest(b, T)' \in SUBSET slots'[b] /\ IsFiniteSet(slots'[b])
        BY <1>4 DEF Latest, SlotsTyped
      <4> QED
        BY <4>1, <4>2, FS_Subset, FS_CardinalityType
    <3> QED
      BY <3>1, <3>2
  <2> QED
    BY <1>2, <2>1 DEF Recorded
<1>9. Paced'
  <2> SUFFICES ASSUME NEW b \in Bot PROVE SumFunctionOnSet(granted'[b], 0 .. Window - 1 - Slack) <= Limit
    BY <1>2 DEF Paced
  <2> DEFINE T == Window - Slack
  <2>1. CASE T <= 0
    <3>1. 0 .. Window - 1 - Slack = {}
      BY <2>1
    <3>2. SumFunctionOnSet(granted'[b], 0 .. Window - 1 - Slack) = 0
      BY <3>1, SumEmpty
    <3> QED
      BY <3>2, SlotAssumption
  <2>2. CASE ~(T <= 0)
    <3>1. /\ T \in 0 .. Window - Slack /\ T # 0 /\ T - 1 \in 0 .. Window - Slack
          /\ 0 .. Window - 1 - Slack = 0 .. T - 1
      BY <2>2
    <3> HIDE DEF T
    <3>2. SumFunctionOnSet(granted'[b], 0 .. T - 1) = Recent(b, T - 1)
      BY <1>6, <3>1 DEF Recent
    <3>3. Recent(b, T) = granted[b][T - 1] + Recent(b, T - 1) /\ granted[b][T - 1] \in Nat
      <4>1. (0 .. T - 1) \ {T - 1} = 0 .. (T - 1) - 1 /\ T - 1 \in 0 .. T - 1
        BY <3>1
      <4>2. IsFiniteSet(0 .. T - 1) /\ 0 .. T - 1 \subseteq 0 .. Window - 1
        BY <3>1, RecentTyped
      <4>3. \A t \in 0 .. T - 1 : granted[b][t] \in Nat
        BY <4>2 DEF SlotsTyped
      <4>4. SumFunctionOnSet(granted[b], 0 .. T - 1) =
              granted[b][T - 1] + SumFunctionOnSet(granted[b], (0 .. T - 1) \ {T - 1})
        <5> DEFINE f == granted[b]
                   S == 0 .. T - 1
        <5>1. IsFiniteSet(S) /\ T - 1 \in S /\ \A t \in S : f[t] \in Int
          BY <4>1, <4>2, <4>3
        <5> HIDE DEF f, S
        <5>2. SumFunctionOnSet(f, S) = f[T - 1] + SumFunctionOnSet(f, S \ {T - 1})
          BY ONLY <5>1, SumRemove
        <5> QED
          BY <5>2 DEF f, S
      <4> QED
        BY <4>1, <4>3, <4>4 DEF Recent
    <3>4. Recent(b, T) <= Limit
      BY <3>1 DEF Paced, Recent
    <3>5. Recent(b, T - 1) \in Nat /\ Limit \in Nat
      BY <3>1, RecentTyped, SlotAssumption
    <3> QED
      BY <3>1, <3>2, <3>3, <3>4, <3>5
  <2> QED
    BY <2>1, <2>2
<1> QED
  BY <1>4, <1>5, <1>8, <1>9

-----------------------------------------------------------------------------
(* Every step.                                                             *)

\* A step of the upload leaves the slots alone, but for the one that it uses.
LEMMA SlotSteps ==
  ASSUME [Next]_vars
  PROVE  \/ UNCHANGED slotVars
         \/ \E w \in Worker : UseSlot(w)
         \/ \E c \in Caller : SlotStep(c) \/ Leave(c)
         \/ SlotTick
<1>1. ASSUME NEW p \in Post, PostStep(p) \/ StartFile(p) \/ \E c \in Chunk : Start(p, c) PROVE UNCHANGED slotVars
  BY <1>1 DEF PostStep, StartFile, Start, Write, CreateRow, RefuseRow, Enqueue, WriteDisk,
      WriteFile, FallBack, SkipJob, ResendFile, UpdateFails, CheckFails, CreateFileRow,
    EnqueueFile, CreatePending, Send, SendAny, SendFailed, Update, CheckStatus, Undo, CreateFile,
      SendFile, SendFileFailed,
    UpdateSingle, AddJob, record, setup
<1>2. ASSUME NEW w \in Worker, WorkerStep(w) PROVE UNCHANGED slotVars \/ UseSlot(w)
  BY <1>2 DEF WorkerStep, Check, Read, Dispatch, Resend, DispatchFails, Count, Commit, Remove, record, setup
<1>3. ASSUME NEW w \in Worker, NEW c \in Chunk, Fetch(w, c) PROVE UNCHANGED slotVars
  BY <1>3 DEF Fetch, record, setup
<1>4. ASSUME NEW c \in Chunk, Stall(c) \/ FindStalled(c) PROVE UNCHANGED slotVars
  BY <1>4 DEF Stall, FindStalled, record, setup
<1>5. CASE Confirm \/ Flip \/ Charge \/ Abort \/ AbortStep \/ Restart
  BY <1>5 DEF Confirm, Flip, Charge, Abort, AbortStep, MarkAborted, DeleteFirst, DeleteAgain,
      Erase, AbortFails, Restart, record, setup
<1>6. ASSUME NEW c \in Caller, SlotMove(c) PROVE SlotStep(c)
  BY <1>6 DEF SlotMove
<1>7. CASE Rivals
  BY <1>7 DEF Rivals, Caller
<1>8. CASE Clock
  BY <1>8 DEF Clock
<1>9. CASE UNCHANGED vars
  BY <1>9 DEF vars, record, setup
<1> QED
  BY <1>1, <1>2, <1>3, <1>4, <1>5, <1>6, <1>7, <1>8, <1>9 DEF Next

\* A call changes, and asks in time.
LEMMA AskKeeps ==
  ASSUME SlotsTyped, AsksTimely, UNCHANGED <<granted, skew>>, slots' \in [Bot -> SUBSET Int], \A b \in Bot : IsFiniteSet(slots'[b]),
         NEW c, NEW a, ask' = [ask EXCEPT ![c] = a], DOMAIN a = {"pc", "now", "first", "tried", "wait"},
         c \in Caller /\ a.pc = "try" => a.now \in Now(c) - MaxLag .. Now(c)
  PROVE  SlotsTyped' /\ AsksTimely'
<1>1. \A d \in Caller : ask'[d] = (IF d = c THEN a ELSE ask[d])
  BY DEF SlotsTyped
<1>2. ask' = [d \in Caller |-> ask'[d]]
  BY DEF SlotsTyped
<1>3. SlotsTyped'
  BY <1>1, <1>2 DEF SlotsTyped
<1>4. AsksTimely'
  BY <1>1 DEF AsksTimely, Now
<1> QED
  BY <1>3, <1>4

LEMMA InWindowTyped ==
  ASSUME SlotsTyped, NEW b \in Bot, NEW now
  PROVE  InWindow(b, now) \in SUBSET Int /\ IsFiniteSet(InWindow(b, now))
<1>1. InWindow(b, now) \in SUBSET slots[b] /\ slots[b] \in SUBSET Int /\ IsFiniteSet(slots[b])
  BY DEF InWindow, SlotsTyped
<1> QED
  BY <1>1, FS_Subset

\* A call that only changes what it asks for.
LEMMA CallKeeps ==
  ASSUME SlotInv, UNCHANGED <<slots, granted, skew>>, NEW c, NEW a, ask' = [ask EXCEPT ![c] = a],
         DOMAIN a = {"pc", "now", "first", "tried", "wait"},
         c \in Caller /\ a.pc = "try" => a.now \in Now(c) - MaxLag .. Now(c)
  PROVE  SlotInv'
<1>1. slots' \in [Bot -> SUBSET Int] /\ \A b \in Bot : IsFiniteSet(slots'[b])
  BY DEF SlotInv, SlotsTyped
<1>2. SlotsTyped' /\ AsksTimely'
  BY <1>1, AskKeeps DEF SlotInv
<1>3. Recorded' /\ Paced'
  BY <1>2, PruneKeeps
<1> QED
  BY <1>2, <1>3 DEF SlotInv

\* The next bot is tried with the same clock.
LEMMA NextBotAsks ==
  ASSUME SlotsTyped, AsksTimely, NEW c \in Caller, ask[c].pc = "try", NextBot(c)
  PROVE  \E a : /\ ask' = [ask EXCEPT ![c] = a] /\ DOMAIN a = {"pc", "now", "first", "tried", "wait"}
                /\ a.now \in Now(c) - MaxLag .. Now(c)
<1> DEFINE a == [ask[c] EXCEPT !.tried = @ + 1, !.pc = IF ask[c].tried + 1 = Len(bots[ServiceOf(c)]) THEN "full" ELSE "try"]
<1>1. /\ DOMAIN ask[c] = {"pc", "now", "first", "tried", "wait"}
      /\ ask[c].now \in Now(c) - MaxLag .. Now(c)
  BY DEF SlotsTyped, AsksTimely
<1>2. DOMAIN a = {"pc", "now", "first", "tried", "wait"} /\ a.now = ask[c].now
  BY <1>1
<1>3. ask' = [ask EXCEPT ![c] = a]
  BY DEF NextBot, SlotsTyped
<1> HIDE DEF a
<1> QED
  BY <1>1, <1>2, <1>3

LEMMA NoAskTyped == DOMAIN NoAsk = {"pc", "now", "first", "tried", "wait"} /\ NoAsk.pc = "none"
BY DEF NoAsk

\* The script is run for one bot.
LEMMA TryBotKeeps ==
  ASSUME SlotInv, NEW c \in Caller, TryBot(c)
  PROVE  SlotInv'
<1> DEFINE b == BotOf(c)
           now == ask[c].now
<1>1. /\ SlotsTyped /\ AsksTimely /\ ask[c].pc = "try" /\ skew' = skew
  BY DEF SlotInv, TryBot
<1>2. now \in Int /\ -MaxLag <= now /\ now + MaxLag <= Slack
  BY <1>1, SlackBounds DEF AsksTimely
<1>3. CASE Admits(b, now)
  <2>1. /\ slots' = [slots EXCEPT ![b] = InWindow(b, now) \cup {now}]
        /\ granted' = [granted EXCEPT ![b][0] = @ + 1]
        /\ ask' = [ask EXCEPT ![c] = [NoAsk EXCEPT !.pc = "granted"]]
    BY <1>3 DEF TryBot
  <2> HIDE DEF b, now
  <2>2. /\ DOMAIN [NoAsk EXCEPT !.pc = "granted"] = {"pc", "now", "first", "tried", "wait"}
        /\ [NoAsk EXCEPT !.pc = "granted"].pc = "granted"
    BY DEF NoAsk
  <2>3. CASE b \in Bot
    <3>1. slots' \in [Bot -> SUBSET Int] /\ \A x \in Bot : IsFiniteSet(slots'[x])
      <4>1. InWindow(b, now) \cup {now} \in SUBSET Int /\ IsFiniteSet(InWindow(b, now) \cup {now})
        BY <1>1, <1>2, <2>3, InWindowTyped, FS_AddElement
      <4> QED
        BY <1>1, <2>1, <2>3, <4>1 DEF SlotsTyped
    <3>2. granted' \in [Bot -> [0 .. Window - 1 -> Nat]]
      <4>1. granted[b] \in [0 .. Window - 1 -> Nat] /\ 0 \in 0 .. Window - 1
        BY <1>1, <2>3, SlotAssumption DEF SlotsTyped
      <4>2. ASSUME NEW f \in [0 .. Window - 1 -> Nat] PROVE [f EXCEPT ![0] = @ + 1] \in [0 .. Window - 1 -> Nat]
        BY <4>1
      <4>3. [granted[b] EXCEPT ![0] = @ + 1] \in [0 .. Window - 1 -> Nat]
        BY <4>1, <4>2
      <4> QED
        BY <1>1, <2>1, <2>3, <4>3 DEF SlotsTyped
    <3>3. SlotsTyped' /\ AsksTimely'
      <4>1. \A d \in Caller : ask'[d] = (IF d = c THEN [NoAsk EXCEPT !.pc = "granted"] ELSE ask[d])
        BY <1>1, <2>1 DEF SlotsTyped
      <4>2. ask' = [d \in Caller |-> ask'[d]]
        BY <1>1, <2>1 DEF SlotsTyped
      <4>3. SlotsTyped'
        BY <1>1, <2>2, <3>1, <3>2, <4>1, <4>2 DEF SlotsTyped
      <4>4. AsksTimely'
        BY <1>1, <2>2, <4>1 DEF AsksTimely, Now
      <4> QED
        BY <4>3, <4>4
    <3>4. Recorded' /\ Paced'
      BY <1>1, <1>2, <1>3, <2>1, <2>3, <3>3, GrantKeeps
    <3> QED
      BY <3>3, <3>4 DEF SlotInv
  <2>4. CASE b \notin Bot
    <3>1. slots' = slots /\ granted' = granted
      BY <1>1, <2>1, <2>4 DEF SlotsTyped
    <3> QED
      BY <1>1, <2>1, <2>2, <3>1, CallKeeps
  <2> QED
    BY <2>3, <2>4
<1>4. CASE ~Admits(b, now)
  <2>1. slots' = [slots EXCEPT ![b] = InWindow(b, now)] /\ NextBot(c) /\ granted' = granted
    BY <1>4 DEF TryBot
  <2> HIDE DEF b, now
  <2>2. slots' \in [Bot -> SUBSET Int] /\ \A x \in Bot : IsFiniteSet(slots'[x])
    BY <1>1, <2>1, InWindowTyped DEF SlotsTyped
  <2>3. PICK a : /\ ask' = [ask EXCEPT ![c] = a] /\ DOMAIN a = {"pc", "now", "first", "tried", "wait"}
                 /\ a.now \in Now(c) - MaxLag .. Now(c)
    BY <1>1, <2>1, NextBotAsks
  <2>4. SlotsTyped' /\ AsksTimely'
    BY <1>1, <2>1, <2>2, <2>3, AskKeeps
  <2>5. \A x \in Bot : slots'[x] = slots[x] \/ slots'[x] = InWindow(x, now)
    BY <1>1, <2>1 DEF SlotsTyped
  <2>6. Recorded' /\ Paced'
    BY <1>1, <1>2, <2>1, <2>4, <2>5, PruneKeeps
  <2> QED
    BY <2>4, <2>6 DEF SlotInv
<1> QED
  BY <1>3, <1>4

LEMMA SlotStepKeeps ==
  ASSUME SlotInv, NEW c \in Caller, SlotStep(c) \/ Leave(c)
  PROVE  SlotInv'
<1>1. SlotsTyped /\ AsksTimely /\ Now(c) \in Nat /\ Now(c) + MaxLag <= Slack /\ MaxLag \in Nat
  BY SlackBounds DEF SlotInv
<1>2. CASE StartRound(c)
  <2> DEFINE a == [pc |-> "try", now |-> Now(c), first |-> turn[ServiceOf(c)], tried |-> 0, wait |-> 0]
  <2>1. ask' = [ask EXCEPT ![c] = a] /\ UNCHANGED <<slots, granted, skew>>
    BY <1>2 DEF StartRound
  <2>2. DOMAIN a = {"pc", "now", "first", "tried", "wait"} /\ a.now \in Now(c) - MaxLag .. Now(c)
    BY <1>1
  <2> HIDE DEF a
  <2> QED
    BY <2>1, <2>2, CallKeeps
<1>3. CASE TryBot(c)
  BY <1>3, TryBotKeeps
<1>4. CASE NoAnswer(c)
  <2>1. ask[c].pc = "try" /\ NextBot(c) /\ UNCHANGED <<slots, granted, skew>>
    BY <1>4 DEF NoAnswer
  <2>2. PICK a : /\ ask' = [ask EXCEPT ![c] = a] /\ DOMAIN a = {"pc", "now", "first", "tried", "wait"}
                 /\ a.now \in Now(c) - MaxLag .. Now(c)
    BY <1>1, <2>1, NextBotAsks
  <2> QED
    BY <2>1, <2>2, CallKeeps
<1>5. ASSUME NEW wait, Sleep(c, wait)
      PROVE  \E a : ask' = [ask EXCEPT ![c] = a] /\ DOMAIN a = {"pc", "now", "first", "tried", "wait"} /\ a.pc = "wait"
  <2> DEFINE a == [NoAsk EXCEPT !.pc = "wait", !.wait = wait]
  <2>1. DOMAIN a = {"pc", "now", "first", "tried", "wait"} /\ a.pc = "wait"
    BY DEF NoAsk
  <2>2. ask' = [ask EXCEPT ![c] = a]
    BY <1>5 DEF Sleep
  <2> HIDE DEF a
  <2> QED
    BY <2>1, <2>2
<1>6. CASE Measure(c)
  <2>1. /\ slots' = [b \in Bot |-> IF b \in Range(bots[ServiceOf(c)]) THEN InWindow(b, Now(c)) ELSE slots[b]]
        /\ Sleep(c, GetWaitTime(c)) /\ UNCHANGED <<granted, skew>>
    BY <1>6 DEF Measure
  <2>2. slots' \in [Bot -> SUBSET Int] /\ \A x \in Bot : IsFiniteSet(slots'[x])
    BY <1>1, <2>1, InWindowTyped DEF SlotsTyped
  <2>3. PICK a : /\ ask' = [ask EXCEPT ![c] = a] /\ DOMAIN a = {"pc", "now", "first", "tried", "wait"}
                 /\ a.pc = "wait"
    BY <1>5, <2>1
  <2>4. SlotsTyped' /\ AsksTimely'
    BY <1>1, <2>1, <2>2, <2>3, AskKeeps
  <2>5. \A x \in Bot : slots'[x] = slots[x] \/ slots'[x] = InWindow(x, Now(c))
    BY <2>1
  <2>6. Recorded' /\ Paced'
    BY <1>1, <2>1, <2>4, <2>5, PruneKeeps
  <2> QED
    BY <2>4, <2>6 DEF SlotInv
<1>7. CASE NoMeasure(c)
  <2>1. UNCHANGED <<slots, granted, skew>> /\ \E wait : Sleep(c, wait)
    BY <1>7 DEF NoMeasure
  <2>2. PICK a : /\ ask' = [ask EXCEPT ![c] = a] /\ DOMAIN a = {"pc", "now", "first", "tried", "wait"}
                 /\ a.pc = "wait"
    BY <1>5, <2>1
  <2> QED
    BY <2>1, <2>2, CallKeeps
<1>8. CASE SendWithSlot(c) \/ Leave(c)
  <2> DEFINE a == [NoAsk EXCEPT !.pc = "done"]
  <2>1. ask' = [ask EXCEPT ![c] = a] /\ UNCHANGED <<slots, granted, skew>>
    BY <1>8 DEF SendWithSlot, Leave
  <2>2. DOMAIN a = {"pc", "now", "first", "tried", "wait"} /\ a.pc = "done"
    BY DEF NoAsk
  <2> HIDE DEF a
  <2> QED
    BY <2>1, <2>2, CallKeeps
<1> QED
  BY <1>2, <1>3, <1>4, <1>6, <1>7, <1>8 DEF SlotStep

LEMMA SlotInvStep ==
  ASSUME SlotInv, [Next]_vars
  PROVE  SlotInv'
<1>1. CASE UNCHANGED slotVars
  <2>1. UNCHANGED <<slots, granted, skew, ask>>
    BY <1>1 DEF slotVars
  <2>2. SlotsTyped' /\ AsksTimely'
    BY <2>1 DEF SlotInv, SlotsTyped, AsksTimely, Now
  <2>3. Recorded' /\ Paced'
    BY <2>1, <2>2, PruneKeeps
  <2> QED
    BY <2>2, <2>3 DEF SlotInv
<1>2. ASSUME NEW w \in Worker, UseSlot(w) PROVE SlotInv'
  <2>1. UNCHANGED <<slots, granted, skew>> /\ (ask' = [ask EXCEPT ![w] = NoAsk] \/ ask' = ask)
    BY <1>2 DEF UseSlot
  <2>2. CASE ask' = [ask EXCEPT ![w] = NoAsk]
    BY <2>1, <2>2, NoAskTyped, CallKeeps
  <2>3. CASE ask' = ask
    <3>1. SlotsTyped' /\ AsksTimely'
      BY <2>1, <2>3 DEF SlotInv, SlotsTyped, AsksTimely, Now
    <3>2. Recorded' /\ Paced'
      BY <2>1, <3>1, PruneKeeps
    <3> QED
      BY <3>1, <3>2 DEF SlotInv
  <2> QED
    BY <2>1, <2>2, <2>3
<1>3. ASSUME NEW c \in Caller, SlotStep(c) \/ Leave(c) PROVE SlotInv'
  BY <1>3, SlotStepKeeps
<1>4. CASE SlotTick
  BY <1>4, TickKeeps
<1> QED
  BY <1>1, <1>2, <1>3, <1>4, SlotSteps

LEMMA SlotsInitially ==
  ASSUME Init
  PROVE  SlotInv
<1>1. /\ slots = [b \in Bot |-> {}] /\ granted = [b \in Bot |-> [t \in 0 .. Window - 1 |-> 0]]
      /\ ask = [c \in Caller |-> NoAsk] /\ skew \in [Service -> 0 .. MaxSkew] /\ \E s \in Service : skew[s] = 0
  BY DEF Init, SlotInit
<1>2. SlotsTyped
  BY <1>1, FS_EmptySet, NoAskTyped, SlotAssumption DEF SlotsTyped
<1>3. AsksTimely
  BY <1>1, NoAskTyped DEF AsksTimely
<1>4. ASSUME NEW b \in Bot, NEW n \in Int, n <= Window - 1 PROVE SumFunctionOnSet(granted[b], 0 .. n) = 0
  <2>1. IsFiniteSet(0 .. n) /\ \A t \in 0 .. n : granted[b][t] = 0
    <3>1. IsFiniteSet(0 .. n)
      BY FS_Interval
    <3>2. \A t \in 0 .. n : t \in 0 .. Window - 1
      BY <1>4, SlotAssumption
    <3>3. granted[b] = [t \in 0 .. Window - 1 |-> 0]
      BY <1>1
    <3> QED
      BY <3>1, <3>2, <3>3
  <2> DEFINE S == 0 .. n
             f == granted[b]
  <2>2. IsFiniteSet(S) /\ \A t \in S : f[t] = 0
    BY <2>1
  <2> HIDE DEF S, f
  <2>3. SumFunctionOnSet(f, S) = 0
    BY ONLY <2>2, SumZero
  <2> QED
    BY <2>3 DEF S, f
<1>5. Recorded
  <2> SUFFICES ASSUME NEW b \in Bot, NEW T \in 0 .. Window - Slack PROVE Recent(b, T) <= Cardinality(Latest(b, T))
    BY DEF Recorded
  <2>1. T - 1 \in Int /\ T - 1 <= Window - 1
    BY <1>2, SlackBounds
  <2>2. Recent(b, T) = 0
    BY <1>4, <2>1 DEF Recent
  <2> QED
    BY <1>2, <2>2, RecentTyped
<1>6. Paced
  <2>1. Window - 1 - Slack \in Int /\ Window - 1 - Slack <= Window - 1
    BY <1>2, SlackBounds
  <2> QED
    BY <1>4, <2>1, SlotAssumption DEF Paced
<1> QED
  BY <1>2, <1>3, <1>5, <1>6 DEF SlotInv

\* No bot gets more than Limit slots in a window, less what the clocks of the two
\* services differ and what a call may take, for any number of bots and of uploads of
\* both services, whatever calls Redis does not answer: each round of acquireUploadSlot
\* runs the script with the clock that it took when it began.
THEOREM BotsPaced == Spec => []Paced
<1>1. Init => SlotInv
  BY SlotsInitially
<1>2. SlotInv /\ [Next]_vars => SlotInv'
  BY SlotInvStep
<1>3. SlotInv => Paced
  BY DEF SlotInv
<1> QED
  BY <1>1, <1>2, <1>3, PTL DEF Spec
=============================================================================
