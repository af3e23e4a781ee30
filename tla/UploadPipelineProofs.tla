----------------------- MODULE UploadPipelineProofs -----------------------
(***************************************************************************)
(* Proofs about UploadPipeline, for any number of chunks, jobs, instances  *)
(* and handlers, and about UploadClient, the browser at its other end.     *)
(***************************************************************************)
EXTENDS UploadPipeline, Client, FiniteSetTheorems, TLAPS

\* A job that left its initial state belongs to a chunk, and so does a result
\* that the core has still to store.
HasChunk ==
  /\ \A j \in Job : req[j] # "idle" \/ stage[j] # "none" => chunkOf[j] \in Chunk
  /\ \A k \in Call : \A j \in call[k].todo : chunkOf[j] \in Chunk

Typed == TypeOK /\ HasChunk

LEMMA InitTyped == Init => Typed
BY BoundsAssumption DEF Init, Typed, HasChunk, TypeOK, Statuses, ReqPcs, Stages, CallPcs,
  CmpPcs, AbtPcs, FreeCall, NoAbort, CallState, CmpState, AbtState

LEMMA RequestTyped ==
  ASSUME Typed, NEW j \in Job, RequestStep(j)
  PROVE  Typed'
<1>. USE DEF Typed, HasChunk, TypeOK, ReqPcs, Stages, db, job, core, button
<1>1. ASSUME NEW c \in Chunk, ChunkCheck(j, c)  PROVE Typed'
  BY <1>1 DEF ChunkCheck
<1>2. ASSUME ChunkAccept(j)  PROVE Typed'
  BY <1>2 DEF ChunkAccept
<1>3. ASSUME CountJob(j)  PROVE Typed'
  BY <1>3 DEF CountJob
<1>4. ASSUME PersistRow(j)  PROVE Typed'
  BY <1>4 DEF PersistRow, PlaceRow
<1>5. ASSUME StreamRefused(j)  PROVE Typed'
  BY <1>5 DEF StreamRefused
<1>6. ASSUME NEW k \in Call, StreamChunk(j, k)  PROVE Typed'
  BY <1>6 DEF StreamChunk, CallState, CallPcs, FreeCall
<1>7. ASSUME NEW c \in Chunk, RecoverChunk(c, j)  PROVE Typed'
  <2>1. CASE HasRoom(inst[j])
    <3>1. /\ chunkOf' = [chunkOf EXCEPT ![j] = c]
          /\ stage' = [stage EXCEPT ![j] = "queued"]
          /\ req' = [req EXCEPT ![j] = "recovering"]
          /\ recover' \in SUBSET Chunk
          /\ UNCHANGED <<db, charged, spoiled, temp, outstanding, inst, attempt, call, cmp, abt, button>>
      BY <1>7, <2>1 DEF RecoverChunk
    <3>2. TypeOK'
      BY <3>1
    <3>. QED  BY <3>1, <3>2
  <2>2. CASE ~HasRoom(inst[j])
    BY <1>7, <2>2 DEF RecoverChunk
  <2>. QED  BY <2>1, <2>2
<1>. QED  BY <1>1, <1>2, <1>3, <1>4, <1>5, <1>6, <1>7 DEF RequestStep

LEMMA WorkerTyped ==
  ASSUME Typed, NEW j \in Job, WorkerStep(j)
  PROVE  Typed'
<1>. USE DEF Typed, HasChunk, TypeOK, Stages, db, job, core, button
<1>1. ASSUME StartJob(j)  PROVE Typed'
  BY <1>1 DEF StartJob
<1>2. ASSUME JobError(j), stage[j] # "none"  PROVE Typed'
  BY <1>2, BoundsAssumption DEF JobError
<1>3. ASSUME StartFails(j)  PROVE Typed'
  BY <1>2, <1>3 DEF StartFails
<1>4. ASSUME UploadRefused(j)  PROVE Typed'
  BY <1>2, <1>4 DEF UploadRefused
<1>5. ASSUME Uploaded(j)  PROVE Typed'
  BY <1>5 DEF Uploaded
<1>6. ASSUME Redeliver(j)  PROVE Typed'
  BY <1>6 DEF Redeliver
<1>7. ASSUME ReportFailure(j)  PROVE Typed'
  BY <1>7 DEF ReportFailure, Statuses
<1>8. ASSUME DiscardJob(j)  PROVE Typed'
  BY <1>8 DEF DiscardJob, Decr
<1>. QED  BY <1>1, <1>3, <1>4, <1>5, <1>6, <1>7, <1>8 DEF WorkerStep

\* A handler of the core that moves to its next step keeps its types.
LEMMA CallMoves ==
  ASSUME TypeOK, NEW k \in Call, NEW p \in CallPcs, call' = [call EXCEPT ![k].pc = p]
  PROVE  /\ call' \in [Call -> CallState]
         /\ \A h \in Call : call'[h].todo = call[h].todo
BY DEF TypeOK, CallState

LEMMA HandlerTyped ==
  ASSUME Typed, NEW k \in Call, HandlerStep(k)
  PROVE  Typed'
<1>. USE DEF Typed, HasChunk, TypeOK, db, job, core, button
<1>1. ASSUME NEW j \in Job, UpsertChunk(k, j)  PROVE Typed'
  <2>1. /\ call' \in [Call -> CallState]
        /\ \A h \in Call : call'[h].todo \subseteq call[h].todo
    BY <1>1 DEF UpsertChunk, CallState
  <2>2. chunkOf[j] \in Chunk
    BY <1>1 DEF UpsertChunk
  <2>. QED  BY <1>1, <2>1, <2>2 DEF UpsertChunk
<1>2. ASSUME FinalizeCheck(k)  PROVE Typed'
  <2>1. PICK p \in CallPcs : call' = [call EXCEPT ![k].pc = p]
    BY <1>2 DEF FinalizeCheck, CallPcs
  <2>. QED  BY <1>2, <2>1, CallMoves DEF FinalizeCheck
<1>3. ASSUME FinalizeFlip(k)  PROVE Typed'
  <2>1. PICK p \in CallPcs : call' = [call EXCEPT ![k].pc = p]
    BY <1>3 DEF FinalizeFlip, CallPcs
  <2>. QED  BY <1>3, <2>1, CallMoves DEF FinalizeFlip, Statuses
<1>4. ASSUME FinalizeCharge(k)  PROVE Typed'
  <2>1. PICK p \in CallPcs : call' = [call EXCEPT ![k].pc = p]
    BY <1>4 DEF FinalizeCharge, CallPcs
  <2>2. /\ call' \in [Call -> CallState]
        /\ \A h \in Call : call'[h].todo = call[h].todo
    BY <2>1, CallMoves
  <2>. QED  BY <1>4, <2>2 DEF FinalizeCharge
<1>5. ASSUME CallEnds(k)  PROVE Typed'
  BY <1>5 DEF CallEnds, FreeCall, CallState, CallPcs
<1>. QED  BY <1>1, <1>2, <1>3, <1>4, <1>5 DEF HandlerStep

\* A call that nobody waits for gains no results and reaches no new step.
LEMMA Abandoned ==
  ASSUME TypeOK, NEW k \in Call, Abandon(k)
  PROVE  /\ call' \in [Call -> CallState]
         /\ \A h \in Call : /\ call'[h].todo \subseteq call[h].todo
                           /\ call'[h].pc \in {call[h].pc, "idle"}
<1>. USE DEF TypeOK, CallState, CallPcs
<1>1. CASE call' = [call EXCEPT ![k].batch = {}]
  BY <1>1
<1>2. CASE call' = [call EXCEPT ![k] = FreeCall]
  BY <1>2 DEF FreeCall
<1>. QED  BY <1>1, <1>2 DEF Abandon

LEMMA ReporterTyped ==
  ASSUME Typed, NEW k \in Call, ReporterStep(k)
  PROVE  Typed'
<1>. USE DEF Typed, HasChunk, TypeOK, CallState, CallPcs, Stages, db, job, core, button, FreeCall
<1>1. ASSUME NEW i \in Instance, Flush(i, k)  PROVE Typed'
  BY <1>1 DEF Flush, FlushSend, JobsAt, StageOf
<1>2. ASSUME FlushDone(k)  PROVE Typed'
  <2>1. Cardinality(call[k].batch) \in Nat
    BY SetsAssumption, FS_CardinalityType, FS_Subset
  <2>2. \A j \in call[k].batch : chunkOf[j] \in Chunk
    BY <1>2 DEF FlushDone, Buffered
  <2>. QED  BY <1>2, <2>1, <2>2 DEF FlushDone, Buffered, StageOf, Decr
<1>3. ASSUME FlushError(k)  PROVE Typed'
  <2>1. /\ call' \in [Call -> CallState]
        /\ \A h \in Call : call'[h].todo \subseteq call[h].todo
    BY <1>3, Abandoned DEF FlushError
  <2>. QED  BY <1>3, <2>1 DEF FlushError, Buffered, Requeue, StageOf
<1>4. ASSUME StreamDone(k)  PROVE Typed'
  BY <1>4 DEF StreamDone, Streamed, StageOf, ReqPcs
<1>5. ASSUME StreamError(k)  PROVE Typed'
  <2>1. /\ call' \in [Call -> CallState]
        /\ \A h \in Call : call'[h].todo \subseteq call[h].todo
    BY <1>5, Abandoned DEF StreamError
  <2>. QED  BY <1>5, <2>1 DEF StreamError, Streamed, StageOf, ReqPcs
<1>6. ASSUME FinalizeError(k)  PROVE Typed'
  <2>1. call' = [call EXCEPT ![k].pc = "replied"]
    BY <1>6 DEF FinalizeError
  <2>. QED  BY <1>6, <2>1, CallMoves DEF FinalizeError
<1>. QED  BY <1>1, <1>2, <1>3, <1>4, <1>5, <1>6 DEF ReporterStep

\* A /complete request that moves to its next step keeps its types.
LEMMA CompleteMoves ==
  ASSUME TypeOK, NEW q \in Completer, NEW p \in CmpPcs, CompleteGoto(q, p)
  PROVE  cmp' \in [Completer -> CmpState]
<1>1. cmp[q] \in CmpState
  BY DEF TypeOK
<1>2. [cmp[q] EXCEPT !.pc = p] \in CmpState
  BY <1>1 DEF CmpState
<1>. QED  BY <1>2 DEF TypeOK, CompleteGoto

LEMMA CompleteWith ==
  ASSUME NEW r \in CmpState, NEW p \in CmpPcs, NEW S \in SUBSET Job
  PROVE  /\ [r EXCEPT !.pc = p, !.sent = S] \in CmpState
         /\ [r EXCEPT !.out = 0, !.pc = p] \in CmpState
BY DEF CmpState

LEMMA CompleteTyped ==
  ASSUME Typed, NEW q \in Completer,
         CompleteStep(q) \/ \E i \in Instance : CompleteBegin(q, i)
  PROVE  Typed'
<1>. USE DEF Typed, HasChunk, TypeOK, db, job, core, button
<1>0. cmp \in [Completer -> CmpState] /\ cmp[q] \in CmpState
  OBVIOUS
<1>1. ASSUME NEW i \in Instance, CompleteBegin(q, i)  PROVE Typed'
  <2>1. [pc |-> "flush", at |-> i, sent |-> {}, out |-> 0, asked |-> Accepted] \in CmpState
    BY DEF CmpState, CmpPcs, Accepted
  <2>. QED  BY <1>1, <2>1 DEF CompleteBegin
<1>2. ASSUME NEW k \in Call, CompleteFlush(q, k)  PROVE Typed'
  <2>1. CASE FlushSend(cmp[q].at, k) /\ cmp[q].pc = "flush"
    <3>0. JobsAt(cmp[q].at, "reported") \in SUBSET Job /\ "wait" \in CmpPcs
      BY DEF JobsAt, CmpPcs
    <3>1. [cmp[q] EXCEPT !.pc = "wait", !.sent = JobsAt(cmp[q].at, "reported")] \in CmpState
      BY ONLY <1>0, <3>0, CompleteWith, Zenon
    <3>. QED
      BY <1>2, <2>1, <3>1 DEF CompleteFlush, FlushSend, JobsAt, StageOf, FreeCall,
         CallState, CallPcs, Stages
  <2>2. CASE JobsAt(cmp[q].at, "reported") = {}
    <3>1. CompleteGoto(q, "count") /\ UNCHANGED <<stage, call>>
      BY <1>2, <2>2 DEF CompleteFlush, FlushSend
    <3>. QED  BY <1>2, <3>1, CompleteMoves DEF CompleteFlush, CmpPcs
  <2>. QED  BY <1>2, <2>1, <2>2 DEF CompleteFlush
<1>3. ASSUME CompleteFlushed(q)  PROVE Typed'
  <2>1. [cmp[q] EXCEPT !.pc = "count", !.sent = {}] \in CmpState
    BY DEF CmpState, CmpPcs
  <2>. QED  BY <1>3, <2>1 DEF CompleteFlushed
<1>4. ASSUME CompleteCount(q)  PROVE Typed'
  <2>1. [cmp[q] EXCEPT !.pc = "metadata", !.out = outstanding] \in CmpState
    BY DEF CmpState, CmpPcs
  <2>. QED  BY <1>4, <2>1 DEF CompleteCount
<1>5. ASSUME CompleteConfirm(q)  PROVE Typed'
  <2>1. \A p \in CmpPcs : [cmp[q] EXCEPT !.out = 0, !.pc = p] \in CmpState
    BY <1>0, CompleteWith, Zenon
  <2>2. PICK p \in CmpPcs : cmp' = [cmp EXCEPT ![q] = [cmp[q] EXCEPT !.out = 0, !.pc = p]]
    BY <1>5 DEF CompleteConfirm, CmpPcs
  <2>3. cmp' \in [Completer -> CmpState]
    <3>. DEFINE r == [cmp[q] EXCEPT !.out = 0, !.pc = p]
    <3>1. r \in CmpState /\ cmp' = [cmp EXCEPT ![q] = r]
      BY ONLY <2>1, <2>2, Zenon
    <3>. HIDE DEF r
    <3>. QED  BY <1>0, <3>1
  <2>. QED  BY <1>5, <2>3 DEF CompleteConfirm
<1>6. ASSUME CompleteReread(q)  PROVE Typed'
  <2>1. PICK p \in CmpPcs : CompleteGoto(q, p)
    BY <1>6 DEF CompleteReread, CmpPcs
  <2>. QED  BY <1>6, <2>1, CompleteMoves DEF CompleteReread
<1>7. ASSUME CompleteFlip(q)  PROVE Typed'
  <2>1. PICK p \in CmpPcs : CompleteGoto(q, p)
    BY <1>7 DEF CompleteFlip, CmpPcs
  <2>. QED  BY <1>7, <2>1, CompleteMoves DEF CompleteFlip, Statuses
<1>8. ASSUME CompleteCharge(q)  PROVE Typed'
  <2>1. CompleteGoto(q, "ok") /\ "ok" \in CmpPcs
    BY <1>8 DEF CompleteCharge, CmpPcs
  <2>. QED  BY <1>8, <2>1, CompleteMoves DEF CompleteCharge
<1>9. ASSUME CompletePark(q)  PROVE Typed'
  <2>1. CompleteGoto(q, "ok") /\ "ok" \in CmpPcs
    BY <1>9 DEF CompletePark, CmpPcs
  <2>. QED  BY <1>9, <2>1, CompleteMoves DEF CompletePark, Parked, Statuses
<1>. QED  BY <1>1, <1>2, <1>3, <1>4, <1>5, <1>6, <1>7, <1>8, <1>9 DEF CompleteStep

LEMMA OtherTyped ==
  ASSUME Typed, AbortStep \/ BufferRetry \/ (\E i \in Instance : GoCrash(i)) \/ CoreCrash
  PROVE  Typed'
<1>. USE DEF Typed, HasChunk, TypeOK, Statuses, db, job, core, button
<1>1. ASSUME AbortStep  PROVE Typed'
  BY <1>1 DEF AbortStep, AbortBegin, AbortMark, AbortReread, AbortSweep, AbortRemove,
     AbtState, AbtPcs, NoAbort
<1>2. ASSUME BufferRetry  PROVE Typed'
  BY <1>2 DEF BufferRetry, RetryFind, RetryWrite
<1>3. ASSUME NEW i \in Instance, GoCrash(i)  PROVE Typed'
  <2>1. /\ call' \in [Call -> CallState]
        /\ \A k \in Call : call'[k].todo = call[k].todo
    BY <1>3 DEF GoCrash, CallState
  <2>2. \A q \in Completer : cmp[q] \in CmpState /\ [cmp[q] EXCEPT !.pc = "error"] \in CmpState
    BY DEF CmpState, CmpPcs
  <2>3. cmp' \in [Completer -> CmpState]
    BY <1>3, <2>2 DEF GoCrash
  <2>. QED  BY <1>3, <2>1, <2>3 DEF GoCrash, Stages, ReqPcs
<1>4. ASSUME CoreCrash  PROVE Typed'
  <2>1. /\ call' \in [Call -> CallState]
        /\ \A k \in Call : call'[k].todo = {}
    BY <1>4, ZenonT(30) DEF CoreCrash, CallState, CallPcs
  <2>2. \A q \in Completer : \A p \in {"ok", "error"} : [cmp[q] EXCEPT !.pc = p] \in CmpState
    BY DEF CmpState, CmpPcs
  <2>3. cmp' \in [Completer -> CmpState]
    BY <1>4, <2>2 DEF CoreCrash
  <2>. QED  BY <1>4, <2>1, <2>3 DEF CoreCrash, NoAbort, AbtState, AbtPcs
<1>. QED  BY <1>1, <1>2, <1>3, <1>4

\* Typed is inductive.
LEMMA TypedStep == Typed /\ [Next]_vars => Typed'
<1>1. ASSUME Typed, UNCHANGED vars  PROVE Typed'
  BY <1>1 DEF Typed, HasChunk, TypeOK, vars, db, job, core, button
<1>. QED
  BY <1>1, RequestTyped, WorkerTyped, HandlerTyped, ReporterTyped, CompleteTyped,
     OtherTyped DEF Next

\* Every variable keeps its type, whatever fails.
THEOREM TypeCorrect == Spec => []TypeOK
<1>1. Typed => TypeOK
  BY DEF Typed
<1>. QED  BY InitTyped, TypedStep, <1>1, PTL DEF Spec

-----------------------------------------------------------------------------
(* Every step, seen from the record: what it does to the status, to the
   landed chunks, to the handlers that are about to flip and to those that are
   about to charge.  The theorems below argue about these kinds of step.   *)

Flipping == {k \in Call : call[k].pc = "flip"} \cup {q \in Completer : cmp[q].pc = "flip"}

\* The retry button is not pressed, and what was pressed may be given up.
Calms ==
  \/ UNCHANGED button
  \/ presses' \in 0 .. presses /\ reopened' = reopened

Fewer ==
  /\ Flipping' \subseteq Flipping /\ Owed' \subseteq Owed
  /\ Calms
Still == Flipping' = Flipping /\ Owed' = Owed /\ UNCHANGED button

Quiet == UNCHANGED <<status, msg, charged>> /\ Fewer

Lands(c) ==
  /\ status # "none" /\ Landed' = Landed \cup {c}
  /\ UNCHANGED <<status, charged>> /\ Still

Sees == AllLanded /\ UNCHANGED <<status, msg, charged, button>> /\ Owed' \subseteq Owed

Wins(h) ==
  /\ h \in Flipping /\ status \in Open
  /\ status' = "complete" /\ Owed' = Owed \cup {h} /\ Flipping' \subseteq Flipping
  /\ UNCHANGED <<msg, charged, button>>

Charges(h) ==
  /\ h \in Owed /\ Owed' = Owed \ {h}
  /\ charged' = charged + 1 /\ Flipping' \subseteq Flipping
  /\ UNCHANGED <<status, msg, button>>

Demotes ==
  /\ status # "none" /\ status' \in {"aborted", "buffer_failed"}
  /\ UNCHANGED <<msg, charged>> /\ Still

Parks ==
  /\ status = "uploading" /\ status' = "buffered"
  /\ UNCHANGED <<msg, charged>> /\ Still

Asks ==
  /\ status = "buffer_failed" /\ presses' = presses + 1
  /\ UNCHANGED <<status, msg, charged, reopened, Flipping, Owed>>

Reopens ==
  /\ status # "none" /\ status' = "buffered"
  /\ presses > 0 /\ presses' = presses - 1 /\ reopened' = reopened + 1
  /\ UNCHANGED <<msg, charged, Flipping, Owed>>

Removes == status' = "none" /\ Landed' = {} /\ UNCHANGED charged /\ Still

Kind ==
  \/ Quiet \/ Sees \/ Demotes \/ Parks \/ Asks \/ Reopens \/ Removes
  \/ \E c \in Chunk : Lands(c)
  \/ \E h \in Call \cup Completer : Wins(h) \/ Charges(h)

\* A handler of the core that moves is the only one that moves.
LEMMA CallGoes ==
  ASSUME TypeOK, NEW k \in Call, NEW p, call' = [call EXCEPT ![k].pc = p]
  PROVE  \A h \in Call : call'[h].pc = IF h = k THEN p ELSE call[h].pc
BY DEF TypeOK, CallState

LEMMA CmpGoes ==
  ASSUME TypeOK, NEW q \in Completer, NEW p, CompleteGoto(q, p)
  PROVE  \A h \in Completer : cmp'[h].pc = IF h = q THEN p ELSE cmp[h].pc
BY DEF TypeOK, CmpState, CompleteGoto

LEMMA RequestKind ==
  ASSUME Typed, NEW j \in Job, RequestStep(j)
  PROVE  Quiet
<1>. USE DEF Quiet, db, core
<1>1. (UNCHANGED <<call, cmp, button>>) => Fewer
  BY DEF Fewer, Flipping, Owed, Calms
<1>2. ASSUME NEW k \in Call, StreamChunk(j, k)  PROVE Quiet
  BY <1>2 DEF StreamChunk, Fewer, Flipping, Owed, Calms, Typed, TypeOK
<1>3. ASSUME NEW c \in Chunk, ChunkCheck(j, c) \/ RecoverChunk(c, j)  PROVE Quiet
  BY <1>1, <1>3 DEF ChunkCheck, RecoverChunk
<1>4. ASSUME ChunkAccept(j) \/ CountJob(j) \/ PersistRow(j) \/ StreamRefused(j)
      PROVE  Quiet
  BY <1>1, <1>4 DEF ChunkAccept, CountJob, PersistRow, PlaceRow, StreamRefused
<1>. QED  BY <1>2, <1>3, <1>4 DEF RequestStep

LEMMA WorkerKind ==
  ASSUME Typed, NEW j \in Job, WorkerStep(j)
  PROVE  Quiet \/ Demotes
<1>1. (UNCHANGED <<call, cmp, button>>) => Fewer /\ Still
  BY DEF Fewer, Still, Flipping, Owed, Calms
<1>2. CASE ReportFailure(j)
  BY <1>1, <1>2 DEF ReportFailure, Quiet, Demotes, core
<1>3. CASE StartFails(j) \/ UploadRefused(j)
  BY <1>1, <1>3 DEF StartFails, UploadRefused, JobError, Quiet, db, core
<1>4. CASE StartJob(j) \/ Uploaded(j) \/ Redeliver(j) \/ DiscardJob(j)
  BY <1>1, <1>4 DEF StartJob, Uploaded, Redeliver, DiscardJob, Quiet, db, core
<1>. QED  BY <1>2, <1>3, <1>4 DEF WorkerStep

LEMMA HandlerKind ==
  ASSUME Typed, NEW k \in Call, HandlerStep(k)
  PROVE  Kind
<1>. USE DEF Kind
<1>. DEFINE Goes(p) == \A h \in Call : call'[h].pc = IF h = k THEN p ELSE call[h].pc
<1>0. TypeOK /\ HasChunk
  BY DEF Typed
<1>1. ASSUME NEW j \in Job, UpsertChunk(k, j)  PROVE Kind
  <2>1. \A h \in Call : call'[h].pc = call[h].pc
    BY <1>0, <1>1 DEF UpsertChunk, TypeOK, CallState
  <2>2. Fewer /\ Still
    BY <1>1, <2>1 DEF UpsertChunk, Fewer, Still, Flipping, Owed, Calms
  <2>3. CASE UNCHANGED msg
    BY <1>1, <2>2, <2>3 DEF UpsertChunk, Quiet
  <2>4. CASE msg' # msg
    <3>1. chunkOf[j] \in Chunk /\ msg' = [msg EXCEPT ![chunkOf[j]] = j]
      BY <1>0, <1>1, <2>4 DEF UpsertChunk, HasChunk
    <3>2. Landed' = Landed \cup {chunkOf[j]}
      BY <1>0, <3>1, NoneAssumption DEF Landed, TypeOK
    <3>3. Lands(chunkOf[j])
      BY <1>1, <2>2, <2>4, <3>2 DEF UpsertChunk, Lands
    <3>. QED  BY <3>1, <3>3
  <2>. QED  BY <2>3, <2>4
<1>2. ASSUME FinalizeCheck(k)  PROVE Kind
  <2>1. CASE AllLanded
    <3>1. PICK p \in {"flip", "replied"} : call' = [call EXCEPT ![k].pc = p]
      BY <1>2 DEF FinalizeCheck
    <3>2. Goes(p)
      BY <1>0, <3>1, CallGoes, ZenonT(30)
    <3>. QED  BY <1>2, <2>1, <3>2 DEF FinalizeCheck, Sees, Owed, db
  <2>2. CASE ~AllLanded
    <3>1. call' = [call EXCEPT ![k].pc = "replied"]
      BY <1>2, <2>2 DEF FinalizeCheck
    <3>2. Goes("replied")
      BY <1>0, <3>1, CallGoes, ZenonT(30)
    <3>. QED  BY <1>2, <3>2 DEF FinalizeCheck, Quiet, Fewer, Flipping, Owed, Calms, db
  <2>. QED  BY <2>1, <2>2
<1>3. ASSUME FinalizeFlip(k)  PROVE Kind
  <2>1. CASE status \in Open
    <3>1. Goes("charge")
      BY <1>0, <1>3, <2>1, CallGoes DEF FinalizeFlip
    <3>2. Owed' = Owed \cup {k} /\ Flipping' \subseteq Flipping /\ k \in Flipping
      BY <1>3, <3>1 DEF FinalizeFlip, Owed, Flipping
    <3>3. Wins(k)
      BY <1>3, <2>1, <3>2 DEF FinalizeFlip, Wins
    <3>. QED  BY <3>3
  <2>2. CASE status \notin Open
    <3>1. Goes("replied")
      BY <1>0, <1>3, <2>2, CallGoes DEF FinalizeFlip
    <3>. QED  BY <1>3, <2>2, <3>1 DEF FinalizeFlip, Quiet, Fewer, Flipping, Owed, Calms
  <2>. QED  BY <2>1, <2>2
<1>4. ASSUME FinalizeCharge(k)  PROVE Kind
  <2>1. Goes("replied")
    BY <1>0, <1>4, CallGoes, ZenonT(60) DEF FinalizeCharge
  <2>2. k \in Owed /\ Owed' = Owed \ {k} /\ Flipping' \subseteq Flipping
    BY <1>4, <2>1, SetsAssumption DEF FinalizeCharge, Owed, Flipping
  <2>3. Charges(k)
    BY <1>4, <2>2 DEF FinalizeCharge, Charges, db
  <2>. QED  BY <2>3
<1>5. ASSUME CallEnds(k)  PROVE Kind
  <2>1. Fewer
    BY <1>0, <1>5 DEF CallEnds, FreeCall, Fewer, Flipping, Owed, Calms, TypeOK
  <2>. QED  BY <1>5, <2>1 DEF CallEnds, Quiet, db
<1>. QED  BY <1>1, <1>2, <1>3, <1>4, <1>5 DEF HandlerStep

LEMMA ReporterKind ==
  ASSUME Typed, NEW k \in Call, ReporterStep(k)
  PROVE  Quiet
<1>. USE DEF Quiet, Typed, TypeOK, db
<1>1. ASSUME NEW i \in Instance, Flush(i, k)  PROVE Quiet
  BY <1>1 DEF Flush, FlushSend, FreeCall, Fewer, Flipping, Owed, Calms
<1>2. ASSUME FlushDone(k) \/ StreamDone(k)  PROVE Quiet
  BY <1>2 DEF FlushDone, StreamDone, FreeCall, Fewer, Flipping, Owed, Calms
<1>3. ASSUME FlushError(k) \/ StreamError(k)  PROVE Quiet
  <2>1. \A h \in Call : call'[h].pc \in {call[h].pc, "idle"}
    BY <1>3, Abandoned DEF FlushError, StreamError
  <2>. QED  BY <1>3, <2>1 DEF FlushError, StreamError, Fewer, Flipping, Owed, Calms
<1>4. ASSUME FinalizeError(k)  PROVE Quiet
  <2>1. \A h \in Call : call'[h].pc = IF h = k THEN "replied" ELSE call[h].pc
    BY <1>4, CallGoes DEF FinalizeError
  <2>. QED  BY <1>4, <2>1 DEF FinalizeError, Fewer, Flipping, Owed, Calms
<1>. QED  BY <1>1, <1>2, <1>3, <1>4 DEF ReporterStep

LEMMA CompleteKind ==
  ASSUME Typed, NEW q \in Completer,
         CompleteStep(q) \/ \E i \in Instance : CompleteBegin(q, i)
  PROVE  Kind
<1>. USE DEF Kind
<1>. DEFINE Goes(p) == \A h \in Completer : cmp'[h].pc = IF h = q THEN p ELSE cmp[h].pc
<1>0. TypeOK
  BY DEF Typed
<1>1. (\E p \in CmpPcs \ {"flip", "charge"} : Goes(p)) /\ UNCHANGED <<call, button>> => Fewer
  BY DEF Fewer, Flipping, Owed, Calms
<1>2. ASSUME NEW i \in Instance, CompleteBegin(q, i)  PROVE Kind
  <2>1. Goes("flush")
    BY <1>0, <1>2, ZenonT(60) DEF CompleteBegin, TypeOK, CmpState
  <2>. QED  BY <1>1, <1>2, <2>1 DEF CompleteBegin, CmpPcs, Quiet, db
<1>3. ASSUME NEW k \in Call, CompleteFlush(q, k)  PROVE Kind
  <2>1. CASE FlushSend(cmp[q].at, k) /\ cmp' = [cmp EXCEPT ![q] = [@ EXCEPT !.pc = "wait",
                                               !.sent = JobsAt(cmp[q].at, "reported")]]
    <3>1. Goes("wait")
      BY <1>0, <2>1 DEF TypeOK, CmpState
    <3>2. \A h \in Call : call'[h].pc = IF h = k THEN "upsert" ELSE call[h].pc
      BY <1>0, <2>1 DEF FlushSend, TypeOK
    <3>. QED  BY <1>3, <3>1, <3>2 DEF CompleteFlush, Quiet, Fewer, Flipping, Owed, Calms, db
  <2>2. CASE CompleteGoto(q, "count") /\ UNCHANGED call
    <3>1. Goes("count")
      BY <1>0, <2>2, CmpGoes
    <3>. QED  BY <1>1, <1>3, <2>2, <3>1 DEF CompleteFlush, CmpPcs, Quiet, db
  <2>. QED  BY <1>3, <2>1, <2>2 DEF CompleteFlush
<1>4. ASSUME CompleteFlushed(q)  PROVE Kind
  <2>1. Goes("count")
    BY <1>0, <1>4 DEF CompleteFlushed, TypeOK, CmpState
  <2>. QED  BY <1>1, <1>4, <2>1 DEF CompleteFlushed, CmpPcs, Quiet, db
<1>5. ASSUME CompleteCount(q)  PROVE Kind
  <2>1. Goes("metadata")
    BY <1>0, <1>5 DEF CompleteCount, TypeOK, CmpState
  <2>. QED  BY <1>1, <1>5, <2>1 DEF CompleteCount, CmpPcs, Quiet, db
<1>6. ASSUME CompleteConfirm(q)  PROVE Kind
  <2>1. \E p \in CmpPcs \ {"flip", "charge"} : Goes(p)
    <3>1. PICK p \in {"error", "reread", "rejected"} :
             cmp' = [cmp EXCEPT ![q] = [@ EXCEPT !.out = 0, !.pc = p]]
      BY <1>6 DEF CompleteConfirm
    <3>2. Goes(p)
      BY <1>0, <3>1 DEF TypeOK, CmpState
    <3>. QED  BY <3>2 DEF CmpPcs
  <2>. QED  BY <1>1, <1>6, <2>1 DEF CompleteConfirm, Quiet, db
<1>7. ASSUME CompleteReread(q)  PROVE Kind
  <2>1. CASE AllLanded
    <3>1. PICK p \in {"error", "ok", "flip"} : CompleteGoto(q, p)
      BY <1>7, <2>1 DEF CompleteReread
    <3>2. Goes(p)
      BY <1>0, <3>1, CmpGoes
    <3>. QED  BY <1>7, <2>1, <3>2 DEF CompleteReread, Sees, Owed, db
  <2>2. CASE ~AllLanded
    <3>1. PICK p \in {"error", "ok", "park"} : CompleteGoto(q, p)
      BY <1>7, <2>2 DEF CompleteReread
    <3>2. Goes(p) /\ p \in CmpPcs \ {"flip", "charge"}
      BY <1>0, <3>1, CmpGoes DEF CmpPcs
    <3>. QED  BY <1>1, <1>7, <3>2 DEF CompleteReread, Quiet, db
  <2>. QED  BY <2>1, <2>2
<1>8. ASSUME CompleteFlip(q)  PROVE Kind
  <2>1. CASE status \in Open
    <3>1. Goes("charge")
      BY <1>0, <1>8, <2>1, CmpGoes DEF CompleteFlip
    <3>2. Owed' = Owed \cup {q} /\ Flipping' \subseteq Flipping /\ q \in Flipping
      BY <1>8, <3>1 DEF CompleteFlip, Owed, Flipping
    <3>3. Wins(q)
      BY <1>8, <2>1, <3>2 DEF CompleteFlip, Wins
    <3>. QED  BY <3>3
  <2>2. CASE status \notin Open
    <3>1. Goes("ok")
      BY <1>0, <1>8, <2>2, CmpGoes DEF CompleteFlip
    <3>. QED  BY <1>1, <1>8, <2>2, <3>1 DEF CompleteFlip, CmpPcs, Quiet
  <2>. QED  BY <2>1, <2>2
<1>9. ASSUME CompleteCharge(q)  PROVE Kind
  <2>1. Goes("ok")
    BY <1>0, <1>9, CmpGoes DEF CompleteCharge
  <2>2. q \in Owed /\ Owed' = Owed \ {q} /\ Flipping' \subseteq Flipping
    BY <1>9, <2>1, SetsAssumption DEF CompleteCharge, Owed, Flipping
  <2>3. Charges(q)
    BY <1>9, <2>2 DEF CompleteCharge, Charges, db
  <2>. QED  BY <2>3
<1>10. ASSUME CompletePark(q)  PROVE Kind
  <2>1. Goes("ok")
    BY <1>0, <1>10, CmpGoes DEF CompletePark
  <2>2. Fewer /\ Still
    BY <1>10, <2>1 DEF CompletePark, Fewer, Still, Flipping, Owed, Calms
  <2>. QED  BY <1>10, <2>2 DEF CompletePark, Parked, Parks, Quiet
<1>. QED
  BY <1>2, <1>3, <1>4, <1>5, <1>6, <1>7, <1>8, <1>9, <1>10 DEF CompleteStep

LEMMA OtherKind ==
  ASSUME Typed, AbortStep \/ BufferRetry \/ (\E i \in Instance : GoCrash(i)) \/ CoreCrash
  PROVE  Kind
<1>0. TypeOK
  BY DEF Typed
<1>1. (UNCHANGED <<call, cmp, button>>) => Fewer /\ Still
  BY DEF Fewer, Still, Flipping, Owed, Calms
<1>2. CASE AbortMark
  BY <1>1, <1>2 DEF AbortMark, Kind, Quiet, Demotes
<1>3. CASE AbortRemove
  <2>1. Landed' = {}
    BY <1>3 DEF AbortRemove, Landed
  <2>. QED  BY <1>1, <1>3, <2>1 DEF AbortRemove, Kind, Removes
<1>4. CASE AbortBegin \/ AbortReread \/ AbortSweep
  BY <1>1, <1>4 DEF AbortBegin, AbortReread, AbortSweep, Kind, Quiet, db
<1>5. CASE BufferRetry
  <2>1. UNCHANGED <<call, cmp>> => UNCHANGED <<Flipping, Owed>>
    BY DEF Flipping, Owed, Calms
  <2>2. CASE RetryFind
    BY <2>1, <2>2 DEF RetryFind, Kind, Asks, db
  <2>3. CASE RetryWrite /\ status # "none"
    BY <2>1, <2>3 DEF RetryWrite, Kind, Reopens
  <2>4. CASE RetryWrite /\ status = "none"
    BY <1>0, <2>1, <2>4 DEF RetryWrite, Kind, Quiet, Fewer, Calms, TypeOK, db
  <2>. QED  BY <1>5, <2>2, <2>3, <2>4 DEF BufferRetry, RetryFind, RetryWrite
<1>6. ASSUME NEW i \in Instance, GoCrash(i)  PROVE Kind
  <2>1. \A h \in Call : call'[h].pc = call[h].pc
    BY <1>0, <1>6 DEF GoCrash, TypeOK, CallState
  <2>2. \A q \in Completer : cmp'[q].pc \in {cmp[q].pc, "error"}
    BY <1>0, <1>6 DEF GoCrash, TypeOK, CmpState
  <2>. QED  BY <1>6, <2>1, <2>2 DEF GoCrash, Kind, Quiet, Fewer, Flipping, Owed, Calms, db
<1>7. CASE CoreCrash
  <2>1. \A h \in Call : call'[h].pc = "idle"
    BY <1>0, <1>7 DEF CoreCrash, TypeOK, CallState
  <2>2. \A q \in Completer : cmp'[q].pc \in {"ok", "error"}
    BY <1>0, <1>7 DEF CoreCrash, TypeOK, CmpState
  <2>3. presses' \in 0 .. presses /\ reopened' = reopened
    BY <1>0, <1>7 DEF CoreCrash, TypeOK
  <2>. QED  BY <1>7, <2>1, <2>2, <2>3 DEF CoreCrash, Kind, Quiet, Fewer, Flipping, Owed, Calms, db
<1>. QED  BY <1>2, <1>3, <1>4, <1>5, <1>6, <1>7 DEF AbortStep

\* Every step of the pipeline is of one of the kinds, or a stutter.
LEMMA StepKinds ==
  ASSUME Typed, [Next]_vars
  PROVE  Kind
<1>1. CASE UNCHANGED vars
  BY <1>1 DEF vars, db, core, Kind, Quiet, Fewer, Flipping, Owed, Calms
<1>2. CASE Next
  BY <1>2, RequestKind, WorkerKind, HandlerKind, ReporterKind, CompleteKind, OtherKind
     DEF Next, Kind
<1>. QED  BY <1>1, <1>2

-----------------------------------------------------------------------------
(* CompleteIsLanded.  The flip is decided from counts read before it, so the
   invariant remembers what the handlers about to flip have seen: chunks do not
   leave a record that still exists.                                       *)

FlipSeen == Flipping # {} => AllLanded \/ status = "none"

Decided == Typed /\ FlipSeen /\ CompleteIsLanded

LEMMA InitDecided == Init => Decided
BY InitTyped DEF Init, Decided, FlipSeen, CompleteIsLanded, Flipping, FreeCall

LEMMA DecidedStep == Decided /\ [Next]_vars => Decided'
<1>. SUFFICES ASSUME Decided, [Next]_vars  PROVE Decided'
  OBVIOUS
<1>. USE DEF Decided, FlipSeen, CompleteIsLanded, Fewer, Still
<1>1. Typed'
  BY TypedStep
<1>2. Landed \subseteq Chunk
  BY DEF Landed
<1>3. UNCHANGED msg => Landed' = Landed
  BY DEF Landed
<1>4. CASE Quiet \/ Sees \/ Demotes \/ Parks \/ Asks \/ Reopens
  BY <1>1, <1>3, <1>4 DEF Quiet, Sees, Demotes, Parks, Asks, Reopens, AllLanded
<1>5. CASE Removes
  BY <1>1, <1>5 DEF Removes
<1>6. ASSUME NEW c \in Chunk, Lands(c)  PROVE Decided'
  BY <1>1, <1>2, <1>6 DEF Lands, AllLanded
<1>7. ASSUME NEW h, Wins(h)  PROVE Decided'
  BY <1>1, <1>3, <1>7 DEF Wins, Open, AllLanded
<1>8. ASSUME NEW h, Charges(h)  PROVE Decided'
  BY <1>1, <1>3, <1>8 DEF Charges, AllLanded
<1>. QED  BY StepKinds, <1>4, <1>5, <1>6, <1>7, <1>8 DEF Kind

\* A record that reads "complete" has a Telegram message for every chunk,
\* whatever is lost, repeated, aborted, retried or restarted.
THEOREM CompleteLanded == Spec => []CompleteIsLanded
<1>1. Decided => CompleteIsLanded
  BY DEF Decided
<1>. QED  BY InitDecided, DecidedStep, <1>1, PTL DEF Spec

-----------------------------------------------------------------------------
(* The pipeline implements UploadRecord.                                   *)

LEMMA InitRecord == Init => Record!Init
BY DEF Init, Record!Init, Landed, Owed, FreeCall

LEMMA StepRecord == Decided /\ [Next]_vars => [Record!Next]_(Record!vars)
<1>. SUFFICES ASSUME Decided, [Next]_vars  PROVE [Record!Next]_(Record!vars)
  OBVIOUS
<1>. USE DEF Record!Next, Record!vars, Fewer, Still, Calms, button
<1>0. presses \in Nat
  BY DEF Decided, Typed, TypeOK
<1>1. UNCHANGED msg => Landed' = Landed
  BY DEF Landed
<1>2. CASE Quiet \/ Sees
  BY <1>0, <1>1, <1>2 DEF Quiet, Sees, Record!Forget
<1>3. CASE Demotes
  BY <1>1, <1>3 DEF Demotes, Record!Fail
<1>4. CASE Parks \/ Asks \/ Reopens
  BY <1>1, <1>4 DEF Parks, Asks, Reopens, Record!Park, Record!Ask, Record!Reopen
<1>5. CASE Removes
  BY <1>5 DEF Removes, Record!Remove
<1>6. ASSUME NEW c \in Chunk, Lands(c)  PROVE Record!Next
  BY <1>6 DEF Lands, Record!Land
<1>7. ASSUME NEW h \in Call \cup Completer, Wins(h)  PROVE Record!Next
  <2>1. Landed = Chunk
    BY <1>7 DEF Wins, Open, Decided, FlipSeen, AllLanded
  <2>. QED  BY <1>1, <1>7, <2>1 DEF Wins, Open, Record!Complete
<1>8. ASSUME NEW h \in Call \cup Completer, Charges(h)  PROVE Record!Next
  BY <1>1, <1>8 DEF Charges, Record!Charge
<1>. QED
  BY StepKinds, <1>2, <1>3, <1>4, <1>5, <1>6, <1>7, <1>8 DEF Kind, Decided

\* Chunk reports, /complete calls, aborts, retries and crashes together do to
\* the record only what UploadRecord allows.
THEOREM ImplementsRecord == Spec => RecordSpec
BY InitDecided, DecidedStep, InitRecord, StepRecord, PTL DEF Spec, RecordSpec, Record!Spec

-----------------------------------------------------------------------------
\* Coordinates of a landed chunk leave only with the record: late placeholders
\* of reportChunkBuffered and repeated reports do not take them away.
THEOREM LandedKept == Spec => LandedIsKept
<1>1. Decided /\ [Next]_vars => [\A c \in Landed : msg'[c] # None \/ status' = "none"]_vars
  <2>. SUFFICES ASSUME Decided, [Next]_vars, NEW c \in Landed, status' # "none"
                PROVE  msg'[c] # None
    OBVIOUS
  <2>1. UNCHANGED msg => msg'[c] # None
    BY DEF Landed
  <2>2. Landed \subseteq Landed' => msg'[c] # None
    BY DEF Landed
  <2>. QED
    BY <2>1, <2>2, StepKinds
       DEF Decided, Kind, Quiet, Sees, Demotes, Parks, Asks, Reopens, Removes, Lands, Wins, Charges
<1>. QED  BY InitDecided, DecidedStep, <1>1, PTL DEF Spec, LandedIsKept

-----------------------------------------------------------------------------
(* ChargeOnce.  A flip needs an open status and leaves "complete", and only *)
(* a press of the retry button makes an open status of another.             *)

Won == charged + Cardinality(Owed) <= reopened + (IF status \in Open THEN 0 ELSE 1)

Charged == Decided /\ Won

LEMMA OwedFinite ==
  /\ IsFiniteSet(Owed) /\ Cardinality(Owed) \in Nat
  /\ IsFiniteSet(Owed') /\ Cardinality(Owed') \in Nat
<1>1. Owed \subseteq Call \cup Completer /\ Owed' \subseteq Call \cup Completer
  BY DEF Owed
<1>2. IsFiniteSet(Call \cup Completer)
  BY SetsAssumption, FS_Union
<1>. QED  BY <1>1, <1>2, FS_Subset, FS_CardinalityType

LEMMA InitCharged == Init => Charged
<1>. SUFFICES ASSUME Init  PROVE Charged
  OBVIOUS
<1>1. Owed = {} /\ charged = 0 /\ reopened = 0
  BY DEF Init, Owed, FreeCall
<1>2. Cardinality(Owed) = 0
  BY <1>1, FS_EmptySet
<1>. QED  BY InitDecided, <1>1, <1>2 DEF Charged, Won, Init, Open

LEMMA ChargedStep == Charged /\ [Next]_vars => Charged'
<1>. SUFFICES ASSUME Charged, [Next]_vars  PROVE Won'
  BY DecidedStep DEF Charged
<1>. USE DEF Won, Open, button
<1>1. charged \in Nat /\ reopened \in Nat /\ Won
  BY DEF Charged, Decided, Typed, TypeOK
<1>2. /\ Cardinality(Owed) \in Nat /\ Cardinality(Owed') \in Nat
      /\ Owed' \subseteq Owed => Cardinality(Owed') <= Cardinality(Owed)
  BY OwedFinite, FS_Subset
<1>3. CASE Quiet \/ Sees
  BY <1>1, <1>2, <1>3 DEF Quiet, Sees, Fewer, Calms
<1>4. CASE Demotes \/ Parks \/ Removes
  BY <1>1, <1>2, <1>4 DEF Demotes, Parks, Removes, Still
<1>5. CASE Asks \/ Reopens
  BY <1>1, <1>2, <1>5 DEF Asks, Reopens
<1>6. ASSUME NEW c \in Chunk, Lands(c)  PROVE Won'
  BY <1>1, <1>2, <1>6 DEF Lands, Still
<1>7. ASSUME NEW h, Wins(h)  PROVE Won'
  <2>1. Owed' = Owed \cup {h}
    BY <1>7 DEF Wins
  <2>2. Cardinality(Owed') <= Cardinality(Owed) + 1
    BY <1>2, <2>1, OwedFinite, FS_AddElement
  <2>. QED  BY <1>1, <1>2, <1>7, <2>2 DEF Wins
<1>8. ASSUME NEW h, Charges(h)  PROVE Won'
  <2>1. Owed' = Owed \ {h} /\ h \in Owed
    BY <1>8 DEF Charges
  <2>2. Cardinality(Owed') = Cardinality(Owed) - 1
    BY <2>1, OwedFinite, FS_RemoveElement
  <2>. QED  BY <1>1, <1>2, <1>8, <2>2 DEF Charges
<1>. QED
  BY StepKinds, <1>3, <1>4, <1>5, <1>6, <1>7, <1>8 DEF Kind, Charged, Decided

\* Racing chunk reports, /complete calls, lost answers, failed statements, aborts,
\* and restarts of both services: a file is charged once, and once more only for
\* each press of the retry button that reopened it.
THEOREM ChargedOnce == Spec => []ChargeOnce
<1>1. Charged => ChargeOnce
  BY OwedFinite DEF Charged, Won, ChargeOnce, Decided, Typed, TypeOK
<1>. QED  BY InitCharged, ChargedStep, <1>1, PTL DEF Spec

-----------------------------------------------------------------------------
(* The jobs of a client that posts a chunk again only after it was refused, *)
(* while the core is not restarted.                                         *)

Careful == "duplicate" \notin Faults /\ "coreCrash" \notin Faults

\* The job's chunk is on Telegram, or its instance died: it fails no more.
Up == {"reported", "sent", "streamed", "settled", "lost"}

\* Of two jobs of one chunk, one was refused.
OneJob == \A j, h \in Job :
            j # h /\ chunkOf[j] = chunkOf[h] => chunkOf[j] = None \/ Refused(j) \/ Refused(h)

\* Results on their way to the database, and the messages that chunks point
\* to, come from jobs that fail no more.
FromUp ==
  /\ \A k \in Call : \A j \in call[k].todo : stage[j] \in Up
  /\ \A c \in Landed : chunkOf[msg[c]] = c /\ stage[msg[c]] \in Up

Single == Careful /\ Typed /\ OneJob /\ FromUp /\ recover = {}

-----------------------------------------------------------------------------
(* What a step does to the jobs.                                           *)

\* A refused request stays refused.
RefusedStays == \A j \in Job : Refused(j) => Refused(j)'

\* A job that is up stays up, with its chunk; what is new in a call is up.
UpStays ==
  /\ \A j \in Job : stage[j] \in Up => stage'[j] \in Up /\ chunkOf'[j] = chunkOf[j]
  /\ \A k \in Call : \A j \in call'[k].todo : j \in call[k].todo \/ stage'[j] \in Up

\* A chunk gets its message from a result that a call carries.
FromCall ==
  \A c \in Chunk :
    \/ msg'[c] = None \/ msg'[c] = msg[c]
    \/ \E k \in Call : \E j \in call[k].todo : msg'[c] = j /\ chunkOf[j] = c

Orderly == RefusedStays /\ UpStays /\ FromCall /\ recover' = recover

LEMMA RequestOrderly ==
  ASSUME Single, NEW j \in Job, RequestStep(j)
  PROVE  Orderly /\ OneJob'
<1>. USE DEF Single, Typed, TypeOK, Orderly, RefusedStays, UpStays, FromCall, OneJob,
         Refused, Up, db, job, core, button
<1>1. ASSUME NEW c \in Chunk, ChunkCheck(j, c)  PROVE Orderly /\ OneJob'
  BY <1>1, NoneAssumption DEF ChunkCheck, Careful
<1>2. CASE ChunkAccept(j)
  BY <1>2 DEF ChunkAccept
<1>3. CASE CountJob(j)
  BY <1>3 DEF CountJob
<1>4. CASE PersistRow(j)
  BY <1>4 DEF PersistRow, PlaceRow
<1>5. CASE StreamRefused(j)
  BY <1>5 DEF StreamRefused
<1>6. ASSUME NEW k \in Call, StreamChunk(j, k)  PROVE Orderly /\ OneJob'
  BY <1>6 DEF StreamChunk
<1>7. ASSUME NEW c \in Chunk, RecoverChunk(c, j)  PROVE FALSE
  BY <1>7 DEF RecoverChunk
<1>. QED  BY <1>1, <1>2, <1>3, <1>4, <1>5, <1>6, <1>7 DEF RequestStep

LEMMA WorkerOrderly ==
  ASSUME Single, NEW j \in Job, WorkerStep(j)
  PROVE  Orderly /\ UNCHANGED chunkOf
<1>. USE DEF Single, Typed, TypeOK, Orderly, RefusedStays, UpStays, FromCall,
         Refused, Up, db, job, core, button
<1>1. CASE StartFails(j) \/ UploadRefused(j)
  BY <1>1 DEF StartFails, UploadRefused, JobError
<1>2. CASE StartJob(j) \/ Uploaded(j) \/ Redeliver(j)
  BY <1>2 DEF StartJob, Uploaded, Redeliver
<1>3. CASE ReportFailure(j) \/ DiscardJob(j)
  BY <1>3 DEF ReportFailure, DiscardJob
<1>. QED  BY <1>1, <1>2, <1>3 DEF WorkerStep

LEMMA HandlerOrderly ==
  ASSUME Single, NEW k \in Call, HandlerStep(k)
  PROVE  Orderly /\ UNCHANGED chunkOf
<1>. USE DEF Single, Typed, TypeOK, Orderly, RefusedStays, UpStays, FromCall,
         Refused, Up, db, job, core, button
<1>1. ASSUME NEW j \in Job, UpsertChunk(k, j)  PROVE Orderly /\ UNCHANGED chunkOf
  <2>1. \A h \in Call : call'[h].todo \subseteq call[h].todo
    BY <1>1 DEF UpsertChunk, CallState
  <2>2. msg' = msg \/ (msg' = [msg EXCEPT ![chunkOf[j]] = j] /\ j \in call[k].todo)
    BY <1>1 DEF UpsertChunk
  <2>. QED  BY <1>1, <2>1, <2>2 DEF UpsertChunk
<1>2. CASE FinalizeCheck(k) \/ FinalizeFlip(k) \/ FinalizeCharge(k)
  <2>1. PICK p \in CallPcs : call' = [call EXCEPT ![k].pc = p]
    BY <1>2 DEF FinalizeCheck, FinalizeFlip, FinalizeCharge, CallPcs
  <2>2. \A h \in Call : call'[h].todo = call[h].todo
    BY <2>1, CallMoves
  <2>. QED  BY <1>2, <2>2 DEF FinalizeCheck, FinalizeFlip, FinalizeCharge
<1>3. CASE CallEnds(k)
  BY <1>3 DEF CallEnds, FreeCall
<1>. QED  BY <1>1, <1>2, <1>3 DEF HandlerStep

LEMMA ReporterOrderly ==
  ASSUME Single, NEW k \in Call, ReporterStep(k)
  PROVE  Orderly /\ UNCHANGED chunkOf
<1>. USE DEF Single, Typed, TypeOK, Orderly, RefusedStays, UpStays, FromCall,
         Refused, Up, db, job, core, button
<1>1. ASSUME NEW i \in Instance, Flush(i, k)  PROVE Orderly /\ UNCHANGED chunkOf
  BY <1>1 DEF Flush, FlushSend, StageOf, JobsAt, FreeCall
<1>2. CASE FlushDone(k) \/ StreamDone(k)
  BY <1>2 DEF FlushDone, StreamDone, Buffered, Streamed, StageOf, FreeCall
<1>3. CASE FlushError(k) \/ StreamError(k)
  <2>1. \A h \in Call : call'[h].todo \subseteq call[h].todo
    BY <1>3, Abandoned DEF FlushError, StreamError
  <2>. QED
    BY <1>3, <2>1 DEF FlushError, StreamError, Requeue, Buffered, Streamed, StageOf
<1>4. CASE FinalizeError(k)
  <2>1. \A h \in Call : call'[h].todo = call[h].todo
    BY <1>4 DEF FinalizeError, CallState
  <2>. QED  BY <1>4, <2>1 DEF FinalizeError
<1>. QED  BY <1>1, <1>2, <1>3, <1>4 DEF ReporterStep

LEMMA CompleteOrderly ==
  ASSUME Single, NEW q \in Completer,
         CompleteStep(q) \/ \E i \in Instance : CompleteBegin(q, i)
  PROVE  Orderly /\ UNCHANGED chunkOf
<1>. USE DEF Single, Typed, TypeOK, Orderly, RefusedStays, UpStays, FromCall,
         Refused, Up, db, job, core, button
<1>1. ASSUME NEW k \in Call, CompleteFlush(q, k)  PROVE Orderly /\ UNCHANGED chunkOf
  BY <1>1 DEF CompleteFlush, FlushSend, StageOf, JobsAt, FreeCall
<1>2. CASE (\E i \in Instance : CompleteBegin(q, i)) \/ CompleteFlushed(q) \/ CompleteCount(q)
  BY <1>2 DEF CompleteBegin, CompleteFlushed, CompleteCount
<1>3. CASE CompleteConfirm(q) \/ CompleteReread(q) \/ CompleteFlip(q)
           \/ CompleteCharge(q) \/ CompletePark(q)
  BY <1>3 DEF CompleteConfirm, CompleteReread, CompleteFlip, CompleteCharge, CompletePark
<1>. QED  BY <1>1, <1>2, <1>3 DEF CompleteStep

LEMMA OtherOrderly ==
  ASSUME Single, AbortStep \/ BufferRetry \/ (\E i \in Instance : GoCrash(i)) \/ CoreCrash
  PROVE  Orderly /\ UNCHANGED chunkOf
<1>. USE DEF Single, Typed, TypeOK, Orderly, RefusedStays, UpStays, FromCall,
         Refused, Up, db, job, core, button
<1>1. CASE AbortStep
  BY <1>1 DEF AbortStep, AbortBegin, AbortMark, AbortReread, AbortSweep, AbortRemove
<1>2. CASE BufferRetry
  BY <1>2 DEF BufferRetry, RetryFind, RetryWrite
<1>3. ASSUME NEW i \in Instance, GoCrash(i)  PROVE Orderly /\ UNCHANGED chunkOf
  <2>1. \A h \in Call : call'[h].todo = call[h].todo
    BY <1>3 DEF GoCrash, CallState
  <2>. QED  BY <1>3, <2>1 DEF GoCrash
<1>. QED  BY <1>1, <1>2, <1>3 DEF CoreCrash, Careful

LEMMA SingleStep ==
  ASSUME Single, [Next]_vars
  PROVE  Single'
<1>1. Typed'
  BY TypedStep DEF Single
<1>2. Orderly /\ (OneJob' \/ UNCHANGED chunkOf)
  <2>1. CASE UNCHANGED vars
    BY <2>1 DEF vars, db, job, core, Orderly, RefusedStays, UpStays, FromCall, Refused,
       Single, Typed, TypeOK
  <2>. QED
    BY <2>1, RequestOrderly, WorkerOrderly, HandlerOrderly, ReporterOrderly, CompleteOrderly,
       OtherOrderly DEF Next
<1>3. OneJob'
  BY <1>2 DEF Orderly, RefusedStays, OneJob, Single
<1>4. FromUp'
  <2>1. \A k \in Call : \A j \in call'[k].todo : stage'[j] \in Up
    BY <1>1, <1>2 DEF Orderly, UpStays, FromUp, Single, Typed, TypeOK, CallState
  <2>2. ASSUME NEW c \in Chunk, msg'[c] # None
        PROVE  chunkOf'[msg'[c]] = c /\ stage'[msg'[c]] \in Up
    <3>1. PICK j \in Job : msg'[c] = j /\ chunkOf[j] = c /\ stage[j] \in Up
      BY <1>2, <2>2 DEF Orderly, FromCall, FromUp, Single, Landed, Typed, TypeOK, CallState
    <3>. QED  BY <1>2, <3>1 DEF Orderly, UpStays
  <2>. QED  BY <2>1, <2>2 DEF FromUp, Landed
<1>. QED  BY <1>1, <1>2, <1>3, <1>4 DEF Single, Orderly, Careful

-----------------------------------------------------------------------------
(* The disk and the counter, while the user does not abort.                *)

NoAborts == "abort" \notin Faults

\* Chunks that need no temp file: they are on Telegram, or an attempt failed.
Excused == Landed \cup spoiled

-----------------------------------------------------------------------------
(* BufferedIsOnDisk, whatever is posted twice, lost, repeated or restarted. *)

\* A temp file leaves only for coordinates or a failure, also that of a row still to come.
OnDisk ==
  /\ status # "none" /\ abt.pc = "idle"
  /\ rows \subseteq temp \cup Excused
  /\ \A j \in Job : req[j] \in {"pushed", "counted"} => chunkOf[j] \in temp \cup Excused

\* A call of the core that is past its upserts stored what its sender waits for, or failed to.
Stored ==
  \A k \in Call :
     /\ call[k].pc \notin {"idle", "upsert"} => call[k].todo = {}
     /\ \A j \in call[k].batch :
          /\ stage[j] # "none"
          /\ call[k].pc # "idle" /\ j \notin call[k].todo => chunkOf[j] \in Excused

Kept == NoAborts /\ Typed /\ OnDisk /\ Stored

\* A job that is under way keeps its chunk.
UnderWay == \A j \in Job : stage[j] # "none" => stage'[j] # "none" /\ chunkOf'[j] = chunkOf[j]

LEMMA InitKept == NoAborts /\ Init => Kept
<1>. SUFFICES ASSUME NoAborts, Init  PROVE Kept
  OBVIOUS
<1>1. Typed
  BY InitTyped
<1>2. OnDisk /\ Stored
  BY DEF Init, OnDisk, Stored, FreeCall, NoAbort
<1>. QED  BY <1>1, <1>2 DEF Kept

\* What it takes of a step to keep the temp files and the calls in order.
DiskOrder ==
  /\ status' # "none" /\ abt'.pc = "idle"
  /\ Landed \subseteq Landed' /\ spoiled \subseteq spoiled'
  /\ temp \subseteq temp' \cup Excused'
  /\ rows' \subseteq rows \cup temp' \cup Excused'
  /\ \A j \in Job : req'[j] \in {"pushed", "counted"} =>
       \/ req[j] \in {"pushed", "counted"} /\ chunkOf'[j] = chunkOf[j]
       \/ chunkOf'[j] \in temp'

CallOrder ==
  \A k \in Call :
    \/ call'[k] = call[k]
    \/ /\ call'[k].pc \notin {"idle", "upsert"} => call'[k].todo = {}
       /\ \A j \in call'[k].batch :
            /\ stage'[j] # "none"
            /\ call'[k].pc = "idle" \/ j \in call'[k].todo \/ chunkOf'[j] \in Excused'

InOrder == DiskOrder /\ CallOrder /\ UnderWay

LEMMA OrderKept ==
  ASSUME Kept, InOrder
  PROVE  OnDisk' /\ Stored'
<1>1. OnDisk'
  BY DEF Kept, OnDisk, InOrder, DiskOrder, Excused
<1>2. call \in [Call -> CallState]
  BY DEF Kept, Typed, TypeOK
<1>3. ASSUME NEW k \in Call
      PROVE  /\ call'[k].pc \notin {"idle", "upsert"} => call'[k].todo = {}
             /\ \A j \in call'[k].batch :
                  /\ stage'[j] # "none"
                  /\ call'[k].pc # "idle" /\ j \notin call'[k].todo => chunkOf'[j] \in Excused'
  <2>1. CASE call'[k] = call[k]
    BY <1>2, <2>1 DEF Kept, Stored, InOrder, DiskOrder, UnderWay, CallState, Excused
  <2>2. CASE call'[k] # call[k]
    BY <2>2 DEF InOrder, CallOrder
  <2>. QED  BY <2>1, <2>2
<1>. QED  BY <1>1, <1>3 DEF Stored

LEMMA RequestKept ==
  ASSUME Kept, NEW j \in Job, RequestStep(j)
  PROVE  InOrder
<1>. USE DEF InOrder, DiskOrder, CallOrder, UnderWay, db, job, core, button
<1>1. /\ req \in [Job -> ReqPcs] /\ stage \in [Job -> Stages]
      /\ chunkOf \in [Job -> Chunk \cup {None}] /\ call \in [Call -> CallState]
  BY DEF Kept, Typed, TypeOK
<1>2. (UNCHANGED msg => Landed' = Landed) /\ status # "none" /\ abt.pc = "idle"
      /\ Excused = Landed \cup spoiled /\ Excused' = Landed' \cup spoiled'
  BY DEF Landed, Kept, OnDisk, Excused
<1>3. ASSUME NEW c \in Chunk, ChunkCheck(j, c)  PROVE InOrder
  BY <1>1, <1>2, <1>3 DEF ChunkCheck
<1>4. CASE ChunkAccept(j)
  BY <1>1, <1>2, <1>4 DEF ChunkAccept
<1>5. CASE CountJob(j)
  BY <1>1, <1>2, <1>5 DEF CountJob
<1>6. CASE PersistRow(j)
  <2>1. chunkOf[j] \in temp \cup Excused
    BY <1>6 DEF PersistRow, Kept, OnDisk
  <2>. QED  BY <1>1, <1>2, <1>6, <2>1 DEF PersistRow, PlaceRow
<1>7. CASE StreamRefused(j)
  BY <1>1, <1>2, <1>7 DEF StreamRefused
<1>8. ASSUME NEW k \in Call, StreamChunk(j, k)  PROVE InOrder
  <2>1. \A h \in Call : call'[h] = IF h = k THEN [pc |-> "upsert", todo |-> {j}, batch |-> {j}]
                                            ELSE call[h]
    BY <1>1, <1>8 DEF StreamChunk
  <2>. QED  BY <1>1, <1>2, <1>8, <2>1 DEF StreamChunk
<1>9. ASSUME NEW c \in Chunk, RecoverChunk(c, j)  PROVE InOrder
  BY <1>1, <1>2, <1>9 DEF RecoverChunk
<1>. QED  BY <1>3, <1>4, <1>5, <1>6, <1>7, <1>8, <1>9 DEF RequestStep

LEMMA WorkerKept ==
  ASSUME Kept, NEW j \in Job, WorkerStep(j)
  PROVE  InOrder
<1>. USE DEF InOrder, DiskOrder, CallOrder, UnderWay, db, job, core, button
<1>1. stage \in [Job -> Stages]
  BY DEF Kept, Typed, TypeOK
<1>2. (UNCHANGED msg => Landed' = Landed) /\ status # "none" /\ abt.pc = "idle"
      /\ Excused = Landed \cup spoiled /\ Excused' = Landed' \cup spoiled'
  BY DEF Landed, Kept, OnDisk, Excused
<1>3. CASE StartJob(j) \/ Uploaded(j) \/ Redeliver(j)
  BY <1>1, <1>2, <1>3 DEF StartJob, Uploaded, Redeliver
<1>4. CASE StartFails(j) \/ UploadRefused(j)
  <2>1. JobError(j) /\ stage[j] \in {"queued", "running"}
    BY <1>4 DEF StartFails, UploadRefused
  <2>2. temp \subseteq temp' \cup spoiled' /\ spoiled \subseteq spoiled'
    BY <2>1 DEF JobError
  <2>3. \E s \in {"delayed", "failing"} : stage' = [stage EXCEPT ![j] = s]
    BY <2>1 DEF JobError
  <2>. QED  BY <1>1, <1>2, <2>1, <2>2, <2>3 DEF JobError
<1>6. CASE ReportFailure(j) \/ DiscardJob(j)
  BY <1>1, <1>2, <1>6 DEF ReportFailure, DiscardJob
<1>. QED  BY <1>3, <1>4, <1>6 DEF WorkerStep

LEMMA HandlerKept ==
  ASSUME Kept, NEW k \in Call, HandlerStep(k)
  PROVE  InOrder
<1>. USE DEF InOrder, DiskOrder, CallOrder, UnderWay, db, job, core, button
<1>1. /\ call \in [Call -> CallState] /\ msg \in [Chunk -> Job \cup {None}]
      /\ \A j \in call[k].todo : chunkOf[j] \in Chunk
  BY DEF Kept, Typed, TypeOK, HasChunk
<1>2. /\ UNCHANGED msg => Landed' = Landed
      /\ status # "none" /\ abt.pc = "idle"
      /\ Excused = Landed \cup spoiled /\ Excused' = Landed' \cup spoiled'
      /\ \A j \in call[k].batch :
           /\ stage[j] # "none"
           /\ call[k].pc # "idle" /\ j \notin call[k].todo => chunkOf[j] \in Excused
      /\ call[k].pc \notin {"idle", "upsert"} => call[k].todo = {}
  BY DEF Landed, Kept, OnDisk, Stored, Excused
<1>3. ASSUME NEW j \in Job, UpsertChunk(k, j)  PROVE InOrder
  <2>1. chunkOf[j] \in Chunk
    BY <1>1, <1>3 DEF UpsertChunk
  <2>2. /\ Landed \subseteq Landed' /\ spoiled \subseteq spoiled' /\ chunkOf[j] \in Excused'
        /\ rows' \subseteq rows \cup Excused'
    <3>1. CASE msg' = [msg EXCEPT ![chunkOf[j]] = j] /\ rows' = rows \cup {chunkOf[j]} /\ UNCHANGED spoiled
      <4>1. Landed' = Landed \cup {chunkOf[j]}
        BY <1>1, <2>1, <3>1, NoneAssumption DEF Landed
      <4>. QED  BY <1>2, <3>1, <4>1
    <3>2. CASE spoiled' = spoiled \cup {chunkOf[j]} /\ UNCHANGED <<rows, msg>>
      BY <1>2, <3>2
    <3>. QED  BY <1>3, <3>1, <3>2 DEF UpsertChunk
  <2>3. /\ \A h \in Call : h # k => call'[h] = call[h]
        /\ call'[k] = [call[k] EXCEPT !.todo = @ \ {j}]
    BY <1>1, <1>3 DEF UpsertChunk
  <2>4. /\ call'[k].pc = "upsert" /\ call'[k].batch = call[k].batch
        /\ call'[k].todo = call[k].todo \ {j}
    BY <1>1, <1>3, <2>3 DEF UpsertChunk, CallState
  <2>. QED  BY <1>2, <1>3, <2>2, <2>3, <2>4 DEF UpsertChunk
<1>4. ASSUME FinalizeCheck(k) \/ FinalizeFlip(k) \/ FinalizeCharge(k)  PROVE InOrder
  <2>1. PICK p \in CallPcs \ {"idle"} : call' = [call EXCEPT ![k].pc = p]
    BY <1>4 DEF FinalizeCheck, FinalizeFlip, FinalizeCharge, CallPcs
  <2>2. /\ \A h \in Call : h # k => call'[h] = call[h]
        /\ call'[k].todo = call[k].todo /\ call'[k].batch = call[k].batch
    BY <1>1, <2>1 DEF CallState
  <2>3. call[k].todo = {} /\ call[k].pc # "idle" /\ status' # "none"
    BY <1>2, <1>4 DEF FinalizeCheck, FinalizeFlip, FinalizeCharge
  <2>4. UNCHANGED <<rows, msg, spoiled, temp, req, stage, abt, chunkOf>>
    BY <1>4 DEF FinalizeCheck, FinalizeFlip, FinalizeCharge
  <2>. QED  BY <1>2, <2>2, <2>3, <2>4
<1>5. CASE CallEnds(k)
  <2>1. \A h \in Call : call'[h] = IF h = k THEN FreeCall ELSE call[h]
    BY <1>1, <1>5 DEF CallEnds
  <2>. QED  BY <1>2, <1>5, <2>1 DEF CallEnds, FreeCall
<1>. QED  BY <1>3, <1>4, <1>5 DEF HandlerStep

LEMMA ReporterKept ==
  ASSUME Kept, NEW k \in Call, ReporterStep(k)
  PROVE  InOrder
<1>. USE DEF InOrder, DiskOrder, CallOrder, UnderWay, db, job, core, button
<1>1. /\ call \in [Call -> CallState] /\ stage \in [Job -> Stages] /\ req \in [Job -> ReqPcs]
  BY DEF Kept, Typed, TypeOK
<1>2. /\ UNCHANGED msg => Landed' = Landed
      /\ status # "none" /\ abt.pc = "idle"
      /\ Excused = Landed \cup spoiled /\ Excused' = Landed' \cup spoiled'
      /\ \A j \in call[k].batch :
           /\ stage[j] # "none"
           /\ call[k].pc # "idle" /\ j \notin call[k].todo => chunkOf[j] \in Excused
      /\ call[k].pc \notin {"idle", "upsert"} => call[k].todo = {}
  BY DEF Landed, Kept, OnDisk, Stored, Excused
<1>3. ASSUME NEW i \in Instance, Flush(i, k)  PROVE InOrder
  <2>. DEFINE J == JobsAt(i, "reported")
  <2>1. \A h \in Call : call'[h] = IF h = k THEN [pc |-> "upsert", todo |-> J, batch |-> J]
                                            ELSE call[h]
    BY <1>1, <1>3 DEF Flush, FlushSend
  <2>2. \A j \in Job : stage'[j] = IF j \in J THEN "sent" ELSE stage[j]
    BY <1>3 DEF Flush, FlushSend, StageOf
  <2>3. J \subseteq Job
    BY DEF JobsAt
  <2>. HIDE DEF J
  <2>. QED  BY <1>2, <1>3, <2>1, <2>2, <2>3 DEF Flush
<1>. DEFINE Freed == \A h \in Call : call'[h] = IF h = k THEN FreeCall ELSE call[h]
<1>4. CASE FlushDone(k)
  <2>1. \A j \in call[k].batch : chunkOf[j] \in Excused
    BY <1>2, <1>4 DEF FlushDone
  <2>2. temp \subseteq temp' \cup Excused /\ Freed
    BY <1>1, <1>4, <2>1 DEF FlushDone
  <2>3. \A j \in Job : stage'[j] \in {stage[j], "settled"}
    BY <1>4 DEF FlushDone, StageOf
  <2>. QED  BY <1>2, <1>4, <2>2, <2>3 DEF FlushDone, FreeCall
<1>5. CASE StreamDone(k)
  <2>1. Freed
    BY <1>1, <1>5 DEF StreamDone
  <2>2. \A j \in Job : stage'[j] \in {stage[j], "settled"} /\ req'[j] \in {req[j], "replied"}
    BY <1>5 DEF StreamDone, StageOf
  <2>. QED  BY <1>2, <1>5, <2>1, <2>2 DEF StreamDone, FreeCall
<1>6. CASE FlushError(k) \/ StreamError(k)
  <2>1. /\ \A h \in Call : h # k => call'[h] = call[h]
        /\ \/ call'[k].batch = {} /\ call'[k].todo = call[k].todo /\ call'[k].pc = call[k].pc
           \/ call'[k] = FreeCall
    BY <1>1, <1>6 DEF FlushError, StreamError, Abandon, CallState
  <2>2. \A j \in Job : stage'[j] \in {stage[j], "reported", "lost"} /\ req'[j] \in {req[j], "closed"}
    BY <1>6 DEF FlushError, StreamError, Requeue, StageOf
  <2>. QED  BY <1>2, <1>6, <2>1, <2>2 DEF FlushError, StreamError, FreeCall
<1>7. CASE FinalizeError(k)
  <2>1. /\ \A h \in Call : h # k => call'[h] = call[h]
        /\ call'[k].todo = call[k].todo /\ call'[k].batch = call[k].batch
    BY <1>1, <1>7 DEF FinalizeError, CallState
  <2>. QED  BY <1>2, <1>7, <2>1 DEF FinalizeError
<1>. QED  BY <1>3, <1>4, <1>5, <1>6, <1>7 DEF ReporterStep

LEMMA CompleteKept ==
  ASSUME Kept, NEW q \in Completer,
         CompleteStep(q) \/ \E i \in Instance : CompleteBegin(q, i)
  PROVE  InOrder
<1>. USE DEF InOrder, DiskOrder, CallOrder, UnderWay, db, job, core, button
<1>1. /\ call \in [Call -> CallState] /\ stage \in [Job -> Stages]
  BY DEF Kept, Typed, TypeOK
<1>2. (UNCHANGED msg => Landed' = Landed) /\ status # "none" /\ abt.pc = "idle"
      /\ Excused = Landed \cup spoiled /\ Excused' = Landed' \cup spoiled'
  BY DEF Landed, Kept, OnDisk, Excused
<1>3. ASSUME NEW k \in Call, CompleteFlush(q, k)  PROVE InOrder
  <2>. DEFINE J == JobsAt(cmp[q].at, "reported")
  <2>1. \/ UNCHANGED <<call, stage>>
        \/ /\ \A h \in Call : call'[h] = IF h = k THEN [pc |-> "upsert", todo |-> J, batch |-> J]
                                                ELSE call[h]
           /\ \A j \in Job : stage'[j] = IF j \in J THEN "sent" ELSE stage[j]
    BY <1>1, <1>3 DEF CompleteFlush, FlushSend, StageOf
  <2>2. J \subseteq Job
    BY DEF JobsAt
  <2>. HIDE DEF J
  <2>. QED  BY <1>2, <1>3, <2>1, <2>2 DEF CompleteFlush
<1>4. CASE (\E i \in Instance : CompleteBegin(q, i)) \/ CompleteFlushed(q) \/ CompleteCount(q)
  BY <1>2, <1>4 DEF CompleteBegin, CompleteFlushed, CompleteCount
<1>5. CASE CompleteConfirm(q) \/ CompleteReread(q) \/ CompleteFlip(q)
           \/ CompleteCharge(q) \/ CompletePark(q)
  BY <1>2, <1>5 DEF CompleteConfirm, CompleteReread, CompleteFlip, CompleteCharge,
     CompletePark, Parked
<1>. QED  BY <1>3, <1>4, <1>5 DEF CompleteStep

LEMMA OtherKept ==
  ASSUME Kept, AbortStep \/ BufferRetry \/ (\E i \in Instance : GoCrash(i)) \/ CoreCrash
  PROVE  InOrder
<1>. USE DEF InOrder, DiskOrder, CallOrder, UnderWay, db, job, core, button
<1>1. call \in [Call -> CallState]
  BY DEF Kept, Typed, TypeOK
<1>2. /\ UNCHANGED msg => Landed' = Landed
      /\ status # "none" /\ abt.pc = "idle"
      /\ Excused = Landed \cup spoiled /\ Excused' = Landed' \cup spoiled'
      /\ \A k \in Call :
           /\ \A j \in call[k].batch :
                /\ stage[j] # "none"
                /\ call[k].pc # "idle" /\ j \notin call[k].todo => chunkOf[j] \in Excused
           /\ call[k].pc \notin {"idle", "upsert"} => call[k].todo = {}
  BY DEF Landed, Kept, OnDisk, Stored, Excused
<1>3. CASE AbortStep
  BY <1>2, <1>3 DEF AbortStep, AbortBegin, AbortMark, AbortReread, AbortSweep,
     AbortRemove, Kept, NoAborts
<1>4. CASE BufferRetry
  BY <1>2, <1>4 DEF BufferRetry, RetryFind, RetryWrite
<1>5. ASSUME NEW i \in Instance, GoCrash(i)  PROVE InOrder
  <2>1. \A k \in Call : /\ call'[k].todo = call[k].todo /\ call'[k].pc = call[k].pc
                        /\ call'[k].batch \subseteq call[k].batch
    BY <1>1, <1>5 DEF GoCrash, CallState
  <2>2. \A j \in Job : stage'[j] \in {stage[j], "lost"} /\ req'[j] \in {req[j], "closed"}
                       /\ (stage[j] = "none" => stage'[j] = "none")
    BY <1>5 DEF GoCrash
  <2>3. UNCHANGED <<status, abt, temp, rows, msg, spoiled, chunkOf>>
    BY <1>5 DEF GoCrash
  <2>4. \A k \in Call : call[k].batch \subseteq Job
    BY <1>1 DEF CallState
  <2>. QED  BY <1>2, <2>1, <2>2, <2>3, <2>4
<1>6. CASE CoreCrash
  <2>1. \A k \in Call : /\ call'[k].todo = {} /\ call'[k].pc = "idle"
                        /\ call'[k].batch = call[k].batch
    BY <1>1, <1>6 DEF CoreCrash, CallState
  <2>. QED  BY <1>2, <1>6, <2>1, ZenonT(30) DEF CoreCrash, NoAbort
<1>. QED  BY <1>3, <1>4, <1>5, <1>6

LEMMA KeptStep == Kept /\ [Next]_vars => Kept' /\ InOrder
<1>. SUFFICES ASSUME Kept, [Next]_vars  PROVE Kept' /\ InOrder
  OBVIOUS
<1>1. Typed' /\ NoAborts'
  BY TypedStep DEF Kept, NoAborts
<1>2. InOrder
  <2>1. CASE UNCHANGED vars
    BY <2>1 DEF vars, db, job, core, Kept, OnDisk, InOrder, DiskOrder, CallOrder, UnderWay, Landed, Excused
  <2>2. CASE Next
    BY <2>2, RequestKept, WorkerKept, HandlerKept, ReporterKept, CompleteKept, OtherKept DEF Next
  <2>. QED  BY <2>1, <2>2
<1>. QED  BY <1>1, <1>2, OrderKept DEF Kept

\* A row that says "buffered" can be served from the temp disk: whatever chunks
\* are posted twice, answers lost, uploads refused and services restarted, as long
\* as no attempt at that chunk failed and the user does not abort.
THEOREM BufferedOnDisk == NoAborts /\ Spec => []BufferedIsOnDisk
<1>1. Kept => BufferedIsOnDisk
  BY DEF Kept, OnDisk, BufferedIsOnDisk, Excused
<1>. QED  BY InitKept, KeptStep, <1>1, PTL DEF Spec

-----------------------------------------------------------------------------
(* The counter of outstanding chunks.  A job may be settled before it is    *)
(* counted: its worker is faster than the handler that brought it.          *)

Counted == {j \in Job : req[j] \in {"counted", "replied", "recovered"}}
Settled == {j \in Job : stage[j] = "settled"}
Early   == Settled \ Counted
Pending == Counted \ Settled

CounterCovers == outstanding + Cardinality(Early) >= Cardinality(Pending)

\* What a step does to them: it loses sight of jobs, counts one, or drops a batch.
Loses == outstanding' = outstanding /\ Early \subseteq Early' /\ Pending' \subseteq Pending
Counts(j) ==
  /\ j \notin Counted /\ outstanding' = outstanding + 1
  /\ Counted' = Counted \cup {j} /\ Settled' = Settled
Drops(B) ==
  /\ B \cap Settled = {} /\ outstanding' = Decr(Cardinality(B))
  /\ Settled' = Settled \cup B /\ Counted' = Counted

CountOrder ==
  \/ Loses
  \/ \E j \in Job : Counts(j)
  \/ \E B \in SUBSET Job : Drops(B)

LEMMA JobSets ==
  ASSUME NEW S \in SUBSET Job
  PROVE  IsFiniteSet(S) /\ Cardinality(S) \in Nat
BY SetsAssumption, FS_Subset, FS_CardinalityType

LEMMA FewerJobs ==
  ASSUME NEW S \in SUBSET Job, NEW T \in SUBSET S
  PROVE  Cardinality(T) <= Cardinality(S)
BY JobSets, FS_Subset

LEMMA JobsAdded ==
  ASSUME NEW S \in SUBSET Job, NEW T \in SUBSET Job, S \cap T = {}, NEW U, U = S \cup T
  PROVE  Cardinality(U) = Cardinality(S) + Cardinality(T)
<1>1. Cardinality(S \cup T) = Cardinality(S) + Cardinality(T) - Cardinality(S \cap T)
  BY JobSets, FS_Union
<1>2. Cardinality(S) \in Nat /\ Cardinality(T) \in Nat /\ Cardinality(S \cap T) = 0
  BY JobSets, FS_EmptySet
<1>. QED  BY <1>1, <1>2

LEMMA CounterStep ==
  ASSUME TypeOK, TypeOK', CounterCovers, CountOrder
  PROVE  CounterCovers'
<1>. USE DEF CounterCovers
<1>1. /\ Early \subseteq Job /\ Pending \subseteq Job /\ Early' \subseteq Job /\ Pending' \subseteq Job
      /\ Counted \subseteq Job /\ Settled \subseteq Job
  BY DEF Early, Pending, Settled, Counted
<1>2. /\ Cardinality(Early) \in Nat /\ Cardinality(Pending) \in Nat
      /\ Cardinality(Early') \in Nat /\ Cardinality(Pending') \in Nat
      /\ outstanding \in Nat
  BY <1>1, JobSets DEF TypeOK
<1>3. CASE Loses
  <2>1. Cardinality(Early) <= Cardinality(Early') /\ Cardinality(Pending') <= Cardinality(Pending)
    BY <1>1, <1>3, FewerJobs DEF Loses
  <2>. QED  BY <1>2, <1>3, <2>1 DEF Loses
<1>4. ASSUME NEW j \in Job, Counts(j)  PROVE CounterCovers'
  <2>1. CASE j \in Settled
    <3>1. Early' = Early \ {j} /\ j \in Early /\ Pending' = Pending
      BY <1>4, <2>1 DEF Counts, Early, Pending
    <3>2. Cardinality(Early') = Cardinality(Early) - 1
      BY <1>1, <3>1, JobSets, FS_RemoveElement
    <3>. QED  BY <1>2, <1>4, <3>1, <3>2 DEF Counts
  <2>2. CASE j \notin Settled
    <3>1. Early' = Early /\ Pending' = Pending \cup {j} /\ j \notin Pending
      BY <1>4, <2>2 DEF Counts, Early, Pending
    <3>2. Cardinality(Pending') = Cardinality(Pending) + 1
      BY <1>1, <3>1, JobSets, FS_AddElement
    <3>. QED  BY <1>2, <1>4, <3>1, <3>2 DEF Counts
  <2>. QED  BY <2>1, <2>2
<1>5. ASSUME NEW B \in SUBSET Job, Drops(B)  PROVE CounterCovers'
  <2>. DEFINE In == B \cap Counted
              Out == B \ Counted
  <2>1. /\ Early' = Early \cup Out /\ Early \cap Out = {}
        /\ Pending' = Pending \ In /\ In \subseteq Pending
        /\ B = In \cup Out /\ In \cap Out = {}
    BY <1>5 DEF Drops, Early, Pending
  <2>2. /\ IsFiniteSet(In) /\ IsFiniteSet(Out) /\ IsFiniteSet(Early) /\ IsFiniteSet(Pending)
        /\ Cardinality(In) \in Nat /\ Cardinality(Out) \in Nat
    BY <1>1, JobSets
  <2>. HIDE DEF In, Out
  <2>3. Cardinality(Early') = Cardinality(Early) + Cardinality(Out)
    BY <1>1, <2>1, JobsAdded
  <2>4. Cardinality(B) = Cardinality(In) + Cardinality(Out)
    BY <2>1, JobsAdded
  <2>5. Cardinality(Pending) = Cardinality(Pending') + Cardinality(In)
    <3>1. Pending = Pending' \cup In /\ Pending' \cap In = {} /\ In \subseteq Job
      BY <2>1
    <3>. QED  BY <1>1, <3>1, JobsAdded
  <2>6. outstanding' = IF outstanding > Cardinality(B) THEN outstanding - Cardinality(B) ELSE 0
    BY <1>5 DEF Drops, Decr
  <2>. QED  BY <1>2, <2>2, <2>3, <2>4, <2>5, <2>6
<1>. QED  BY <1>3, <1>4, <1>5 DEF CountOrder

LEMMA CountOrders ==
  ASSUME TypeOK, [Next]_vars
  PROVE  CountOrder
<1>. USE DEF db, job, core, button
<1>1. req \in [Job -> ReqPcs] /\ stage \in [Job -> Stages]
  BY DEF TypeOK
<1>. DEFINE Same == UNCHANGED <<outstanding, req, stage>>
            Stays == /\ outstanding' = outstanding
                     /\ \A j \in Job : /\ j \in Settled <=> j \in Settled'
                                       /\ j \in Counted' => j \in Counted
<1>2. Same => Stays
  BY DEF Settled, Counted
<1>3. Stays => CountOrder
  BY DEF CountOrder, Loses, Early, Pending, Settled, Counted
<1>4. ASSUME NEW j \in Job, RequestStep(j)  PROVE CountOrder
  <2>1. CASE CountJob(j)
    <3>1. Counts(j)
      BY <1>1, <2>1 DEF CountJob, Counts, Counted, Settled
    <3>. QED  BY <3>1 DEF CountOrder
  <2>2. CASE PersistRow(j)
    BY <1>1, <1>3, <2>2 DEF PersistRow, Counted, Settled
  <2>3. CASE ChunkAccept(j) \/ StreamRefused(j) \/ (\E c \in Chunk : ChunkCheck(j, c))
    BY <1>1, <1>3, <2>3 DEF ChunkAccept, StreamRefused, ChunkCheck, Counted, Settled
  <2>4. CASE (\E c \in Chunk : RecoverChunk(c, j)) \/ (\E k \in Call : StreamChunk(j, k))
    BY <1>1, <1>3, <2>4 DEF RecoverChunk, StreamChunk, Counted, Settled
  <2>. QED  BY <1>4, <2>1, <2>2, <2>3, <2>4 DEF RequestStep
<1>5. ASSUME NEW j \in Job, WorkerStep(j)  PROVE CountOrder
  <2>1. CASE DiscardJob(j)
    <3>1. Cardinality({j}) = 1
      BY FS_Singleton
    <3>2. Drops({j})
      BY <1>1, <2>1, <3>1 DEF DiscardJob, Drops, Counted, Settled
    <3>. QED  BY <3>2 DEF CountOrder
  <2>2. CASE StartFails(j) \/ UploadRefused(j)
    <3>1. stage[j] # "settled" /\ UNCHANGED <<outstanding, req>>
          /\ \E p \in {"delayed", "failing"} : stage' = [stage EXCEPT ![j] = p]
      BY <2>2 DEF StartFails, UploadRefused, JobError
    <3>. QED  BY <1>1, <1>3, <3>1 DEF Counted, Settled
  <2>3. CASE StartJob(j) \/ Uploaded(j) \/ Redeliver(j) \/ ReportFailure(j)
    BY <1>1, <1>3, <2>3 DEF StartJob, Uploaded, Redeliver, ReportFailure, Counted, Settled
  <2>. QED  BY <1>5, <2>1, <2>2, <2>3 DEF WorkerStep
<1>6. ASSUME NEW k \in Call, HandlerStep(k)  PROVE CountOrder
  BY <1>2, <1>3, <1>6 DEF HandlerStep, UpsertChunk, FinalizeCheck, FinalizeFlip,
     FinalizeCharge, CallEnds
<1>7. ASSUME NEW k \in Call, ReporterStep(k)  PROVE CountOrder
  <2>0. call[k].batch \in SUBSET Job
    BY DEF TypeOK, CallState
  <2>1. ASSUME NEW i \in Instance, Flush(i, k)  PROVE CountOrder
    <3>1. \A j \in Job : j \in Settled <=> j \in Settled'
      BY <2>1 DEF Flush, FlushSend, StageOf, JobsAt, Settled
    <3>. QED  BY <1>3, <2>1, <3>1 DEF Flush, Counted
  <2>2. CASE FlushDone(k)
    <3>1. Drops(call[k].batch)
      BY <1>1, <2>0, <2>2 DEF FlushDone, Buffered, Drops, StageOf, Counted, Settled
    <3>. QED  BY <2>0, <3>1 DEF CountOrder
  <2>3. CASE FlushError(k)
    <3>1. \A j \in Job : j \in Settled <=> j \in Settled'
      BY <2>3 DEF FlushError, Requeue, Buffered, StageOf, Settled
    <3>. QED  BY <1>3, <2>3, <3>1 DEF FlushError, Counted
  <2>4. CASE StreamDone(k)
    <3>1. Settled' = Settled \cup call[k].batch /\ Settled \cap call[k].batch = {}
      BY <2>0, <2>4 DEF StreamDone, Streamed, StageOf, Settled
    <3>2. Counted' = Counted \cup call[k].batch
      BY <2>0, <2>4 DEF StreamDone, Counted
    <3>. QED  BY <2>4, <3>1, <3>2 DEF StreamDone, CountOrder, Loses, Early, Pending
  <2>5. CASE StreamError(k)
    <3>1. \A j \in Job : j \in Settled <=> j \in Settled'
      BY <2>5 DEF StreamError, Streamed, StageOf, Settled
    <3>2. \A j \in Job : j \in Counted' => j \in Counted
      BY <2>5 DEF StreamError, Counted
    <3>. QED  BY <1>3, <2>5, <3>1, <3>2 DEF StreamError
  <2>6. CASE FinalizeError(k)
    BY <1>2, <1>3, <2>6 DEF FinalizeError
  <2>. QED  BY <1>7, <2>1, <2>2, <2>3, <2>4, <2>5, <2>6 DEF ReporterStep
<1>8. ASSUME NEW q \in Completer, CompleteStep(q) \/ \E i \in Instance : CompleteBegin(q, i)
      PROVE  CountOrder
  <2>1. ASSUME NEW k \in Call, CompleteFlush(q, k)  PROVE CountOrder
    <3>1. \A j \in Job : j \in Settled <=> j \in Settled'
      BY <2>1 DEF CompleteFlush, FlushSend, StageOf, JobsAt, Settled
    <3>. QED  BY <1>3, <2>1, <3>1 DEF CompleteFlush, Counted
  <2>2. CASE ~ \E k \in Call : CompleteFlush(q, k)
    BY <1>2, <1>3, <1>8, <2>2 DEF CompleteStep, CompleteBegin, CompleteFlushed, CompleteCount,
       CompleteConfirm, CompleteReread, CompleteFlip, CompleteCharge, CompletePark
  <2>. QED  BY <2>1, <2>2
<1>9. CASE AbortStep \/ BufferRetry \/ CoreCrash
  BY <1>2, <1>3, <1>9 DEF AbortStep, AbortBegin, AbortMark, AbortReread,
     AbortSweep, AbortRemove, BufferRetry, RetryFind, RetryWrite, CoreCrash
<1>10. ASSUME NEW i \in Instance, GoCrash(i)  PROVE CountOrder
  <2>1. \A j \in Job : j \in Settled <=> j \in Settled'
    BY <1>10 DEF GoCrash, Settled
  <2>2. \A j \in Job : j \in Counted' => j \in Counted
    BY <1>10 DEF GoCrash, Counted
  <2>. QED  BY <1>3, <1>10, <2>1, <2>2 DEF GoCrash
<1>11. CASE UNCHANGED vars
  BY <1>2, <1>3, <1>11 DEF vars
<1>. QED  BY <1>4, <1>5, <1>6, <1>7, <1>8, <1>9, <1>10, <1>11 DEF Next

-----------------------------------------------------------------------------
(* NoFalseReject, when the client posts a chunk again only after it was     *)
(* refused, and the core is not restarted, until an attempt fails.          *)

\* No job has failed: a chunk that waits for its worker is on disk, one that was
\* settled has landed, one that is streamed has not been answered.
Smooth ==
  \A j \in Job :
    /\ stage[j] \notin {"delayed", "failing", "failed"}
    /\ stage[j] = "queued"   => chunkOf[j] \in temp \cup Landed
    /\ stage[j] = "settled"  => chunkOf[j] \in Landed
    /\ stage[j] = "streamed" => req[j] = "checked"

\* What a /complete has yet to compare is enough, if the client had all answers.
Told ==
  \A q \in Completer :
    /\ cmp[q].pc \in {"flush", "wait", "count", "metadata"} => cmp[q].asked \subseteq Accepted
    /\ cmp[q].pc = "metadata" /\ cmp[q].asked = Chunk =>
         Cardinality(Landed) + cmp[q].out >= Cardinality(Chunk)
    /\ cmp[q].pc = "rejected" => cmp[q].asked # Chunk

Confirms == Kept /\ Single /\ CounterCovers /\ (spoiled = {} => Smooth /\ Told)

\* The chunk of a queued job has no message yet: that of another job would be
\* of the same chunk.
LEMMA QueuedOnDisk ==
  ASSUME Single, Smooth, NEW j \in Job, stage[j] = "queued"
  PROVE  chunkOf[j] \in temp
<1>1. chunkOf[j] \in Chunk
  BY DEF Single, Typed, HasChunk
<1>2. ASSUME chunkOf[j] \in Landed  PROVE FALSE
  <2>1. /\ msg[chunkOf[j]] \in Job /\ chunkOf[msg[chunkOf[j]]] = chunkOf[j]
        /\ stage[msg[chunkOf[j]]] \in Up
    BY <1>1, <1>2 DEF Single, FromUp, Landed, Typed, TypeOK
  <2>. QED  BY <1>1, <2>1, NoneAssumption DEF Single, OneJob, Refused, Up
<1>. QED  BY <1>2 DEF Smooth

\* What a step does to one job.
JobOrder(j) ==
  /\ stage'[j] = "queued" =>
       \/ stage[j] = "queued" /\ chunkOf'[j] = chunkOf[j]
       \/ chunkOf'[j] \in temp'
  /\ stage'[j] = "settled" =>
       \/ stage[j] = "settled" /\ chunkOf'[j] = chunkOf[j]
       \/ chunkOf'[j] \in Landed'
  /\ stage'[j] = "streamed" => req'[j] = "checked"
  /\ stage'[j] \notin {"delayed", "failing", "failed"}
  /\ req[j] = "replied" => req'[j] = "replied" /\ chunkOf'[j] = chunkOf[j]

LEMMA JobOrders ==
  ASSUME Careful, Kept, Single, Smooth, spoiled = {}, spoiled' = {}, [Next]_vars
  PROVE  \A j \in Job : JobOrder(j)
<1>. USE DEF JobOrder, db, job, core, button
<1>1. /\ req \in [Job -> ReqPcs] /\ stage \in [Job -> Stages]
      /\ chunkOf \in [Job -> Chunk \cup {None}] /\ recover = {}
  BY DEF Kept, Typed, TypeOK, Single
<1>2. \A j \in Job : /\ stage[j] \notin {"delayed", "failing", "failed"}
                     /\ stage[j] = "streamed" => req[j] = "checked"
  BY DEF Smooth
<1>. DEFINE All == \A j \in Job : JobOrder(j)
<1>3. (UNCHANGED <<req, stage, chunkOf>>) => All
  BY <1>1, <1>2
<1>4. ASSUME NEW j \in Job, RequestStep(j)  PROVE All
  <2>1. CASE CountJob(j) \/ PersistRow(j)
    BY <1>1, <1>2, <2>1 DEF CountJob, PersistRow
  <2>2. CASE ChunkAccept(j)
    BY <1>1, <1>2, <2>2 DEF ChunkAccept
  <2>3. CASE StreamRefused(j) \/ (\E c \in Chunk : ChunkCheck(j, c))
    BY <1>1, <1>2, <2>3 DEF StreamRefused, ChunkCheck
  <2>4. CASE \E k \in Call : StreamChunk(j, k)
    BY <1>1, <1>2, <2>4 DEF StreamChunk
  <2>5. CASE \E c \in Chunk : RecoverChunk(c, j)
    BY <1>1, <2>5 DEF RecoverChunk
  <2>. QED  BY <1>4, <2>1, <2>2, <2>3, <2>4, <2>5 DEF RequestStep
<1>5. ASSUME NEW j \in Job, WorkerStep(j)  PROVE All
  <2>1. ~StartFails(j) /\ ~UploadRefused(j)
    BY DEF StartFails, UploadRefused, JobError
  <2>. QED
    BY <1>1, <1>2, <1>5, <2>1 DEF WorkerStep, StartJob, Uploaded, Redeliver, ReportFailure, DiscardJob
<1>6. ASSUME NEW k \in Call, HandlerStep(k)  PROVE All
  BY <1>3, <1>6 DEF HandlerStep, UpsertChunk, FinalizeCheck, FinalizeFlip,
     FinalizeCharge, CallEnds
<1>7. ASSUME NEW k \in Call, ReporterStep(k)  PROVE All
  <2>1. /\ call[k].batch \in SUBSET Job
        /\ call[k].pc = "replied" => \A j \in call[k].batch : chunkOf[j] \in Landed
    BY DEF Kept, Typed, TypeOK, CallState, Stored, Excused
  <2>2. UNCHANGED msg => Landed' = Landed
    BY DEF Landed
  <2>3. ASSUME NEW i \in Instance, Flush(i, k)  PROVE All
    BY <1>1, <1>2, <2>3 DEF Flush, FlushSend, StageOf, JobsAt
  <2>4. CASE FlushDone(k)
    <3>1. \A j \in Job : j \in call[k].batch => stage[j] = "sent"
      BY <2>4 DEF FlushDone, Buffered
    <3>2. \A j \in Job : stage'[j] = IF j \in call[k].batch THEN "settled" ELSE stage[j]
      BY <2>4 DEF FlushDone, StageOf
    <3>3. \A j \in Job : stage[j] = "queued" /\ j \notin call[k].batch => chunkOf[j] \in temp'
      <4>. SUFFICES ASSUME NEW j \in Job, NEW h \in call[k].batch, stage[j] = "queued",
                           chunkOf[j] = chunkOf[h]
                    PROVE  FALSE
        BY <2>4, QueuedOnDisk DEF FlushDone
      <4>1. h \in Job /\ stage[h] = "sent" /\ h # j
        BY <2>1, <3>1
      <4>2. chunkOf[j] # None
        BY NoneAssumption DEF Single, Typed, HasChunk
      <4>. QED  BY <4>1, <4>2 DEF Single, OneJob, Refused
    <3>. QED  BY <1>2, <2>1, <2>2, <2>4, <3>2, <3>3 DEF FlushDone
  <2>5. CASE FlushError(k)
    BY <1>1, <1>2, <2>1, <2>5 DEF FlushError, Requeue, StageOf
  <2>6. CASE StreamDone(k)
    BY <1>1, <1>2, <2>1, <2>2, <2>6 DEF StreamDone, StageOf
  <2>7. CASE StreamError(k)
    BY <1>1, <1>2, <2>1, <2>7 DEF StreamError, Streamed, StageOf
  <2>8. CASE FinalizeError(k)
    BY <1>3, <2>8 DEF FinalizeError
  <2>. QED  BY <1>7, <2>3, <2>4, <2>5, <2>6, <2>7, <2>8 DEF ReporterStep
<1>8. ASSUME NEW q \in Completer, CompleteStep(q) \/ \E i \in Instance : CompleteBegin(q, i)
      PROVE  All
  <2>1. ASSUME NEW k \in Call, CompleteFlush(q, k)  PROVE All
    BY <1>1, <1>2, <1>3, <2>1 DEF CompleteFlush, FlushSend, StageOf, JobsAt
  <2>2. CASE ~ \E k \in Call : CompleteFlush(q, k)
    BY <1>3, <1>8, <2>2 DEF CompleteStep, CompleteBegin, CompleteFlushed, CompleteCount,
       CompleteConfirm, CompleteReread, CompleteFlip, CompleteCharge, CompletePark
  <2>. QED  BY <2>1, <2>2
<1>9. CASE AbortStep \/ BufferRetry
  BY <1>3, <1>9 DEF AbortStep, AbortBegin, AbortMark, AbortReread,
     AbortSweep, AbortRemove, BufferRetry, RetryFind, RetryWrite
<1>10. ASSUME NEW i \in Instance, GoCrash(i)  PROVE All
  BY <1>1, <1>2, <1>10 DEF GoCrash
<1>11. CASE CoreCrash
  BY <1>11 DEF CoreCrash, Careful
<1>12. CASE UNCHANGED vars
  BY <1>3, <1>12 DEF vars
<1>. QED  BY <1>4, <1>5, <1>6, <1>7, <1>8, <1>9, <1>10, <1>11, <1>12 DEF Next

LEMMA SmoothStep ==
  ASSUME Smooth, InOrder, spoiled' = {}, \A j \in Job : JobOrder(j)
  PROVE  Smooth'
<1>. SUFFICES ASSUME NEW j \in Job
              PROVE  /\ stage'[j] \notin {"delayed", "failing", "failed"}
                     /\ stage'[j] = "queued"   => chunkOf'[j] \in temp' \cup Landed'
                     /\ stage'[j] = "settled"  => chunkOf'[j] \in Landed'
                     /\ stage'[j] = "streamed" => req'[j] = "checked"
  BY DEF Smooth
<1>1. JobOrder(j)
  OBVIOUS
<1>. QED  BY <1>1 DEF JobOrder, Smooth, InOrder, DiskOrder, Excused

\* Once every chunk was answered 200, what has landed and what the counter says
\* make up all of them.
LEMMA AllCounted ==
  ASSUME Single, Smooth, CounterCovers, Accepted = Chunk
  PROVE  Cardinality(Landed) + outstanding >= Cardinality(Chunk)
<1>1. Early = {}
  <2>. SUFFICES ASSUME NEW j \in Early  PROVE FALSE
    OBVIOUS
  <2>1. j \in Job /\ stage[j] = "settled" /\ chunkOf[j] \in Chunk /\ req[j] # "replied"
    BY DEF Early, Settled, Counted, Single, Typed, HasChunk
  <2>2. PICK h \in Job : chunkOf[h] = chunkOf[j] /\ req[h] = "replied"
    BY <2>1 DEF Accepted
  <2>. QED  BY <2>1, <2>2, NoneAssumption DEF Single, OneJob, Refused
<1>2. Landed \subseteq Chunk /\ Pending \subseteq Job /\ outstanding \in Nat
  BY DEF Landed, Pending, Counted, Single, Typed, TypeOK
<1>. DEFINE rest == Chunk \ Landed
            f == [j \in Pending |-> chunkOf[j]]
            T == {chunkOf[j] : j \in Pending}
<1>3. f \in Surjection(Pending, T)
  BY DEF Surjection
<1>4. IsFiniteSet(Pending) /\ Cardinality(Pending) \in Nat
  BY <1>2, JobSets
<1>5. IsFiniteSet(T) /\ Cardinality(T) <= Cardinality(Pending)
  BY <1>3, <1>4, FS_Surjection
<1>6. rest \subseteq T
  <2>. SUFFICES ASSUME NEW c \in Chunk, c \notin Landed  PROVE c \in T
    OBVIOUS
  <2>1. PICK j \in Job : chunkOf[j] = c /\ req[j] = "replied"
    BY DEF Accepted
  <2>2. j \in Pending
    BY <2>1 DEF Pending, Counted, Settled, Smooth
  <2>. QED  BY <2>1, <2>2
<1>7. Cardinality(rest) <= Cardinality(T) /\ Cardinality(rest) \in Nat /\ Cardinality(T) \in Nat
  BY <1>5, <1>6, FS_Subset, FS_CardinalityType
<1>8. Cardinality(Chunk) = Cardinality(Landed) + Cardinality(rest)
  <2>1. Cardinality(rest) = Cardinality(Chunk) - Cardinality(Chunk \cap Landed)
    BY SetsAssumption, FS_Difference
  <2>2. Cardinality(Chunk \cap Landed) = Cardinality(Landed)
    <3>1. Chunk \cap Landed = Landed
      BY <1>2
    <3>. QED  BY <3>1
  <2>3. Cardinality(Chunk) \in Nat /\ Cardinality(Landed) \in Nat
    BY <1>2, SetsAssumption, FS_Subset, FS_CardinalityType
  <2>. HIDE DEF rest
  <2>. QED  BY <2>1, <2>2, <2>3
<1>9. outstanding >= Cardinality(Pending)
  BY <1>1, <1>2, FS_EmptySet DEF CounterCovers
<1>10. Cardinality(Landed) \in Nat
  BY <1>2, SetsAssumption, FS_Subset, FS_CardinalityType
<1>. HIDE DEF rest, f, T
<1>. QED  BY <1>2, <1>4, <1>5, <1>7, <1>8, <1>9, <1>10

\* The /complete requests, in a step that is none of theirs.
Aside == \A q \in Completer : cmp'[q] = cmp[q] \/ cmp'[q].pc \in {"error", "ok"}

LEMMA ToldStep ==
  ASSUME Careful, Confirms, spoiled = {}, InOrder, \A j \in Job : JobOrder(j), [Next]_vars
  PROVE  Told'
<1>1. /\ cmp \in [Completer -> CmpState] /\ TypeOK /\ Landed \subseteq Chunk
      /\ Landed' \in SUBSET Chunk
  <2>1. Typed'
    BY TypedStep DEF Confirms, Kept
  <2>. QED  BY <2>1 DEF Confirms, Kept, Typed, TypeOK, Landed
<1>2. Accepted \subseteq Accepted'
  BY DEF JobOrder, Accepted
<1>3. Cardinality(Landed) <= Cardinality(Landed')
      /\ Cardinality(Landed) \in Nat /\ Cardinality(Landed') \in Nat /\ Cardinality(Chunk) \in Nat
  <2>1. IsFiniteSet(Landed')
    BY <1>1, SetsAssumption, FS_Subset
  <2>. QED
    BY <1>1, <2>1, SetsAssumption, FS_Subset, FS_CardinalityType DEF InOrder, DiskOrder
<1>. DEFINE Fine(q) ==
       /\ cmp'[q].pc \in {"flush", "wait", "count", "metadata"} => cmp'[q].asked \subseteq Accepted'
       /\ cmp'[q].pc = "metadata" /\ cmp'[q].asked = Chunk =>
            Cardinality(Landed') + cmp'[q].out >= Cardinality(Chunk)
       /\ cmp'[q].pc = "rejected" => cmp'[q].asked # Chunk
<1>4. ASSUME NEW q \in Completer, cmp'[q] = cmp[q]  PROVE Fine(q)
  <2>1. cmp[q].out \in Nat
    BY <1>1 DEF CmpState
  <2>. QED  BY <1>2, <1>3, <1>4, <2>1 DEF Confirms, Told
<1>5. (\A q \in Completer : Fine(q)) => Told'
  BY DEF Told
<1>6. Aside => Told'
  BY <1>4, <1>5 DEF Aside
<1>. HIDE DEF Fine
<1>7. ASSUME NEW q \in Completer, CompleteStep(q) \/ \E i \in Instance : CompleteBegin(q, i)
      PROVE  Told'
  <2>. DEFINE r == cmp'[q]
  <2>0. \A u \in Completer \ {q} : cmp'[u] = cmp[u]
    BY <1>1, <1>7 DEF CompleteStep, CompleteBegin, CompleteFlush, CompleteFlushed, CompleteCount,
       CompleteConfirm, CompleteReread, CompleteFlip, CompleteCharge, CompletePark, CompleteGoto
  <2>1. ASSUME Fine(q)  PROVE Told'
    BY <1>4, <1>5, <2>0, <2>1
  <2>2. ASSUME NEW i \in Instance, CompleteBegin(q, i)  PROVE Fine(q)
    <3>1. r.pc = "flush" /\ r.asked = Accepted
      BY <1>1, <2>2 DEF CompleteBegin, CmpState
    <3>. QED  BY <1>2, <3>1 DEF Fine
  <2>3. ASSUME NEW k \in Call, CompleteFlush(q, k)  PROVE Fine(q)
    <3>1. r.pc \in {"wait", "count"} /\ r.asked = cmp[q].asked /\ cmp[q].pc = "flush"
      BY <1>1, <2>3 DEF CompleteFlush, CompleteGoto, CmpState
    <3>. QED  BY <1>2, <3>1 DEF Fine, Confirms, Told
  <2>4. ASSUME CompleteFlushed(q)  PROVE Fine(q)
    <3>1. r.pc = "count" /\ r.asked = cmp[q].asked /\ cmp[q].pc = "wait"
      BY <1>1, <2>4 DEF CompleteFlushed, CmpState
    <3>. QED  BY <1>2, <3>1 DEF Fine, Confirms, Told
  <2>5. ASSUME CompleteCount(q)  PROVE Fine(q)
    <3>1. r.pc = "metadata" /\ r.asked = cmp[q].asked /\ r.out = outstanding /\ cmp[q].pc = "count"
      BY <1>1, <2>5 DEF CompleteCount, CmpState
    <3>2. r.asked \subseteq Accepted /\ Accepted \subseteq Chunk
      BY <3>1 DEF Confirms, Told, Accepted
    <3>3. r.asked = Chunk => Cardinality(Landed) + outstanding >= Cardinality(Chunk)
      BY <3>2, AllCounted DEF Confirms
    <3>4. outstanding \in Nat
      BY <1>1 DEF TypeOK
    <3>. QED  BY <1>2, <1>3, <3>1, <3>2, <3>3, <3>4 DEF Fine
  <2>6. ASSUME CompleteConfirm(q)  PROVE Fine(q)
    <3>1. /\ r.pc \in {"error", "reread", "rejected"} /\ r.asked = cmp[q].asked
          /\ cmp[q].pc = "metadata" /\ (r.pc = "rejected" => ~AllReceived(q))
      BY <1>1, <2>6 DEF CompleteConfirm, CmpState
    <3>2. r.pc = "rejected" => r.asked # Chunk
      BY <3>1 DEF Confirms, Told, AllReceived
    <3>. QED  BY <3>1, <3>2 DEF Fine
  <2>7. ASSUME CompleteReread(q) \/ CompleteFlip(q) \/ CompleteCharge(q) \/ CompletePark(q)
        PROVE  Fine(q)
    <3>1. r.pc \in {"error", "ok", "flip", "park", "charge"}
      BY <1>1, <2>7 DEF CompleteReread, CompleteFlip, CompleteCharge, CompletePark,
         CompleteGoto, CmpState
    <3>. QED  BY <3>1 DEF Fine
  <2>. QED  BY <1>7, <2>1, <2>2, <2>3, <2>4, <2>5, <2>6, <2>7 DEF CompleteStep
<1>8. ASSUME NEW i \in Instance, GoCrash(i)  PROVE Told'
  <2>1. Aside
    BY <1>1, <1>8 DEF GoCrash, Aside, CmpState
  <2>. QED  BY <2>1, <1>6
<1>9. CASE CoreCrash
  BY <1>9 DEF CoreCrash, Careful
<1>10. (UNCHANGED cmp) => Told'
  BY <1>6 DEF Aside
<1>11. ASSUME NEW j \in Job, RequestStep(j) \/ WorkerStep(j)  PROVE UNCHANGED cmp
  BY <1>11 DEF RequestStep, ChunkCheck, ChunkAccept, CountJob, PersistRow, StreamRefused,
     StreamChunk, RecoverChunk, WorkerStep, StartJob, StartFails, UploadRefused, JobError,
     Uploaded, Redeliver, ReportFailure, DiscardJob, core
<1>12. ASSUME NEW k \in Call, HandlerStep(k) \/ ReporterStep(k)  PROVE UNCHANGED cmp
  BY <1>12 DEF HandlerStep, UpsertChunk, FinalizeCheck, FinalizeFlip, FinalizeCharge, CallEnds,
     ReporterStep, Flush, FlushDone, FlushError, StreamDone, StreamError, FinalizeError
<1>13. CASE AbortStep \/ BufferRetry \/ UNCHANGED vars
  BY <1>10, <1>13 DEF AbortStep, AbortBegin, AbortMark, AbortReread,
     AbortSweep, AbortRemove, BufferRetry, RetryFind, RetryWrite, vars, core
<1>. QED  BY <1>7, <1>8, <1>9, <1>10, <1>11, <1>12, <1>13 DEF Next

LEMMA InitConfirms == Careful /\ NoAborts /\ Init => Confirms
<1>. SUFFICES ASSUME Careful, NoAborts, Init  PROVE Confirms
  OBVIOUS
<1>1. Kept /\ Single
  <2>1. Kept
    BY InitKept
  <2>. QED  BY <2>1 DEF Kept, Single, OneJob, FromUp, Init, Refused, Landed, FreeCall
<1>2. Early = {} /\ Pending = {} /\ outstanding = 0
  BY DEF Init, Early, Pending, Counted, Settled
<1>3. CounterCovers
  BY <1>2, FS_EmptySet DEF CounterCovers
<1>4. Smooth /\ Told
  BY DEF Init, Smooth, Told
<1>. QED  BY <1>1, <1>3, <1>4 DEF Confirms

LEMMA ConfirmsStep == Confirms /\ [Next]_vars => Confirms'
<1>. SUFFICES ASSUME Confirms, [Next]_vars  PROVE Confirms'
  OBVIOUS
<1>0. Careful
  BY DEF Confirms, Single
<1>1. Kept' /\ InOrder /\ Single'
  BY KeptStep, SingleStep DEF Confirms
<1>2. CounterCovers'
  BY <1>1, CountOrders, CounterStep DEF Confirms, Kept, Typed
<1>4. ASSUME spoiled' = {}  PROVE Smooth' /\ Told'
  <2>1. spoiled = {} /\ Smooth
    BY <1>1, <1>4 DEF InOrder, DiskOrder, Confirms
  <2>2. \A j \in Job : JobOrder(j)
    BY <1>0, <1>4, <2>1, JobOrders DEF Confirms
  <2>. QED  BY <1>0, <1>1, <1>4, <2>1, <2>2, SmoothStep, ToldStep
<1>. QED  BY <1>1, <1>2, <1>4 DEF Confirms

\* A client that has all its chunks answered 200 before it calls /complete is not
\* told that some are missing, until an attempt at a chunk fails: whichever instances
\* took them, whatever answers are lost or instances die in between.
THEOREM NeverFalselyRejected == Careful /\ NoAborts /\ Spec => []NoFalseReject
<1>1. Confirms => NoFalseReject
  BY DEF Confirms, Told, NoFalseReject
<1>. QED  BY InitConfirms, ConfirmsStep, <1>1, PTL DEF Spec

-----------------------------------------------------------------------------
(* The browser that uploads (UploadClient).  The gate holds because the     *)
(* inits pass it in the order of the files (GateFits), because no upload    *)
(* under way is shown as failed (RunsShown), and because a pause that the   *)
(* user has not evaded has a conflict that she is asked about, or one of a  *)
(* file that was begun again before she was (PauseFits).                    *)

Fields == {"status", "error", "action", "folderSetupFailed"}
RunFields == {"pc", "action", "next", "sending", "done", "failed", "aborted"}
GatePcs == {"chained", "parked", "init"}
RunPcs == {"none", "chained", "parked", "init", "chunks", "complete"}

Rowed(q) == \A i \in Item : DOMAIN q[i] = Fields
Present(q, i) == q[i].status \notin {"absent", "adding"}

\* The user is asked about i, or it has been begun again from a queue that did not show it.
Conflict(q, i) == q[i].status = "error" /\ q[i].error = "conflict"
Restarted(q, r, i) ==
  q[i].error = "conflict" /\ q[i].status \in {"pending", "uploading"} /\ r[i].pc \in {"chained", "parked"}
Asked(q, r) == \E i \in Item : Conflict(q, i) \/ Restarted(q, r, i)

\* The chunks that one upload has sent.
SentFits(i, r) ==
  /\ DOMAIN r = RunFields /\ r.pc \in RunPcs
  /\ r.next \in Nat \ {0} /\ r.failed \in {"no", "cancel", "error"}
  /\ r.pc \in GatePcs => r.next = 1 /\ DOMAIN r.sending = {} /\ r.done = {} /\ r.failed = "no"
  /\ (r.pc = "chunks" /\ r.failed = "no") =>
        r.next <= Client!Count(i) + 1 /\ (DOMAIN r.sending) \cup r.done = 1 .. (r.next - 1)
  /\ r.pc = "complete" => r.done = 1 .. Client!Count(i)

RunsFit(r) == DOMAIN r = Item /\ \A i \in Item : SentFits(i, r[i])

ClientTyped ==
  /\ Rowed(queue) /\ Rowed(seen) /\ RunsFit(run)
  /\ processing \in BOOLEAN /\ paused \in BOOLEAN /\ bypassed \in BOOLEAN

\* At most one init has passed the gate, or stands before it.
GateFits ==
  /\ ~processing => \A i \in Item : run[i].pc = "none"
  /\ \A i, j \in Item : (run[i].pc \in {"parked", "init"} /\ run[j].pc \in GatePcs) => i <= j
  /\ \A i \in Item : run[i].pc = "parked" => paused

RunsShown ==
  /\ \A i \in Item : run[i].pc # "none" => queue[i].status \notin {"absent", "adding", "error"}
  /\ \A i \in Item : Present(seen, i) => Present(queue, i)

RefusedFits ==
  refused # 0 => /\ refused = 1 /\ paused
                 /\ \A i \in Item : run[i].pc # "init"
                 /\ \E i \in Item : Conflict(queue, i) \/ run[i].pc \in GatePcs

PauseFits == paused => bypassed \/ Asked(queue, run)

ClientInv == ClientTyped /\ GateFits /\ RunsShown /\ RefusedFits /\ PauseFits

\* What an update does to one entry.
LEMMA UpdatedAt ==
  ASSUME NEW q, NEW S, NEW data, NEW i \in Item, Rowed(q)
  PROVE  LET e == Client!Updated(q, S, data)[i] IN
           /\ DOMAIN e = Fields
           /\ i \notin S \cap Client!InQueue(q) => e = q[i]
           /\ i \in S \cap Client!InQueue(q) =>
                /\ e.status = IF "status" \in DOMAIN data THEN data["status"] ELSE q[i].status
                /\ e.error = IF "error" \in DOMAIN data THEN data["error"] ELSE q[i].error
BY DEF Client!Updated, Rowed, Fields

LEMMA MarkedAt ==
  ASSUME NEW q, NEW S, NEW s, NEW i \in Item, Rowed(q)
  PROVE  LET e == Client!Updated(q, S, [status |-> s])[i] IN
           /\ DOMAIN e = Fields
           /\ i \notin S \cap Client!InQueue(q) => e = q[i]
           /\ i \in S \cap Client!InQueue(q) => e.status = s /\ e.error = q[i].error
<1> DEFINE data == [status |-> s]
<1>1. DOMAIN data = {"status"} /\ data["status"] = s
  OBVIOUS
<1> HIDE DEF data
<1>2. LET e == Client!Updated(q, S, data)[i] IN
           /\ DOMAIN e = Fields
           /\ i \notin S \cap Client!InQueue(q) => e = q[i]
           /\ i \in S \cap Client!InQueue(q) => e.status = s /\ e.error = q[i].error
  BY <1>1, UpdatedAt
<1> QED
  BY <1>2 DEF data

LEMMA SettledAt ==
  ASSUME NEW q, NEW S, NEW s, NEW x, NEW i \in Item, Rowed(q)
  PROVE  LET e == Client!Updated(q, S, [status |-> s, error |-> x])[i] IN
           /\ DOMAIN e = Fields
           /\ i \notin S \cap Client!InQueue(q) => e = q[i]
           /\ i \in S \cap Client!InQueue(q) => e.status = s /\ e.error = x
<1> DEFINE data == [status |-> s, error |-> x]
<1>1. DOMAIN data = {"status", "error"} /\ data["status"] = s /\ data["error"] = x
  OBVIOUS
<1> HIDE DEF data
<1>2. LET e == Client!Updated(q, S, data)[i] IN
           /\ DOMAIN e = Fields
           /\ i \notin S \cap Client!InQueue(q) => e = q[i]
           /\ i \in S \cap Client!InQueue(q) => e.status = s /\ e.error = x
  BY <1>1, UpdatedAt
<1> QED
  BY <1>2 DEF data

\* What a decision does to one entry.
LEMMA ResolvedAt ==
  ASSUME NEW q, NEW d, NEW resolution, NEW i \in Item, Rowed(q)
  PROVE  LET e == Client!Resolved(q, d, resolution)[i] IN
           /\ DOMAIN e = Fields
           /\ e = q[i] \/ (Present(q, i) /\ e.status \in {"cancelled", "pending"} /\ e.error # "conflict")
<1>1. CASE resolution = "skip"
  <2>1. Client!Resolved(q, d, resolution)
          = Client!Updated(q, {d}, [status |-> "cancelled", error |-> "other"])
    BY <1>1 DEF Client!Resolved
  <2> QED
    BY <2>1, SettledAt DEF Client!InQueue, Present
<1>2. CASE resolution # "skip"
  <2> DEFINE data == [status |-> "pending", error |-> "none", action |-> resolution]
  <2>1. DOMAIN data = {"status", "error", "action"} /\ data["status"] = "pending" /\ data["error"] = "none"
    OBVIOUS
  <2>2. Client!Resolved(q, d, resolution) = Client!Updated(q, {d}, data)
    BY <1>2 DEF Client!Resolved
  <2> HIDE DEF data
  <2> QED
    BY <2>1, <2>2, UpdatedAt DEF Client!InQueue, Present
<1> QED
  BY <1>1, <1>2

LEMMA NoRunFits == ASSUME NEW i \in Item, NEW a PROVE
  LET r == [Client!NoRun EXCEPT !.pc = "chained", !.action = a] IN
  SentFits(i, r) /\ r.pc = "chained"
BY DEF SentFits, Client!NoRun, RunFields, RunPcs, GatePcs

LEMMA NoRunNone == ASSUME NEW i \in Item PROVE SentFits(i, Client!NoRun) /\ Client!NoRun.pc = "none"
BY DEF SentFits, Client!NoRun, RunFields, RunPcs, GatePcs

LEMMA WokenAt ==
  ASSUME NEW r, RunsFit(r), NEW i \in Item
  PROVE  /\ SentFits(i, Client!Woken(r)[i])
         /\ Client!Woken(r)[i].pc = IF r[i].pc = "parked" THEN "init" ELSE r[i].pc
BY DEF Client!Woken, RunsFit, SentFits, RunFields, RunPcs, GatePcs

LEMMA BegunAt ==
  ASSUME NEW r, NEW B, NEW q, NEW i \in Item, SentFits(i, r[i])
  PROVE  LET b == Client!Begun(r, B, q)[i] IN
           /\ SentFits(i, b)
           /\ i \in B => b.pc = "chained"
           /\ i \notin B => b = r[i]
BY NoRunFits DEF Client!Begun

LEMMA NextBatchPending ==
  ASSUME NEW q
  PROVE  Client!NextBatch(q) \subseteq {i \in Item : q[i].status = "pending"}
BY DEF Client!NextBatch, Client!FirstOf, Client!With

\* What a step may hand to its render: r has the program counters of run, no upload
\* under way is shown as over, and what was asked of the user still is, or is decided.
Renders(q, r, resumes, decides) ==
  /\ Rowed(q) /\ RunsFit(r)
  /\ \A i \in Item : r[i].pc = run[i].pc
  /\ \A i \in Item : run[i].pc # "none" => q[i].status \notin {"absent", "adding", "error"}
  /\ resumes \in BOOLEAN /\ decides \in BOOLEAN
  /\ resumes => decides
  /\ decides \/ \A i \in Item : Conflict(queue, i) => Conflict(q, i)

\* A render keeps the invariant.
LEMMA RenderFits ==
  ASSUME Client!ClientFits, ClientInv, UNCHANGED small,
         NEW q, NEW p, NEW r, NEW resumes, NEW decides,
         Renders(q, r, resumes, decides),
         paused => resumes \/ bypassed' \/ Asked(q, r),
         bypassed' \in BOOLEAN,
         Client!Rendered(q, p, r, resumes, decides)
  PROVE  ClientInv'
<1> DEFINE watches == p.on /\ p.dialog = 0 /\ Client!Flagged(q) # {}
           auto == watches /\ p.all # "none"
           starts == ~processing /\ Client!With(q, "pending") # {} /\ Client!With(q, "uploading") = {}
           batch == IF starts THEN Client!NextBatch(q) ELSE {}
           opens == resumes \/ auto \/ (starts /\ Client!Unresolved(q) = {})
           decided == IF auto THEN Client!Resolved(q, Client!Least(Client!Flagged(q)), p.all) ELSE q
           base == IF opens THEN Client!Woken(r) ELSE r
<1>1. /\ seen' = q
      /\ queue' = Client!Updated(decided, batch, [status |-> "uploading"])
      /\ paused' = (paused /\ ~opens)
      /\ run' = Client!Begun(base, batch, q)
      /\ processing' = (processing \/ batch # {})
      /\ refused' = IF decides \/ auto THEN 0 ELSE refused
  BY DEF Client!Rendered
<1>2. /\ batch # {} => ~processing
      /\ batch \subseteq {i \in Item : q[i].status = "pending"}
      /\ auto \in BOOLEAN /\ starts \in BOOLEAN /\ opens \in BOOLEAN
      /\ starts => ~processing
      /\ resumes => opens
      /\ auto => opens
      /\ (starts /\ Client!Unresolved(q) = {}) => opens
  BY NextBatchPending DEF Renders
<1>3. /\ Rowed(decided)
      /\ ~auto => decided = q
      /\ \A i \in Item : decided[i] = q[i]
           \/ (Present(q, i) /\ decided[i].status \in {"cancelled", "pending"}
               /\ decided[i].error # "conflict")
  <2> HIDE DEF auto
  <2> QED
    BY ResolvedAt DEF Rowed, Renders
<1>4. \A i \in Item : SentFits(i, base[i])
                      /\ base[i].pc = IF opens /\ r[i].pc = "parked" THEN "init" ELSE r[i].pc
  BY WokenAt DEF RunsFit, Renders
<1>5. base = r \/ opens
  OBVIOUS
<1>6. DOMAIN run' = Item
  BY <1>1 DEF Client!Begun
<1>7. Rowed(q) /\ RunsFit(r)
  BY DEF Renders
<1>8. \A i \in Item : r[i].pc = run[i].pc
  BY DEF Renders
<1> HIDE DEF watches, auto, starts, batch, opens, decided, base
<1>9. /\ Rowed(queue')
      /\ \A i \in Item :
           /\ Present(q, i) => Present(queue', i)
           /\ (i \notin batch /\ ~auto) => queue'[i] = q[i]
           /\ queue'[i] = q[i] \/ (Present(q, i) /\ queue'[i].status \in {"cancelled", "pending", "uploading"})
           /\ i \in batch => queue'[i].status = "uploading"
  <2> SUFFICES ASSUME NEW i \in Item
               PROVE  /\ DOMAIN queue'[i] = Fields
                      /\ Present(q, i) => Present(queue', i)
                      /\ (i \notin batch /\ ~auto) => queue'[i] = q[i]
                      /\ queue'[i] = q[i] \/ (Present(q, i) /\ queue'[i].status \in {"cancelled", "pending", "uploading"})
                      /\ i \in batch => queue'[i].status = "uploading"
    BY DEF Rowed
  <2> DEFINE e == Client!Updated(decided, batch, [status |-> "uploading"])[i]
  <2>1. queue'[i] = e
    BY <1>1
  <2>2. /\ DOMAIN e = Fields
        /\ i \notin batch \cap Client!InQueue(decided) => e = decided[i]
        /\ i \in batch \cap Client!InQueue(decided) => e.status = "uploading" /\ e.error = decided[i].error
    BY <1>3, MarkedAt
  <2>3. decided[i] = q[i] \/ (Present(q, i) /\ decided[i].status \in {"cancelled", "pending"})
    BY <1>3
  <2>4. i \in batch => q[i].status = "pending"
    BY <1>2
  <2> HIDE DEF e
  <2> QED
    BY <1>3, <2>1, <2>2, <2>3, <2>4 DEF Client!InQueue, Present
<1>10. \A i \in Item :
         /\ SentFits(i, run'[i])
         /\ i \in batch => run'[i].pc = "chained"
         /\ i \notin batch => run'[i] = base[i]
  BY <1>1, <1>4, BegunAt
<1>11. \A i \in Item : SentFits(i, run[i])'
  BY <1>10 DEF SentFits, Client!Count
<1>12. \A i \in Item : batch # {} => r[i].pc = "none" /\ base[i].pc = "none"
  BY <1>2, <1>4, <1>8 DEF ClientInv, GateFits
<1>13. ClientTyped'
  <2>1. processing' \in BOOLEAN /\ paused' \in BOOLEAN /\ bypassed' \in BOOLEAN
    BY <1>1, <1>2 DEF ClientInv, ClientTyped
  <2> QED
    BY <1>1, <1>6, <1>7, <1>9, <1>11, <2>1 DEF ClientTyped, RunsFit, Rowed
<1>14. GateFits'
  <2>1. ~processing' => \A i \in Item : run'[i].pc = "none"
    BY <1>1, <1>4, <1>8, <1>10 DEF ClientInv, GateFits, ClientTyped
  <2>2. ASSUME NEW i \in Item, NEW j \in Item, run'[i].pc \in {"parked", "init"}, run'[j].pc \in GatePcs
        PROVE  i <= j
    <3>1. batch = {}
      BY <1>10, <1>12, <2>2
    <3>2. run[i].pc \in {"parked", "init"} /\ run[j].pc \in GatePcs
      BY <1>4, <1>8, <1>10, <2>2, <3>1 DEF GatePcs
    <3> QED
      BY <3>2 DEF ClientInv, GateFits
  <2>3. ASSUME NEW i \in Item, run'[i].pc = "parked"
        PROVE  paused'
    <3>1. i \notin batch /\ base[i].pc = "parked"
      BY <1>10, <2>3
    <3>2. ~opens /\ run[i].pc = "parked"
      BY <1>4, <1>8, <3>1
    <3> QED
      BY <1>1, <3>2 DEF ClientInv, GateFits
  <2> QED
    BY <2>1, <2>2, <2>3 DEF GateFits
<1>15. RunsShown'
  <2>1. ASSUME NEW i \in Item, run'[i].pc # "none"
        PROVE  queue'[i].status \notin {"absent", "adding", "error"}
    <3>1. CASE i \in batch
      BY <1>9, <3>1
    <3>2. CASE i \notin batch
      <4>1. run[i].pc # "none"
        BY <1>4, <1>8, <1>10, <2>1, <3>2
      <4>2. q[i].status \notin {"absent", "adding", "error"}
        BY <4>1 DEF Renders
      <4> QED
        BY <1>9, <4>2
    <3> QED
      BY <3>1, <3>2
  <2>2. \A i \in Item : Present(seen', i) => Present(queue', i)
    BY <1>1, <1>9
  <2> QED
    BY <2>1, <2>2 DEF RunsShown, Present
<1>16. ASSUME ~opens
       PROVE  /\ \A i \in Item : run'[i].pc = "init" => run[i].pc = "init"
              /\ \A i \in Item : Conflict(q, i) => Conflict(queue', i)
              /\ \A i \in Item : run[i].pc \in GatePcs => run'[i].pc \in GatePcs
  <2>1. \A i \in Item : i \in batch => q[i].status = "pending"
    BY <1>2
  <2>2. \A i \in Item : Conflict(q, i) => Conflict(queue', i)
    BY <1>2, <1>9, <1>16, <2>1 DEF Conflict
  <2> QED
    BY <1>4, <1>8, <1>10, <1>16, <2>2 DEF GatePcs
<1>17. RefusedFits'
  <2> SUFFICES ASSUME refused' # 0
               PROVE  /\ refused' = 1 /\ paused'
                      /\ \A i \in Item : run'[i].pc # "init"
                      /\ \E i \in Item : Conflict(queue', i) \/ run'[i].pc \in GatePcs
    BY DEF RefusedFits, Conflict
  <2>1. ~decides /\ ~auto /\ refused' = refused /\ refused # 0
    BY <1>1
  <2>2. /\ refused = 1 /\ paused
        /\ \A i \in Item : run[i].pc # "init"
        /\ \E i \in Item : Conflict(queue, i) \/ run[i].pc \in GatePcs
    BY <2>1 DEF ClientInv, RefusedFits
  <2>3. \A i \in Item : Conflict(queue, i) => Conflict(q, i)
    BY <2>1 DEF Renders
  <2>4. ~(starts /\ Client!Unresolved(q) = {})
    <3> SUFFICES ASSUME starts
                 PROVE  Client!Unresolved(q) # {}
      OBVIOUS
    <3>1. \A i \in Item : run[i].pc = "none"
      BY <1>2 DEF ClientInv, GateFits
    <3>2. PICK i \in Item : Conflict(q, i)
      BY <2>2, <2>3, <3>1 DEF GatePcs
    <3> QED
      BY <3>2 DEF Conflict, Client!Unresolved, Client!With
  <2>5. ~opens
    BY <2>1, <2>4 DEF Renders, opens
  <2> QED
    BY <1>1, <1>16, <2>1, <2>2, <2>3, <2>5
<1>18. PauseFits'
  <2> SUFFICES ASSUME paused', ~bypassed'
               PROVE  \E i \in Item : Conflict(queue', i) \/ Restarted(queue', run', i)
    BY DEF PauseFits, Asked, Conflict, Restarted
  <2>1. paused /\ ~opens
    BY <1>1
  <2>2. ~resumes /\ ~auto
    BY <1>2, <2>1 DEF Renders
  <2>3. Asked(q, r)
    BY <2>1, <2>2
  <2>4. PICK i \in Item : Conflict(q, i) \/ Restarted(q, r, i)
    BY <2>3 DEF Asked
  <2>5. CASE Conflict(q, i)
    BY <1>16, <2>1, <2>5
  <2>6. CASE Restarted(q, r, i)
    <3>1. r[i].pc \in {"chained", "parked"}
      BY <2>6 DEF Restarted
    <3>2. batch = {}
      BY <1>12, <3>1
    <3>3. queue'[i] = q[i] /\ run'[i] = r[i]
      BY <1>5, <1>9, <1>10, <2>1, <2>2, <3>2
    <3> QED
      BY <2>6, <3>3 DEF Restarted
  <2> QED
    BY <2>4, <2>5, <2>6
<1> QED
  BY <1>13, <1>14, <1>15, <1>17, <1>18 DEF ClientInv

\* An upload that has passed the gate goes on, or ends.
LEMMA PassedFits ==
  ASSUME ClientInv, UNCHANGED <<small, seen, processing, paused, refused, bypassed>>,
         NEW i \in Item, run[i].pc \in {"init", "chunks", "complete"},
         NEW r, SentFits(i, r), r.pc \notin GatePcs, run' = [run EXCEPT ![i] = r],
         \/ queue' = queue
         \/ /\ r.pc = "none" /\ Rowed(queue')
            /\ \A j \in Item : /\ j # i => queue'[j] = queue[j]
                               /\ Present(queue, j) => Present(queue', j)
  PROVE  ClientInv'
<1>1. DOMAIN run' = Item /\ run'[i] = r /\ \A j \in Item : j # i => run'[j] = run[j]
  BY DEF ClientInv, ClientTyped, RunsFit
<1>2. /\ Rowed(queue')
      /\ \A j \in Item : /\ j # i \/ r.pc # "none" => queue'[j] = queue[j]
                         /\ Present(queue, j) => Present(queue', j)
  BY DEF ClientInv, ClientTyped, Present
<1>3. ClientTyped'
  <2>1. \A j \in Item : SentFits(j, run'[j])
    BY <1>1 DEF ClientInv, ClientTyped, RunsFit
  <2>2. \A j \in Item : SentFits(j, run[j])'
    BY <2>1 DEF SentFits, Client!Count
  <2> QED
    BY <1>1, <1>2, <2>2 DEF ClientInv, ClientTyped, RunsFit, Rowed
<1>4. GateFits'
  BY <1>1 DEF ClientInv, GateFits, GatePcs
<1>5. RunsShown'
  <2>1. \A j \in Item : run'[j].pc # "none" => queue'[j].status \notin {"absent", "adding", "error"}
    BY <1>1, <1>2 DEF ClientInv, RunsShown
  <2>2. \A j \in Item : Present(seen', j) => Present(queue', j)
    BY <1>2 DEF ClientInv, RunsShown
  <2> QED
    BY <2>1, <2>2 DEF RunsShown, Present
<1>6. RefusedFits'
  <2> SUFFICES ASSUME refused' # 0
               PROVE  /\ refused' = 1 /\ paused'
                      /\ \A j \in Item : run'[j].pc # "init"
                      /\ \E j \in Item : Conflict(queue', j) \/ run'[j].pc \in GatePcs
    BY DEF RefusedFits, Conflict
  <2>1. /\ refused = 1 /\ paused
        /\ \A j \in Item : run[j].pc # "init"
        /\ \E j \in Item : Conflict(queue, j) \/ run[j].pc \in GatePcs
    BY DEF ClientInv, RefusedFits
  <2>2. queue[i].status # "error" /\ run[i].pc \notin GatePcs
    BY <2>1 DEF ClientInv, RunsShown, GatePcs
  <2>3. PICK j \in Item : Conflict(queue, j) \/ run[j].pc \in GatePcs
    BY <2>1
  <2>4. j # i
    BY <2>2, <2>3 DEF Conflict
  <2>5. Conflict(queue', j) \/ run'[j].pc \in GatePcs
    BY <1>1, <1>2, <2>3, <2>4 DEF Conflict
  <2>6. \A k \in Item : run'[k].pc # "init"
    BY <1>1, <2>1 DEF GatePcs
  <2> QED
    BY <2>1, <2>5, <2>6
<1>7. PauseFits'
  <2> SUFFICES ASSUME paused', ~bypassed'
               PROVE  \E j \in Item : Conflict(queue', j) \/ Restarted(queue', run', j)
    BY DEF PauseFits, Asked, Conflict, Restarted
  <2>1. PICK j \in Item : Conflict(queue, j) \/ Restarted(queue, run, j)
    BY DEF ClientInv, PauseFits, Asked
  <2>2. queue[i].status # "error" /\ run[i].pc \notin {"chained", "parked"}
    BY DEF ClientInv, RunsShown
  <2>3. j # i
    BY <2>1, <2>2 DEF Conflict, Restarted
  <2>4. queue'[j] = queue[j] /\ run'[j] = run[j]
    BY <1>1, <1>2, <2>3
  <2> QED
    BY <2>1, <2>4 DEF Conflict, Restarted
<1> QED
  BY <1>3, <1>4, <1>5, <1>6, <1>7 DEF ClientInv

LEMMA EndsFits ==
  ASSUME ClientInv, UNCHANGED <<small, seen, processing, paused, refused, bypassed>>,
         NEW i \in Item, run[i].pc \in {"init", "chunks", "complete"},
         NEW data, "status" \in DOMAIN data => data["status"] \in {"error", "complete"},
         Client!Ends(i, data)
  PROVE  ClientInv'
<1>1. queue' = Client!Updated(queue, {i}, data) /\ run' = [run EXCEPT ![i] = Client!NoRun]
  BY DEF Client!Ends
<1>2. Rowed(queue)
  BY DEF ClientInv, ClientTyped
<1>3. ASSUME NEW j \in Item
      PROVE  /\ DOMAIN queue'[j] = Fields
             /\ j # i => queue'[j] = queue[j]
             /\ Present(queue, j) => Present(queue', j)
  <2> DEFINE e == Client!Updated(queue, {i}, data)[j]
  <2>1. /\ DOMAIN e = Fields
        /\ j \notin {i} \cap Client!InQueue(queue) => e = queue[j]
        /\ j \in {i} \cap Client!InQueue(queue) =>
             e.status = IF "status" \in DOMAIN data THEN data["status"] ELSE queue[j].status
    BY <1>2, UpdatedAt
  <2>2. queue'[j] = e
    BY <1>1
  <2> HIDE DEF e
  <2> QED
    BY <2>1, <2>2 DEF Client!InQueue, Present
<1>4. Rowed(queue')
  BY <1>3 DEF Rowed
<1>5. SentFits(i, Client!NoRun) /\ Client!NoRun.pc = "none"
  BY NoRunNone
<1>6. "none" \notin GatePcs
  BY DEF GatePcs
<1> QED
  BY <1>1, <1>3, <1>4, <1>5, <1>6, PassedFits

LEMMA CountNat == ASSUME Client!ClientFits, NEW i \in Item PROVE Client!Count(i) \in Nat
BY DEF Client!ClientFits, Client!Count

LEMMA CancelledStops ==
  ASSUME ClientInv, seen = queue, NEW i \in Item, run[i].pc # "none"
  PROVE  Client!Stops(i) => Client!Cancelled(i)
BY DEF Client!Stops, Client!Cancelled, ClientInv, RunsShown

\* The workers take chunks; when none is under way, all were accepted or the upload is over.
LEMMA TakingFits ==
  ASSUME Client!ClientFits, ClientInv, seen = queue, NEW i \in Item, run[i].pc # "none",
         NEW r, SentFits(i, r), r.pc = "chunks", NEW w \in Nat \ {0}
  PROVE  LET t == Client!Taking(i, r, w) IN
           /\ SentFits(i, t) /\ t.pc = "chunks"
           /\ (t.sending = <<>> /\ t.failed = "no" /\ ~Client!Cancelled(i)) => t.done = 1 .. Client!Count(i)
<1> DEFINE n == Client!Count(i)
           gives == r.failed # "no" \/ Client!Stops(i)
           last == IF gives THEN r.next - 1 ELSE IF r.next + w - 1 < n THEN r.next + w - 1 ELSE n
           now == [c \in DOMAIN r.sending \cup r.next .. last |->
                     IF c \in DOMAIN r.sending THEN r.sending[c] ELSE 0]
           t == Client!Taking(i, r, w)
<1>1. t = [r EXCEPT !.next = last + 1, !.sending = now]
  BY DEF Client!Taking
<1>2. n \in Nat
  BY CountNat
<1>3. /\ DOMAIN r = RunFields /\ r.next \in Nat \ {0} /\ r.failed \in {"no", "cancel", "error"}
      /\ r.failed = "no" => r.next <= n + 1 /\ (DOMAIN r.sending) \cup r.done = 1 .. (r.next - 1)
  BY DEF SentFits
<1>4. DOMAIN now = DOMAIN r.sending \cup r.next .. last
  OBVIOUS
<1>5. /\ DOMAIN t = RunFields /\ t.pc = "chunks" /\ t.next = last + 1 /\ t.sending = now
      /\ t.done = r.done /\ t.failed = r.failed
  <2> HIDE DEF now, last, t
  <2> QED
    BY <1>1, <1>3 DEF RunFields
<1>6. last + 1 \in Nat \ {0} /\ last \in Nat
  BY <1>2, <1>3
<1>7. r.failed = "no" => last <= n /\ (DOMAIN now) \cup r.done = 1 .. last
  <2> SUFFICES ASSUME r.failed = "no" PROVE last <= n /\ (DOMAIN now) \cup r.done = 1 .. last
    OBVIOUS
  <2>1. last >= r.next - 1 /\ last <= n
    BY <1>2, <1>3
  <2>2. (DOMAIN r.sending) \cup r.done = 1 .. (r.next - 1)
    BY <1>3
  <2> HIDE DEF last, now, n
  <2>3. 1 .. last = (1 .. (r.next - 1)) \cup (r.next .. last)
    BY <1>3, <1>6, <2>1
  <2> QED
    BY <1>4, <2>1, <2>2, <2>3
<1>8. SentFits(i, t)
  <2> HIDE DEF last, now, t
  <2>1. (last + 1) - 1 = last
    BY <1>6
  <2> QED
    BY <1>2, <1>5, <1>6, <1>7, <2>1 DEF SentFits, RunPcs, GatePcs
<1>9. ASSUME t.sending = <<>>, t.failed = "no", ~Client!Cancelled(i)
      PROVE  t.done = 1 .. n
  <2>1. ~gives
    BY <1>5, <1>9, CancelledStops
  <2>2. DOMAIN now = {}
    <3>1. now = <<>>
      BY <1>5, <1>9
    <3>2. DOMAIN <<>> = {}
      OBVIOUS
    <3> HIDE DEF now
    <3> QED
      BY <3>1, <3>2
  <2>3. r.next .. last = {}
    BY <1>4, <2>2
  <2>4. last = n
    <3>1. CASE r.next + w - 1 < n
      <4>1. last = r.next + w - 1
        BY <2>1, <3>1
      <4>2. r.next \in r.next .. last
        BY <1>3, <4>1
      <4> QED
        BY <2>3, <4>2
    <3>2. CASE ~(r.next + w - 1 < n)
      BY <2>1, <3>2
    <3> QED
      BY <3>1, <3>2
  <2> HIDE DEF last, now
  <2> QED
    BY <1>5, <1>7, <1>9, <2>2, <2>4
<1> QED
  BY <1>5, <1>8, <1>9

LEMMA GoOnFits ==
  ASSUME ClientInv, UNCHANGED <<small, seen, processing, paused, refused, bypassed>>,
         NEW i \in Item, run[i].pc \in {"init", "chunks", "complete"},
         NEW r, SentFits(i, r), r.pc = "chunks",
         (r.sending = <<>> /\ r.failed = "no" /\ ~Client!Cancelled(i)) => r.done = 1 .. Client!Count(i),
         Client!GoOn(i, r)
  PROVE  ClientInv'
<1>1. CASE r.sending # <<>>
  BY <1>1, PassedFits DEF Client!GoOn, GatePcs
<1>2. CASE r.sending = <<>> /\ r.failed = "error"
  <2> DEFINE data == [status |-> "error", error |-> "other"]
  <2>1. Client!Ends(i, data)
    BY <1>2 DEF Client!GoOn
  <2>2. data["status"] = "error"
    OBVIOUS
  <2> HIDE DEF data
  <2> QED
    BY <2>1, <2>2, EndsFits
<1>3. CASE r.sending = <<>> /\ r.failed # "error" /\ (r.failed = "cancel" \/ Client!Cancelled(i))
  <2>1. Client!Ends(i, <<>>)
    BY <1>3 DEF Client!GoOn
  <2>2. DOMAIN <<>> = {}
    OBVIOUS
  <2> QED
    BY <2>1, <2>2, EndsFits
<1>4. CASE r.sending = <<>> /\ r.failed = "no" /\ ~Client!Cancelled(i)
  <2> DEFINE t == [r EXCEPT !.pc = "complete"]
  <2>1. run' = [run EXCEPT ![i] = t] /\ queue' = queue
    BY <1>4 DEF Client!GoOn
  <2>2. /\ DOMAIN t = RunFields /\ t.pc = "complete" /\ t.next = r.next /\ t.sending = r.sending
        /\ t.done = r.done /\ t.failed = r.failed
    BY DEF SentFits, RunFields
  <2> HIDE DEF t
  <2>3. SentFits(i, t) /\ t.pc \notin GatePcs
    BY <1>4, <2>2 DEF SentFits, RunPcs, GatePcs
  <2> QED
    BY <2>1, <2>3, PassedFits
<1> QED
  BY <1>1, <1>2, <1>3, <1>4 DEF SentFits

\* What a step that hands the state as it is to its render keeps.
LEMMA RendersAsIs ==
  ASSUME ClientInv, NEW decides \in BOOLEAN
  PROVE  Renders(queue, run, FALSE, decides)
BY DEF ClientInv, ClientTyped, RunsShown, Renders

LEMMA PauseAsked == ClientInv => (paused => bypassed \/ Asked(queue, run))
BY DEF ClientInv, PauseFits

LEMMA AsItIs ==
  ASSUME Client!ClientFits, ClientInv, UNCHANGED <<small, bypassed>>, NEW p,
         Client!Rendered(queue, p, run, FALSE, FALSE)
  PROVE  ClientInv'
<1>1. Renders(queue, run, FALSE, FALSE)
  BY RendersAsIs
<1>2. bypassed' \in BOOLEAN /\ (paused => FALSE \/ bypassed' \/ Asked(queue, run))
  BY PauseAsked DEF ClientInv, ClientTyped
<1> QED
  BY <1>1, <1>2, RenderFits

LEMMA Unmoved ==
  ASSUME ClientInv, UNCHANGED <<small, queue, seen, processing, run, paused, refused, bypassed>>
  PROVE  ClientInv'
BY DEF ClientInv, ClientTyped, GateFits, RunsShown, RefusedFits, PauseFits, Rowed, Present, RunsFit,
       SentFits, Client!Count, Conflict, Restarted, Asked

LEMMA LoopAgainFits ==
  ASSUME Client!ClientFits, ClientInv, UNCHANGED small, Client!LoopAgain
  PROVE  ClientInv'
<1> DEFINE batch == Client!NextBatch(seen)
<1>1. /\ processing /\ queue' = Client!Updated(queue, batch, [status |-> "uploading"])
      /\ run' = Client!Begun(run, batch, seen) /\ processing' = (batch # {})
      /\ UNCHANGED <<seen, paused, refused, bypassed>>
  BY DEF Client!LoopAgain
<1>2. \A i \in Item : run[i].pc = "none" /\ SentFits(i, run[i])
  BY DEF Client!LoopAgain, Client!Running, ClientInv, ClientTyped, RunsFit
<1>3. batch \subseteq {i \in Item : seen[i].status = "pending"}
  BY NextBatchPending
<1>4. Rowed(queue)
  BY DEF ClientInv, ClientTyped
<1> HIDE DEF batch
<1>5. ASSUME NEW i \in Item
      PROVE  /\ DOMAIN queue'[i] = Fields
             /\ i \notin batch \cap Client!InQueue(queue) => queue'[i] = queue[i]
             /\ i \in batch \cap Client!InQueue(queue) =>
                  queue'[i].status = "uploading" /\ queue'[i].error = queue[i].error
  BY <1>1, <1>4, MarkedAt
<1>6. ASSUME NEW i \in Item
      PROVE  /\ SentFits(i, run'[i])
             /\ i \in batch => run'[i].pc = "chained"
             /\ i \notin batch => run'[i].pc = "none"
  BY <1>1, <1>2, BegunAt
<1>7. ClientTyped'
  <2>1. DOMAIN run' = Item
    BY <1>1 DEF Client!Begun
  <2>2. \A i \in Item : SentFits(i, run[i])'
    BY <1>6 DEF SentFits, Client!Count
  <2> QED
    BY <1>1, <1>5, <2>1, <2>2 DEF ClientInv, ClientTyped, Rowed, RunsFit
<1>8. GateFits'
  BY <1>1, <1>6 DEF GateFits
<1>9. RunsShown'
  <2>1. \A i \in Item : Present(queue, i) => Present(queue', i)
    BY <1>5 DEF Present
  <2>2. ASSUME NEW i \in batch
        PROVE  queue'[i].status \notin {"absent", "adding", "error"}
    <3>1. i \in Item /\ Present(queue, i)
      BY <1>3 DEF ClientInv, RunsShown, Present
    <3> QED
      BY <1>5, <3>1 DEF Present, Client!InQueue
  <2>3. \A i \in Item : Present(seen', i) => Present(queue', i)
    BY <1>1, <2>1 DEF ClientInv, RunsShown
  <2>4. \A i \in Item : run'[i].pc # "none" => queue'[i].status \notin {"absent", "adding", "error"}
    BY <1>6, <2>2
  <2> QED
    BY <2>3, <2>4 DEF RunsShown, Present
<1>10. ASSUME NEW i \in Item, Conflict(queue, i)
       PROVE  Conflict(queue', i) \/ Restarted(queue', run', i)
  <2>1. i \in Client!InQueue(queue)
    BY <1>10 DEF Conflict, Client!InQueue
  <2> QED
    BY <1>5, <1>6, <1>10, <2>1 DEF Conflict, Restarted
<1>11. RefusedFits'
  <2> SUFFICES ASSUME refused' # 0
               PROVE  /\ refused' = 1 /\ paused'
                      /\ \A i \in Item : run'[i].pc # "init"
                      /\ \E i \in Item : Conflict(queue', i) \/ run'[i].pc \in GatePcs
    BY DEF RefusedFits, Conflict
  <2>1. refused = 1 /\ paused /\ \E i \in Item : Conflict(queue, i) \/ run[i].pc \in GatePcs
    BY <1>1 DEF ClientInv, RefusedFits
  <2>2. PICK i \in Item : Conflict(queue, i)
    BY <1>2, <2>1 DEF GatePcs
  <2>3. Conflict(queue', i) \/ run'[i].pc \in GatePcs
    BY <1>10, <2>2 DEF Restarted, GatePcs
  <2>4. \A k \in Item : run'[k].pc # "init"
    BY <1>6
  <2> QED
    BY <1>1, <2>1, <2>3, <2>4
<1>12. PauseFits'
  <2> SUFFICES ASSUME paused', ~bypassed'
               PROVE  \E j \in Item : Conflict(queue', j) \/ Restarted(queue', run', j)
    BY DEF PauseFits, Asked, Conflict, Restarted
  <2>1. PICK j \in Item : Conflict(queue, j) \/ Restarted(queue, run, j)
    BY <1>1 DEF ClientInv, PauseFits, Asked
  <2>2. Conflict(queue, j)
    BY <1>2, <2>1 DEF Restarted
  <2> QED
    BY <1>10, <2>2
<1> QED
  BY <1>7, <1>8, <1>9, <1>11, <1>12 DEF ClientInv

LEMMA EnterFits ==
  ASSUME Client!ClientFits, ClientInv, UNCHANGED small, NEW i \in Item, Client!Enter(i)
  PROVE  ClientInv'
<1> DEFINE r == [run[i] EXCEPT !.pc = IF paused THEN "parked" ELSE "init"]
<1>1. /\ run[i].pc = "chained" /\ \A j \in Client!Gated : i <= j
      /\ run' = [run EXCEPT ![i] = r]
      /\ UNCHANGED <<queue, seen, processing, paused, refused, bypassed>>
  BY DEF Client!Enter
<1>2. SentFits(i, r) /\ r.pc = (IF paused THEN "parked" ELSE "init")
  BY <1>1 DEF ClientInv, ClientTyped, RunsFit, SentFits, RunFields, RunPcs, GatePcs
<1> HIDE DEF r
<1>3. DOMAIN run' = Item /\ run'[i] = r /\ \A j \in Item : j # i => run'[j] = run[j]
  BY <1>1 DEF ClientInv, ClientTyped, RunsFit
<1>4. \A j \in Item : run[j].pc \in GatePcs <=> j \in Client!Gated
  BY DEF Client!Gated, GatePcs
<1>5. ClientTyped'
  <2>1. \A j \in Item : SentFits(j, run'[j])
    BY <1>2, <1>3 DEF ClientInv, ClientTyped, RunsFit
  <2>2. \A j \in Item : SentFits(j, run[j])'
    BY <2>1 DEF SentFits, Client!Count
  <2> QED
    BY <1>1, <1>3, <2>2 DEF ClientInv, ClientTyped, Rowed, RunsFit
<1>6. GateFits'
  <2>1. ~processing' => \A j \in Item : run'[j].pc = "none"
    BY <1>1, <1>3 DEF ClientInv, GateFits
  <2>2. \A j \in Item : run'[j].pc = "parked" => paused'
    BY <1>1, <1>2, <1>3 DEF ClientInv, GateFits
  <2>3. ASSUME NEW k \in Item, NEW j \in Item, run'[k].pc \in {"parked", "init"}, run'[j].pc \in GatePcs
        PROVE  k <= j
    <3>1. run[j].pc \in GatePcs
      BY <1>1, <1>3, <2>3 DEF GatePcs
    <3>2. CASE k = i
      BY <1>1, <1>4, <3>1, <3>2
    <3>3. CASE k # i
      BY <1>3, <2>3, <3>1, <3>3 DEF ClientInv, GateFits
    <3> QED
      BY <3>2, <3>3
  <2> QED
    BY <2>1, <2>2, <2>3 DEF GateFits
<1>7. RunsShown'
  BY <1>1, <1>3 DEF ClientInv, RunsShown, Present
<1>8. \A j \in Item : run[j].pc \in GatePcs => run'[j].pc \in GatePcs
  BY <1>2, <1>3 DEF GatePcs
<1>9. RefusedFits'
  <2> SUFFICES ASSUME refused' # 0
               PROVE  /\ refused' = 1 /\ paused'
                      /\ \A j \in Item : run'[j].pc # "init"
                      /\ \E j \in Item : Conflict(queue', j) \/ run'[j].pc \in GatePcs
    BY DEF RefusedFits, Conflict
  <2>1. /\ refused = 1 /\ paused
        /\ \A j \in Item : run[j].pc # "init"
        /\ \E j \in Item : Conflict(queue, j) \/ run[j].pc \in GatePcs
    BY <1>1 DEF ClientInv, RefusedFits
  <2> QED
    BY <1>1, <1>2, <1>3, <1>8, <2>1
<1>10. PauseFits'
  <2> SUFFICES ASSUME paused', ~bypassed'
               PROVE  \E j \in Item : Conflict(queue', j) \/ Restarted(queue', run', j)
    BY DEF PauseFits, Asked, Conflict, Restarted
  <2>1. PICK j \in Item : Conflict(queue, j) \/ Restarted(queue, run, j)
    BY <1>1 DEF ClientInv, PauseFits, Asked
  <2>2. run[j].pc \in {"chained", "parked"} => run'[j].pc \in {"chained", "parked"}
    BY <1>1, <1>2, <1>3
  <2> QED
    BY <1>1, <2>1, <2>2 DEF Conflict, Restarted
<1> QED
  BY <1>5, <1>6, <1>7, <1>9, <1>10 DEF ClientInv

LEMMA InitRefusedFits ==
  ASSUME Client!ClientFits, ClientInv, UNCHANGED small, NEW i \in Item, Client!InitRefused(i)
  PROVE  ClientInv'
<1>1. /\ run[i].pc = "init" /\ paused' = TRUE
      /\ refused' = IF i \in Client!InQueue(queue) THEN refused + 1 ELSE refused
      /\ bypassed' = (bypassed \/ i \notin Client!InQueue(queue))
      /\ queue' = Client!Updated(queue, {i}, [status |-> "error", error |-> "conflict"])
      /\ run' = [run EXCEPT ![i] = Client!NoRun]
      /\ seen' = seen /\ processing' = processing
  BY DEF Client!InitRefused, Client!Ends, Client!PausesAt
<1>2. Rowed(queue)
  BY DEF ClientInv, ClientTyped
<1>3. ASSUME NEW j \in Item
      PROVE  /\ DOMAIN queue'[j] = Fields
             /\ j \notin {i} \cap Client!InQueue(queue) => queue'[j] = queue[j]
             /\ j \in {i} \cap Client!InQueue(queue) =>
                  queue'[j].status = "error" /\ queue'[j].error = "conflict"
  BY <1>1, <1>2, SettledAt
<1>4. DOMAIN run' = Item /\ run'[i] = Client!NoRun /\ \A j \in Item : j # i => run'[j] = run[j]
  BY <1>1 DEF ClientInv, ClientTyped, RunsFit
<1>5. SentFits(i, Client!NoRun) /\ Client!NoRun.pc = "none"
  BY NoRunNone
<1>6. ClientTyped'
  <2>1. \A j \in Item : SentFits(j, run'[j])
    BY <1>4, <1>5 DEF ClientInv, ClientTyped, RunsFit
  <2>2. \A j \in Item : SentFits(j, run[j])'
    BY <2>1 DEF SentFits, Client!Count
  <2> QED
    BY <1>1, <1>3, <1>4, <2>2 DEF ClientInv, ClientTyped, Rowed, RunsFit
<1>7. GateFits'
  BY <1>1, <1>4, <1>5 DEF ClientInv, GateFits, GatePcs
<1>8. RunsShown'
  <2>1. \A j \in Item : run'[j].pc # "none" => queue'[j].status \notin {"absent", "adding", "error"}
    BY <1>3, <1>4, <1>5 DEF ClientInv, RunsShown
  <2>2. \A j \in Item : Present(queue, j) => Present(queue', j)
    BY <1>3 DEF Present
  <2>3. \A j \in Item : Present(seen', j) => Present(queue', j)
    BY <1>1, <2>2 DEF ClientInv, RunsShown
  <2> QED
    BY <2>1, <2>3 DEF RunsShown, Present
<1>9. refused = 0
  BY <1>1 DEF ClientInv, RefusedFits
<1>10. i \in Client!InQueue(queue) => Conflict(queue', i)
  BY <1>3 DEF Conflict
<1>11. RefusedFits'
  <2> SUFFICES ASSUME refused' # 0
               PROVE  /\ refused' = 1 /\ paused'
                      /\ \A j \in Item : run'[j].pc # "init"
                      /\ \E j \in Item : Conflict(queue', j) \/ run'[j].pc \in GatePcs
    BY DEF RefusedFits, Conflict
  <2>1. ASSUME NEW j \in Item, run[j].pc = "init"
        PROVE  j = i
    <3>1. i <= j /\ j <= i
      BY <1>1, <2>1 DEF ClientInv, GateFits, GatePcs
    <3> QED
      BY <3>1 DEF Client!ClientFits
  <2> QED
    BY <1>1, <1>4, <1>5, <1>9, <1>10, <2>1
<1>12. PauseFits'
  BY <1>1, <1>10 DEF PauseFits, Asked, Conflict, Restarted
<1> QED
  BY <1>6, <1>7, <1>8, <1>11, <1>12 DEF ClientInv

LEMMA RunFitsAt == ClientInv => \A i \in Item : SentFits(i, run[i])
BY DEF ClientInv, ClientTyped, RunsFit

LEMMA InitOkFits ==
  ASSUME Client!ClientFits, ClientInv, UNCHANGED small, seen = queue, NEW i \in Item, Client!InitOk(i)
  PROVE  ClientInv'
<1> DEFINE r == [run[i] EXCEPT !.pc = "chunks"]
           t == Client!Taking(i, r, Concurrency)
<1>1. /\ run[i].pc = "init" /\ Client!GoOn(i, t)
      /\ UNCHANGED <<seen, processing, paused, refused, bypassed>>
  BY DEF Client!InitOk
<1>2. /\ DOMAIN r = RunFields /\ r.pc = "chunks" /\ r.next = 1 /\ DOMAIN r.sending = {}
      /\ r.done = {} /\ r.failed = "no"
  BY <1>1, RunFitsAt DEF SentFits, RunFields, GatePcs
<1> HIDE DEF r
<1>3. Client!Count(i) \in Nat
  BY CountNat
<1>4. SentFits(i, r)
  BY <1>2, <1>3 DEF SentFits, GatePcs, RunPcs
<1>5. /\ SentFits(i, t) /\ t.pc = "chunks"
      /\ (t.sending = <<>> /\ t.failed = "no" /\ ~Client!Cancelled(i)) => t.done = 1 .. Client!Count(i)
  BY <1>1, <1>2, <1>4, TakingFits DEF Client!ClientFits
<1> HIDE DEF t
<1> QED
  BY <1>1, <1>5, GoOnFits

LEMMA ChunkOkFits ==
  ASSUME Client!ClientFits, ClientInv, UNCHANGED small, seen = queue, NEW i \in Item, NEW c, Client!ChunkOk(i, c)
  PROVE  ClientInv'
<1> DEFINE rest == [x \in DOMAIN run[i].sending \ {c} |-> run[i].sending[x]]
           r == [run[i] EXCEPT !.sending = rest, !.done = @ \cup {c}]
           t == Client!Taking(i, r, 1)
<1>1. /\ run[i].pc = "chunks" /\ c \in DOMAIN run[i].sending /\ Client!GoOn(i, t)
      /\ UNCHANGED <<seen, processing, paused, refused, bypassed>>
  BY DEF Client!ChunkOk
<1>2. DOMAIN rest = DOMAIN run[i].sending \ {c}
  OBVIOUS
<1> HIDE DEF rest
<1>3. SentFits(i, run[i])
  BY RunFitsAt
<1>4. /\ DOMAIN r = RunFields /\ r.pc = "chunks" /\ r.next = run[i].next /\ r.sending = rest
      /\ r.done = run[i].done \cup {c} /\ r.failed = run[i].failed
  BY <1>1, <1>3 DEF SentFits, RunFields
<1> HIDE DEF r
<1>5. SentFits(i, r)
  BY <1>1, <1>2, <1>3, <1>4 DEF SentFits, GatePcs, RunPcs
<1>6. /\ SentFits(i, t) /\ t.pc = "chunks"
      /\ (t.sending = <<>> /\ t.failed = "no" /\ ~Client!Cancelled(i)) => t.done = 1 .. Client!Count(i)
  BY <1>1, <1>4, <1>5, TakingFits
<1> HIDE DEF t
<1> QED
  BY <1>1, <1>6, GoOnFits

LEMMA ChunkThrowsFits ==
  ASSUME Client!ClientFits, ClientInv, UNCHANGED small, NEW i \in Item, NEW c, Client!ChunkThrows(i, c)
  PROVE  ClientInv'
<1> DEFINE rest == [x \in DOMAIN run[i].sending \ {c} |-> run[i].sending[x]]
           why == IF run[i].aborted THEN "cancel" ELSE "error"
           r == [run[i] EXCEPT !.sending = rest, !.aborted = TRUE,
                               !.failed = IF @ = "no" THEN why ELSE @]
<1>1. /\ run[i].pc = "chunks" /\ Client!GoOn(i, r)
      /\ UNCHANGED <<seen, processing, paused, refused, bypassed>>
  BY DEF Client!ChunkThrows
<1>2. why \in {"cancel", "error"}
  OBVIOUS
<1> HIDE DEF rest, why
<1>3. SentFits(i, run[i])
  BY RunFitsAt
<1>4. /\ DOMAIN r = RunFields /\ r.pc = "chunks" /\ r.next = run[i].next /\ r.failed \in {"cancel", "error"}
  BY <1>1, <1>2, <1>3 DEF SentFits, RunFields
<1> HIDE DEF r
<1>5. SentFits(i, r)
  BY <1>3, <1>4 DEF SentFits, GatePcs, RunPcs
<1> QED
  BY <1>1, <1>4, <1>5, GoOnFits

LEMMA ChunkBusyFits ==
  ASSUME Client!ClientFits, ClientInv, UNCHANGED small, NEW i \in Item, NEW c, Client!ChunkBusy(i, c)
  PROVE  ClientInv'
<1> DEFINE r == [run[i] EXCEPT !.sending[c] = @ + 1]
<1>1. /\ run[i].pc = "chunks" /\ run' = [run EXCEPT ![i] = r] /\ queue' = queue
      /\ UNCHANGED <<seen, processing, paused, refused, bypassed>>
  BY DEF Client!ChunkBusy
<1>2. SentFits(i, run[i])
  BY RunFitsAt
<1>3. /\ DOMAIN r = RunFields /\ r.pc = "chunks" /\ r.next = run[i].next
      /\ DOMAIN r.sending = DOMAIN run[i].sending
      /\ r.done = run[i].done /\ r.failed = run[i].failed
  BY <1>1, <1>2 DEF SentFits, RunFields
<1> HIDE DEF r
<1>4. SentFits(i, r) /\ r.pc \notin GatePcs
  BY <1>1, <1>2, <1>3 DEF SentFits, GatePcs, RunPcs
<1> QED
  BY <1>1, <1>4, PassedFits

LEMMA InitFailsFits ==
  ASSUME ClientInv, UNCHANGED small, NEW i \in Item,
         Client!InitFails(i) \/ Client!CompleteFails(i) \/ Client!CompleteOk(i)
  PROVE  ClientInv'
<1> DEFINE failed == [status |-> "error", error |-> "other"]
           done == IF Client!Cancelled(i) THEN <<>> ELSE [status |-> "complete"]
<1>1. UNCHANGED <<seen, processing, paused, refused, bypassed>> /\ run[i].pc \in {"init", "complete"}
  BY DEF Client!InitFails, Client!CompleteFails, Client!CompleteOk
<1>2. Client!Ends(i, failed) \/ Client!Ends(i, done)
  BY DEF Client!InitFails, Client!CompleteFails, Client!CompleteOk
<1>3. failed["status"] = "error"
  OBVIOUS
<1>4. "status" \in DOMAIN done => done["status"] = "complete"
  <2>1. DOMAIN <<>> = {}
    OBVIOUS
  <2>2. [status |-> "complete"]["status"] = "complete"
    OBVIOUS
  <2> QED
    BY <2>1, <2>2
<1> HIDE DEF failed, done
<1> QED
  BY <1>1, <1>2, <1>3, <1>4, EndsFits

LEMMA AddFilesFits ==
  ASSUME Client!ClientFits, ClientInv, UNCHANGED small, NEW S, Client!AddFiles(S)
  PROVE  ClientInv'
<1> DEFINE added == [i \in Item |-> IF i \in S THEN [Client!NoEntry EXCEPT !.status = "pending"] ELSE queue[i]]
<1>1. PICK q : q = added
  OBVIOUS
<1>2. Client!Rendered(q, page, run, FALSE, FALSE) /\ bypassed' = bypassed
  BY <1>1 DEF Client!AddFiles
<1>3. \A i \in S : queue[i].status = "absent"
  BY DEF Client!AddFiles, Client!Fits, Client!With
<1>4. \A i \in Item : /\ i \in S => DOMAIN q[i] = Fields /\ q[i].status = "pending"
                      /\ i \notin S => q[i] = queue[i]
  BY <1>1 DEF Client!NoEntry, Fields
<1>5. \A i \in Item : Conflict(queue, i) => Conflict(q, i)
  BY <1>3, <1>4 DEF Conflict
<1>6. Renders(q, run, FALSE, FALSE)
  BY <1>3, <1>4, <1>5 DEF ClientInv, ClientTyped, RunsShown, Rowed, Renders
<1>7. \A i \in Item : Restarted(queue, run, i) => Restarted(q, run, i)
  BY <1>3, <1>4 DEF Restarted
<1>8. paused => FALSE \/ bypassed' \/ Asked(q, run)
  BY <1>2, <1>5, <1>7, PauseAsked DEF Asked
<1>9. bypassed' \in BOOLEAN
  BY <1>2 DEF ClientInv, ClientTyped
<1> HIDE DEF added
<1> QED
  BY <1>2, <1>6, <1>8, <1>9, RenderFits

LEMMA AddFolderFits ==
  ASSUME Client!ClientFits, ClientInv, UNCHANGED small, NEW S, Client!AddFolder(S)
  PROVE  ClientInv'
<1>1. /\ \A i \in S : queue[i].status = "absent"
      /\ UNCHANGED <<processing, run, paused, refused, bypassed>>
  BY DEF Client!AddFolder, Client!Fits, Client!With
<1>2. \A i \in Item : /\ i \in S => DOMAIN queue'[i] = Fields /\ queue'[i].status = "adding"
                      /\ i \notin S => queue'[i] = queue[i]
                      /\ seen'[i] = IF i \in S THEN queue'[i] ELSE seen[i]
  BY DEF Client!AddFolder, Client!NoEntry, Fields
<1>3. ClientTyped'
  <2>1. \A i \in Item : SentFits(i, run[i])'
    BY <1>1, RunFitsAt DEF SentFits, Client!Count
  <2>2. RunsFit(run)'
    BY <1>1, <2>1 DEF ClientInv, ClientTyped, RunsFit
  <2>3. Rowed(queue') /\ Rowed(seen')
    BY <1>2 DEF ClientInv, ClientTyped, Rowed
  <2> QED
    BY <1>1, <2>2, <2>3 DEF ClientInv, ClientTyped, Rowed
<1>4. GateFits'
  BY <1>1 DEF ClientInv, GateFits
<1>5. RunsShown'
  <2>1. \A i \in Item : run'[i].pc # "none" => queue'[i].status \notin {"absent", "adding", "error"}
    BY <1>1, <1>2 DEF ClientInv, RunsShown
  <2>2. \A i \in Item : Present(seen', i) => Present(queue', i)
    BY <1>2 DEF ClientInv, RunsShown, Present
  <2> QED
    BY <2>1, <2>2 DEF RunsShown, Present
<1>6. \A i \in Item : /\ Conflict(queue, i) => Conflict(queue', i)
                      /\ Restarted(queue, run, i) => Restarted(queue', run', i)
  BY <1>1, <1>2 DEF Conflict, Restarted
<1>7. RefusedFits'
  BY <1>1, <1>6 DEF ClientInv, RefusedFits, Conflict
<1>8. PauseFits'
  BY <1>1, <1>6 DEF ClientInv, PauseFits, Asked, Conflict, Restarted
<1> QED
  BY <1>3, <1>4, <1>5, <1>7, <1>8 DEF ClientInv

LEMMA FoldersMadeFits ==
  ASSUME Client!ClientFits, ClientInv, UNCHANGED small, NEW failed, Client!FoldersMade(failed)
  PROVE  ClientInv'
<1>1. UNCHANGED <<seen, processing, run, paused, refused, bypassed>>
  BY DEF Client!FoldersMade
<1>2. ASSUME NEW i \in Item
      PROVE  /\ queue[i].status = "adding" =>
                  DOMAIN queue'[i] = Fields /\ queue'[i].status \in {"pending", "error"}
             /\ queue[i].status # "adding" => queue'[i] = queue[i]
  BY DEF Client!FoldersMade, Client!With, Client!NoEntry, Fields
<1>3. ClientTyped'
  <2>1. \A i \in Item : SentFits(i, run[i])'
    BY <1>1, RunFitsAt DEF SentFits, Client!Count
  <2>2. RunsFit(run)'
    BY <1>1, <2>1 DEF ClientInv, ClientTyped, RunsFit
  <2>3. Rowed(queue') /\ Rowed(seen')
    BY <1>1, <1>2 DEF ClientInv, ClientTyped, Rowed
  <2> QED
    BY <1>1, <2>2, <2>3 DEF ClientInv, ClientTyped, Rowed
<1>4. GateFits'
  BY <1>1 DEF ClientInv, GateFits
<1>5. RunsShown'
  <2>1. \A i \in Item : run'[i].pc # "none" => queue'[i].status \notin {"absent", "adding", "error"}
    BY <1>1, <1>2 DEF ClientInv, RunsShown
  <2>2. \A i \in Item : Present(seen', i) => Present(queue', i)
    BY <1>1, <1>2 DEF ClientInv, RunsShown, Present
  <2> QED
    BY <2>1, <2>2 DEF RunsShown, Present
<1>6. \A i \in Item : /\ Conflict(queue, i) => Conflict(queue', i)
                      /\ Restarted(queue, run, i) => Restarted(queue', run', i)
  BY <1>1, <1>2 DEF Conflict, Restarted
<1>7. RefusedFits'
  BY <1>1, <1>6 DEF ClientInv, RefusedFits, Conflict
<1>8. PauseFits'
  BY <1>1, <1>6 DEF ClientInv, PauseFits, Asked, Conflict, Restarted
<1> QED
  BY <1>3, <1>4, <1>5, <1>7, <1>8 DEF ClientInv

LEMMA CancelFits ==
  ASSUME Client!ClientFits, ClientInv, UNCHANGED small, NEW S, Client!Cancel(S)
  PROVE  ClientInv'
<1> DEFINE aborted == {i \in S : seen[i].status = "uploading" /\ run[i].pc = "chunks"}
           cancelled == Client!Updated(queue, S, [status |-> "cancelled"])
           stopped == [i \in Item |-> IF i \in aborted THEN [run[i] EXCEPT !.aborted = TRUE] ELSE run[i]]
<1>1. PICK q, r : q = cancelled /\ r = stopped
  OBVIOUS
<1>2. Client!Rendered(q, page, r, TRUE, TRUE) /\ bypassed' = FALSE
  BY <1>1 DEF Client!Cancel
<1>3. Rowed(queue) /\ \A i \in Item : SentFits(i, run[i])
  BY RunFitsAt DEF ClientInv, ClientTyped
<1>4. \A i \in Item : /\ DOMAIN q[i] = Fields
                      /\ q[i] = queue[i] \/ q[i].status = "cancelled"
  BY <1>1, <1>3, MarkedAt
<1> HIDE DEF aborted
<1>5. ASSUME NEW i \in Item
      PROVE  SentFits(i, r[i]) /\ r[i].pc = run[i].pc
  BY <1>1, <1>3 DEF SentFits, RunFields, RunPcs, GatePcs
<1>6. RunsFit(r)
  BY <1>1, <1>5 DEF RunsFit
<1>7. Renders(q, r, TRUE, TRUE)
  BY <1>4, <1>5, <1>6 DEF ClientInv, RunsShown, Rowed, Renders
<1> HIDE DEF cancelled, stopped
<1> QED
  BY <1>2, <1>7, RenderFits

LEMMA RetryFits ==
  ASSUME Client!ClientFits, ClientInv, UNCHANGED small, seen = queue, NEW i \in Item, Client!Retry(i)
  PROVE  ClientInv'
<1> DEFINE again == Client!Updated(queue, {i}, Client!Again)
<1>1. PICK q : q = again
  OBVIOUS
<1>2. /\ Client!Rendered(q, page, run, FALSE, TRUE)
      /\ bypassed' = (bypassed \/ i \in Client!Unresolved(queue))
      /\ queue[i].status = "error"
  BY <1>1 DEF Client!Retry
<1>3. Rowed(queue)
  BY DEF ClientInv, ClientTyped
<1>4. \A j \in Item : /\ DOMAIN q[j] = Fields
                      /\ j # i => q[j] = queue[j]
                      /\ q[j] = queue[j] \/ q[j].status = "pending"
  BY <1>1, <1>3, SettledAt DEF Client!Again
<1>5. Renders(q, run, FALSE, TRUE)
  BY <1>4 DEF ClientInv, ClientTyped, RunsShown, Rowed, Renders
<1>6. paused => FALSE \/ bypassed' \/ Asked(q, run)
  <2> SUFFICES ASSUME paused, ~bypassed'
               PROVE  Asked(q, run)
    OBVIOUS
  <2>1. ~Conflict(queue, i) /\ ~bypassed
    BY <1>2 DEF Client!Unresolved, Client!With, Conflict
  <2>2. PICK j \in Item : Conflict(queue, j) \/ Restarted(queue, run, j)
    BY <2>1, PauseAsked DEF Asked
  <2>3. j # i
    BY <1>2, <2>1, <2>2 DEF Restarted
  <2> QED
    BY <1>4, <2>2, <2>3 DEF Asked, Conflict, Restarted
<1>7. bypassed' \in BOOLEAN
  BY <1>2 DEF ClientInv, ClientTyped
<1> HIDE DEF again
<1> QED
  BY <1>2, <1>5, <1>6, <1>7, RenderFits

LEMMA ClearFits ==
  ASSUME Client!ClientFits, ClientInv, UNCHANGED small, Client!ClearCompleted
  PROVE  ClientInv'
<1> DEFINE gone == Client!InQueue(queue) \ Client!Active(queue)
           cleared == [i \in Item |-> IF i \in gone THEN [Client!NoEntry EXCEPT !.status = "cleared"]
                                      ELSE queue[i]]
<1>1. PICK q : q = cleared
  OBVIOUS
<1>2. /\ Client!Rendered(q, page, run, FALSE, TRUE)
      /\ bypassed' = (bypassed \/ Client!Unresolved(queue) # {})
  BY <1>1 DEF Client!ClearCompleted
<1>3. \A i \in Item : queue[i].status \in {"pending", "uploading"} => i \notin gone
  BY DEF Client!Active, Client!With
<1> HIDE DEF gone
<1>4. \A i \in Item : /\ i \in gone => DOMAIN q[i] = Fields /\ q[i].status = "cleared"
                      /\ i \notin gone => q[i] = queue[i]
  BY <1>1 DEF Client!NoEntry, Fields
<1>5. Renders(q, run, FALSE, TRUE)
  BY <1>4 DEF ClientInv, ClientTyped, RunsShown, Rowed, Renders
<1>6. paused => FALSE \/ bypassed' \/ Asked(q, run)
  <2> SUFFICES ASSUME paused, ~bypassed'
               PROVE  Asked(q, run)
    OBVIOUS
  <2>1. ~bypassed /\ \A j \in Item : ~Conflict(queue, j)
    BY <1>2 DEF Client!Unresolved, Client!With, Conflict
  <2>2. PICK j \in Item : Restarted(queue, run, j)
    BY <2>1, PauseAsked DEF Asked
  <2> QED
    BY <1>3, <1>4, <2>2 DEF Asked, Restarted
<1>7. bypassed' \in BOOLEAN
  BY <1>2 DEF ClientInv, ClientTyped
<1> HIDE DEF cleared
<1> QED
  BY <1>2, <1>5, <1>6, <1>7, RenderFits

LEMMA ResolveFits ==
  ASSUME Client!ClientFits, ClientInv, UNCHANGED small, NEW resolution, NEW all, Client!ResolveUpload(resolution, all)
  PROVE  ClientInv'
<1> DEFINE resolved == Client!Resolved(queue, page.dialog, resolution)
           chosen == [Client!Choice(resolution, all) EXCEPT !.dialog = 0]
<1>1. PICK q, p : q = resolved /\ p = chosen
  OBVIOUS
<1>2. Client!Rendered(q, p, run, TRUE, TRUE) /\ bypassed' = bypassed
  BY <1>1 DEF Client!ResolveUpload
<1>3. Rowed(queue)
  BY DEF ClientInv, ClientTyped
<1>4. \A i \in Item : /\ DOMAIN q[i] = Fields
                      /\ q[i] = queue[i] \/ q[i].status \in {"cancelled", "pending"}
  BY <1>1, <1>3, ResolvedAt
<1>5. Renders(q, run, TRUE, TRUE)
  BY <1>4 DEF ClientInv, ClientTyped, RunsShown, Rowed, Renders
<1>6. bypassed' \in BOOLEAN
  BY <1>2 DEF ClientInv, ClientTyped
<1> HIDE DEF resolved, chosen
<1> QED
  BY <1>2, <1>5, <1>6, RenderFits

LEMMA DialogFits ==
  ASSUME Client!ClientFits, ClientInv, UNCHANGED small,
         Client!Render \/ Client!MoveResolved \/ Client!CloseDialog \/ Client!Return
  PROVE  ClientInv'
<1> DEFINE closed == [page EXCEPT !.dialog = 0]
           back == [page EXCEPT !.on = TRUE]
<1>1. PICK p, b, o : p = page /\ b = back /\ o = closed
  OBVIOUS
<1>2. /\ bypassed' = bypassed
      /\ \/ Client!Rendered(queue, p, run, FALSE, FALSE)
         \/ Client!Rendered(queue, b, run, FALSE, FALSE)
         \/ Client!Rendered(queue, o, run, FALSE, FALSE)
  BY <1>1 DEF Client!Render, Client!MoveResolved, Client!CloseDialog, Client!Return
<1> HIDE DEF closed, back
<1> QED
  BY <1>2, AsItIs

LEMMA ClientStarts == ASSUME Client!ClientFits, Client!Init PROVE ClientInv
<1>1. /\ queue = [i \in Item |-> Client!NoEntry] /\ seen = queue
      /\ run = [i \in Item |-> Client!NoRun]
      /\ processing = FALSE /\ paused = FALSE /\ refused = 0 /\ bypassed = FALSE
  BY DEF Client!Init
<1>2. \A i \in Item : SentFits(i, run[i]) /\ run[i].pc = "none"
  BY <1>1, NoRunNone
<1>3. \A i \in Item : DOMAIN queue[i] = Fields /\ queue[i].status = "absent"
  BY <1>1 DEF Client!NoEntry, Fields
<1> QED
  BY <1>1, <1>2, <1>3 DEF ClientInv, ClientTyped, GateFits, RunsShown, RefusedFits, PauseFits,
     Rowed, RunsFit, Present

LEMMA AnsweredFits ==
  ASSUME Client!ClientFits, ClientInv, UNCHANGED small, seen = queue, Client!Answered
  PROVE  ClientInv'
<1>1. CASE \E failed \in SUBSET UNION {Folders[i] : i \in Item} : Client!FoldersMade(failed)
  BY <1>1, FoldersMadeFits
<1>2. CASE Client!MoveNext \/ Client!MoveRefused
  BY <1>2, Unmoved DEF Client!MoveNext, Client!MoveRefused
<1>3. CASE Client!MoveResolved
  BY <1>3, DialogFits
<1>4. ASSUME NEW i \in Item, Client!UploadAnswer(i)
      PROVE  ClientInv'
  <2>1. CASE Client!InitOk(i)
    BY <2>1, InitOkFits
  <2>2. CASE Client!InitRefused(i)
    BY <2>2, InitRefusedFits
  <2>3. CASE Client!InitFails(i) \/ Client!CompleteOk(i) \/ Client!CompleteFails(i)
    BY <2>3, InitFailsFits
  <2>4. CASE \E c \in 1 .. Chunks : Client!ChunkOk(i, c)
    BY <2>4, ChunkOkFits
  <2>5. CASE \E c \in 1 .. Chunks : Client!ChunkBusy(i, c)
    BY <2>5, ChunkBusyFits
  <2>6. CASE \E c \in 1 .. Chunks : Client!ChunkThrows(i, c)
    BY <2>6, ChunkThrowsFits
  <2> QED
    BY <1>4, <2>1, <2>2, <2>3, <2>4, <2>5, <2>6 DEF Client!UploadAnswer
<1> QED
  BY <1>1, <1>2, <1>3, <1>4 DEF Client!Answered

LEMMA UserFits ==
  ASSUME Client!ClientFits, ClientInv, UNCHANGED small, seen = queue, Client!User
  PROVE  ClientInv'
<1>1. CASE Client!Decide
  <2>1. PICK resolution \in Client!Resolutions, all \in BOOLEAN :
          Client!ResolveUpload(resolution, all) \/ Client!ResolveMove(resolution, all)
    BY <1>1 DEF Client!Decide
  <2>2. CASE Client!ResolveUpload(resolution, all)
    BY <2>2, ResolveFits
  <2>3. CASE Client!ResolveMove(resolution, all)
    BY <2>3, Unmoved DEF Client!ResolveMove
  <2> QED
    BY <2>1, <2>2, <2>3
<1>2. CASE Client!Return \/ Client!CloseDialog
  BY <1>2, DialogFits
<1>3. CASE Client!Navigate
  BY <1>3, Unmoved DEF Client!Navigate
<1>4. CASE Client!ClearCompleted
  BY <1>4, ClearFits
<1>5. CASE \E S \in Dropped : Client!AddFiles(S)
  BY <1>5, AddFilesFits
<1>6. CASE \E S \in Dropped : Client!AddFolder(S)
  BY <1>6, AddFolderFits
<1>7. CASE \E i \in Item : Client!Retry(i)
  BY <1>7, RetryFits
<1>8. CASE \E i \in Item : Client!Cancel({i})
  BY <1>8, CancelFits
<1>9. CASE Client!Cancel(Client!Active(seen))
  BY <1>9, CancelFits
<1>10. CASE \E n \in {1, 2} : Client!MoveItems(n)
  BY <1>10, Unmoved DEF Client!MoveItems
<1> QED
  BY <1>1, <1>2, <1>3, <1>4, <1>5, <1>6, <1>7, <1>8, <1>9, <1>10 DEF Client!User

LEMMA ClientInductive ==
  ASSUME Client!ClientFits, ClientInv, [Client!Next]_(Client!vars)
  PROVE  ClientInv'
<1>1. CASE Client!Step(Client!Render)
  BY <1>1, DialogFits DEF Client!Step
<1>2. CASE Client!Step(Client!Promised)
  <2>1. CASE Client!LoopAgain
    BY <1>2, <2>1, LoopAgainFits DEF Client!Step
  <2>2. CASE \E i \in Item : Client!Enter(i)
    BY <1>2, <2>2, EnterFits DEF Client!Step
  <2> QED
    BY <1>2, <2>1, <2>2 DEF Client!Step, Client!Promised
<1>3. CASE Client!Event(Client!Answered)
  BY <1>3, AnsweredFits DEF Client!Event, Client!Step
<1>4. CASE Client!Event(Client!User)
  BY <1>4, UserFits DEF Client!Event, Client!Step
<1>5. CASE UNCHANGED Client!vars
  BY <1>5, Unmoved DEF Client!vars
<1> QED
  BY <1>1, <1>2, <1>3, <1>4, <1>5 DEF Client!Next

LEMMA ClientDecided == ClientInv => ConflictsAreDecided
<1> SUFFICES ASSUME ClientInv PROVE ConflictsAreDecided
  OBVIOUS
<1>1. Client!OneConflictAtATime
  BY DEF ClientInv, RefusedFits, Client!OneConflictAtATime
<1>2. Client!ParkedAwaitsDecision
  <2> SUFFICES ASSUME NEW i \in Item, run[i].pc = "parked", ~bypassed
               PROVE  Client!Flagged(queue) # {}
    BY DEF Client!ParkedAwaitsDecision
  <2>1. PICK j \in Item : Conflict(queue, j) \/ Restarted(queue, run, j)
    BY DEF ClientInv, GateFits, PauseFits, Asked
  <2> QED
    BY <2>1 DEF Conflict, Restarted, Client!Flagged, Client!InQueue
<1>3. \A i \in Item : run[i].pc = "complete" => run[i].done = 1 .. Client!Count(i)
  BY RunFitsAt DEF SentFits
<1> QED
  BY <1>1, <1>2, <1>3 DEF ConflictsAreDecided, Client!ConflictsAreDecided

\* After a 409 there is no other until the user has decided about it, an upload that waits
\* at the gate waits for a conflict that the user is asked about, and none is completed
\* before all its chunks were accepted, for any files, drops, chunks, workers, retries and
\* clicks (uploadItems, runGatedInit, pauseInitForConflict and uploadChunked of the frontend).
THEOREM DecidedFirst == ASSUME Client!ClientFits PROVE Client!Spec => []ConflictsAreDecided
<1>1. Client!Init => ClientInv
  BY ClientStarts
<1>2. ClientInv /\ [Client!Next]_(Client!vars) => ClientInv'
  BY ClientInductive
<1> QED
  BY <1>1, <1>2, ClientDecided, PTL DEF Client!Spec
=============================================================================
