---------------------------- MODULE TrashProofs ----------------------------
(***************************************************************************)
(* Proofs about TrashLifecycle, for any number of files, deletion tasks    *)
(* and event handlers.                                                     *)
(***************************************************************************)
EXTENDS TrashLifecycle, FiniteSetTheorems, TLAPS

LEMMA NoTaskTyped == NoTask \in TaskState
BY DEF NoTask, TaskState, TaskPcs

LEMMA GotoTyped ==
  ASSUME task \in [Task -> TaskState], NEW t \in Task,
         NEW s \in TaskState, NEW p \in TaskPcs, Goto(t, s, p)
  PROVE  task' \in [Task -> TaskState]
<1>1. [s EXCEPT !.pc = p] \in TaskState
  BY DEF TaskState
<1>. QED  BY <1>1, NoTaskTyped DEF Goto

LEMMA InitTyped == Init => TypeOK
<1>1. ASSUME Init  PROVE TypeOK
  <2>1. IsFiniteSet(Complete)
    BY SetsAssumption, FS_Subset
  <2>2. used \in Int
    BY <1>1, <2>1, FS_CardinalityType DEF Init
  <2>. QED  BY <1>1, <2>2, NoTaskTyped DEF Init, TypeOK, Ages, HandState, Free
<1>. QED  BY <1>1

LEMMA UserTyped == TypeOK /\ UserStep => TypeOK'
<1>. USE DEF TypeOK, Aged, Ages, db, go
<1>1. ASSUME TypeOK, NEW f \in File, SoftDelete(f)  PROVE TypeOK'
  BY <1>1 DEF SoftDelete
<1>2. ASSUME TypeOK, NEW f \in File, Restore(f)  PROVE TypeOK'
  BY <1>2 DEF Restore
<1>3. ASSUME TypeOK, NEW f \in File, Expire(f)  PROVE TypeOK'
  BY <1>3 DEF Expire
<1>4. ASSUME TypeOK, SoftDeleteFolder  PROVE TypeOK'
  BY <1>4 DEF SoftDeleteFolder, Together
<1>5. ASSUME TypeOK, RestoreFolder  PROVE TypeOK'
  BY <1>5 DEF RestoreFolder
<1>6. ASSUME TypeOK, ExpireFolder  PROVE TypeOK'
  BY <1>6 DEF ExpireFolder
<1>. QED  BY <1>1, <1>2, <1>3, <1>4, <1>5, <1>6 DEF UserStep

LEMMA BeginTyped ==
  ASSUME TypeOK, NEW t \in Task, NEW op \in PathKinds, Begin(t, op)
  PROVE  TypeOK'
<1>. DEFINE s == [NoTask EXCEPT !.op = op, !.left = Collected(op)]
<1>1. Collected(op) \in SUBSET File
  BY SetsAssumption DEF Collected, TypeOK, Swept, Expired
<1>2. s \in TaskState
  BY <1>1, NoTaskTyped DEF TaskState
<1>3. First(op) \in TaskPcs
  BY DEF First, TaskPcs
<1>4. task' \in [Task -> TaskState]
  BY <1>2, <1>3, GotoTyped DEF Begin, TypeOK
<1>. QED  BY <1>4 DEF Begin, TypeOK, db, go

LEMMA TaskTyped ==
  ASSUME TypeOK, NEW t \in Task, TaskStep(t)
  PROVE  TypeOK'
<1>. USE DEF db, go
<1>0. task[t] \in TaskState
  BY DEF TypeOK
<1>1. CASE SetFlag(t)
  <2>1. [task[t] EXCEPT !.clears = TRUE] \in TaskState /\ "read" \in TaskPcs
    BY <1>0 DEF TaskState, TaskPcs
  <2>2. task' \in [Task -> TaskState]
    BY <2>1, <1>1, GotoTyped DEF SetFlag, TypeOK
  <2>. QED  BY <2>2, <1>1 DEF SetFlag, TypeOK
<1>2. CASE Read(t)
  <2>1. PICK F \in Targets(t) :
          Goto(t, [task[t] EXCEPT !.left = F, !.dir = @ \/ (Op(t) = "empty" /\ FolderInTrash)],
               IF F = {} THEN NothingRead(t) ELSE "publish")
    BY <1>2 DEF Read
  <2>2. F \in SUBSET File
    BY <1>0 DEF Targets, InTrash, TypeOK, TaskState
  <2>3. [task[t] EXCEPT !.left = F, !.dir = @ \/ (Op(t) = "empty" /\ FolderInTrash)] \in TaskState
    BY <1>0, <2>2 DEF TaskState
  <2>4. (IF F = {} THEN NothingRead(t) ELSE "publish") \in TaskPcs
    BY DEF NothingRead, TaskPcs
  <2>5. task' \in [Task -> TaskState]
    BY <2>1, <2>3, <2>4, GotoTyped DEF TypeOK
  <2>. QED  BY <2>5, <1>2 DEF Read, TypeOK
<1>3. ASSUME NEW f \in File, Publish(t, f)  PROVE TypeOK'
  <2>. DEFINE c == CASE Op(t) = "background" -> {f}
                     [] Op(t) = "cron"       -> {}
                     [] OTHER                -> task[t].cur \cup {f}
              s == [task[t] EXCEPT !.left = @ \ {f}, !.clears = @ \/ Op(t) = "cron", !.cur = c]
  <2>1. c \in SUBSET File
    BY <1>0 DEF TaskState
  <2>2. s \in TaskState
    BY <1>0, <2>1 DEF TaskState
  <2>3. PublishNext(t, f) \in TaskPcs
    BY DEF PublishNext, TaskPcs
  <2>4. Goto(t, s, PublishNext(t, f))
    BY <1>3, <1>0 DEF Publish, TaskState
  <2>5. task' \in [Task -> TaskState]
    BY <2>2, <2>3, <2>4, GotoTyped DEF TypeOK
  <2>6. events' \in SUBSET File /\ lost' \in SUBSET File
    BY <1>3 DEF Publish, TypeOK
  <2>. QED  BY <2>5, <2>6, <1>3 DEF Publish, TypeOK
<1>4. CASE Confirm(t)
  <2>. DEFINE F == Expired \cap purged
  <2>1. [task[t] EXCEPT !.cur = F, !.clears = @ \/ F # {}] \in TaskState
    BY <1>0 DEF TaskState, TypeOK
  <2>2. (IF F = {} THEN "folders" ELSE "tx") \in TaskPcs
    BY DEF TaskPcs
  <2>3. task' \in [Task -> TaskState]
    BY <1>4, <2>1, <2>2, GotoTyped DEF Confirm, TypeOK
  <2>. QED  BY <2>3, <1>4 DEF Confirm, TypeOK
<1>5. CASE Tx(t)
  <2>. DEFINE p == CASE Op(t) \in {"single", "empty"} -> "end"
                     [] Op(t) = "background" /\ task[t].left # {} -> "publish"
                     [] OTHER -> "folders"
  <2>1. [task[t] EXCEPT !.cur = {}] \in TaskState
    BY <1>0 DEF TaskState
  <2>2. p \in TaskPcs
    BY DEF TaskPcs
  <2>3. task' \in [Task -> TaskState]
    BY <1>5, <2>1, <2>2, GotoTyped DEF Tx, TypeOK
  <2>4. Cardinality(Freed(t)) \in Nat
    BY SetsAssumption, FS_Subset, FS_CardinalityType DEF Freed
  <2>5. used' \in Int
    BY <2>4, <1>5 DEF Tx, TypeOK
  <2>6. rows' \in SUBSET File /\ folder' \in Ages \cup {"gone"}
    BY <1>5 DEF Tx, TypeOK
  <2>. QED  BY <2>3, <2>5, <2>6, <1>5 DEF Tx, TypeOK
<1>6. CASE DeleteFolder(t)
  <2>1. [task[t] EXCEPT !.clears = @ \/ (Op(t) = "cron" /\ Doomed(t))] \in TaskState
    BY <1>0 DEF TaskState
  <2>2. task' \in [Task -> TaskState]
    BY <2>1, <1>6, GotoTyped DEF DeleteFolder, TypeOK, TaskPcs
  <2>3. rows' \in SUBSET File /\ folder' \in Ages \cup {"gone"}
    BY <1>6 DEF DeleteFolder, TypeOK
  <2>. QED  BY <2>2, <2>3, <1>6 DEF DeleteFolder, TypeOK
<1>7. CASE End(t)
  BY <1>7, NoTaskTyped DEF End, TypeOK, FlagAfter
<1>. QED  BY <1>1, <1>2, <1>3, <1>4, <1>5, <1>6, <1>7 DEF TaskStep

LEMMA HandTyped ==
  ASSUME TypeOK, NEW w \in Worker,
         \/ HandStep(w) \/ DeleteFails(w) \/ Acknowledge(w) \/ GoCrash(w)
         \/ \E f \in File : Take(w, f) \/ TakeAgain(w, f)
  PROVE  TypeOK'
<1>. USE DEF TypeOK, HandState, db, go
<1>1. hand[w] \in HandState /\ Free \in HandState
  BY DEF Free
<1>2. CASE Deleted(w)
  BY <1>2 DEF Deleted
<1>3. CASE Report(w)
  BY <1>1, <1>3 DEF Report
<1>4. CASE DeleteFails(w)
  BY <1>4 DEF DeleteFails
<1>5. CASE Acknowledge(w)
  BY <1>1, <1>5 DEF Acknowledge
<1>6. CASE GoCrash(w)
  <2>1. events' \in SUBSET File /\ lost' \in SUBSET File
    BY <1>1, <1>6 DEF GoCrash, Reclaimed
  <2>. QED  BY <1>1, <1>6, <2>1 DEF GoCrash
<1>7. ASSUME NEW f \in File, Take(w, f) \/ TakeAgain(w, f)  PROVE TypeOK'
  BY <1>7 DEF Take, TakeAgain, TakeTo
<1>. QED  BY <1>2, <1>3, <1>4, <1>5, <1>6, <1>7 DEF HandStep

LEMMA NextTyped == TypeOK /\ [Next]_vars => TypeOK'
<1>. SUFFICES ASSUME TypeOK, [Next]_vars  PROVE TypeOK'
  OBVIOUS
<1>1. CASE UserStep
  BY <1>1, UserTyped
<1>2. ASSUME NEW t \in Task, TaskStep(t) \/ \E op \in PathKinds : Begin(t, op)  PROVE TypeOK'
  BY <1>2, TaskTyped, BeginTyped
<1>3. ASSUME NEW w \in Worker, HandStep(w) \/ \E f \in File : Take(w, f) \/ TakeAgain(w, f)
      PROVE  TypeOK'
  BY <1>3, HandTyped
<1>4. CASE Trouble
  <2>1. ASSUME NEW t \in Task, NEW f \in File, PublishFails(t, f)  PROVE TypeOK'
    <3>. DEFINE s == [task[t] EXCEPT !.left = @ \ {f}]
                p == CASE Op(t) \in {"single", "bulk", "empty"} -> "end"
                       [] Op(t) \in {"background", "cron"} /\ task[t].left # {f} -> "publish"
                       [] Op(t) = "background" /\ task[t].left = {f} -> "folders"
                       [] OTHER -> "confirm"
    <3>1. s \in TaskState
      BY DEF TypeOK, TaskState
    <3>2. p \in TaskPcs
      BY DEF TaskPcs
    <3>3. Goto(t, s, p)
      BY <2>1 DEF PublishFails
    <3>4. task' \in [Task -> TaskState]
      BY <3>1, <3>2, <3>3, GotoTyped DEF TypeOK
    <3>. QED  BY <3>4, <2>1 DEF PublishFails, TypeOK, db, go
  <2>2. ASSUME NEW w \in Worker, DeleteFails(w) \/ Acknowledge(w) \/ GoCrash(w)  PROVE TypeOK'
    BY <2>2, HandTyped
  <2>3. CASE CoreCrash
    BY <2>3, NoTaskTyped DEF CoreCrash, TypeOK, db, go
  <2>4. ASSUME NEW t \in Task, TxFails(t)  PROVE TypeOK'
    <3>. DEFINE s == [task[t] EXCEPT !.cur = {}]
                p == CASE Op(t) # "background"                    -> "end"
                       [] Op(t) = "background" /\ task[t].left # {} -> "publish"
                       [] OTHER                                  -> "folders"
    <3>1. s \in TaskState
      BY DEF TypeOK, TaskState
    <3>2. p \in TaskPcs
      BY DEF TaskPcs
    <3>3. Goto(t, s, p)
      BY <2>4 DEF TxFails
    <3>4. task' \in [Task -> TaskState]
      BY <3>1, <3>2, <3>3, GotoTyped DEF TypeOK
    <3>. QED  BY <3>4, <2>4 DEF TxFails, TypeOK, db, go
  <2>5. ASSUME NEW f \in File, Trim(f)  PROVE TypeOK'
    BY <2>5 DEF Trim, TypeOK, db
  <2>. QED  BY <1>4, <2>1, <2>2, <2>3, <2>4, <2>5 DEF Trouble
<1>5. CASE UNCHANGED vars
  BY <1>5 DEF vars, db, go, TypeOK
<1>. QED  BY <1>1, <1>2, <1>3, <1>4, <1>5 DEF Next

\* Every variable keeps its type: a deletion task never holds anything but
\* files of the user, and a handler always one of them or none.
THEOREM TypeCorrect == Spec => []TypeOK
<1>. QED  BY InitTyped, NextTyped, PTL DEF Spec

-----------------------------------------------------------------------------
(* No message is left without a record or an event.                        *)

\* The deletion of f is still to come, or was lost, refused or given up.
Covered(f) == \/ f \in events \/ \E w \in Worker : hand[w] = [file |-> f, pc |-> "delete"]
              \/ f \in lost

\* A handler that reports success, and a record marked purged, name no message
\* that exists, unless it was refused; what a task is about to delete is published
\* or gone.
DoneIsGone   == \A w \in Worker : hand[w].pc = "success" /\ hand[w].file \in content
                                    => Covered(hand[w].file)
PurgedIsGone == \A f \in purged \cap content : Covered(f)
CurCovered   == \A t \in Task : \A f \in task[t].cur \cap content : Covered(f)

OrphanInv == TypeOK /\ DoneIsGone /\ PurgedIsGone /\ CurCovered /\ NoOrphan

LEMMA NoneIsNoFile == \A f \in File : f # None
BY SetsAssumption

\* Messages do not come back, and a deletion stays to come until it is done or is
\* known to be lost: a handler that dies leaves its event to another one.
LEMMA CoverKept ==
  ASSUME TypeOK, [Next]_vars, NEW f \in content', f \in content, Covered(f)
  PROVE  Covered(f)'
<1>. USE DEF Covered
<1>. DEFINE Same == events \subseteq events' /\ hand' = hand /\ lost \subseteq lost' \cup events'
<1>0. Same => Covered(f)'
  OBVIOUS
<1>1. CASE UserStep
  <2>1. Same
    BY <1>1 DEF UserStep, SoftDelete, Restore, Expire, SoftDeleteFolder, RestoreFolder,
                ExpireFolder, go
  <2>. QED  BY <2>1, <1>0
<1>2. ASSUME NEW t \in Task, TaskStep(t)  PROVE Covered(f)'
  <2>1. Same
    BY <1>2 DEF TaskStep, SetFlag, Read, Publish, Confirm, Tx, DeleteFolder, End, db, go
  <2>. QED  BY <2>1, <1>0
<1>3. ASSUME NEW t \in Task, NEW op \in PathKinds, Begin(t, op)  PROVE Covered(f)'
  BY <1>3, <1>0 DEF Begin, go
<1>4. ASSUME NEW t \in Task, TxFails(t) \/ \E g \in File : PublishFails(t, g)  PROVE Covered(f)'
  BY <1>4, <1>0 DEF PublishFails, TxFails, go
<1>5. CASE CoreCrash
  BY <1>5, <1>0 DEF CoreCrash, go
<1>6. ASSUME NEW w \in Worker, NEW g \in File, Take(w, g) \/ TakeAgain(w, g)
      PROVE  Covered(f)'
  <2>1. hand[w].pc # "delete" /\ hand' = [hand EXCEPT ![w] = [file |-> g, pc |-> "delete"]]
    BY <1>6 DEF Take, TakeAgain, TakeTo, Free
  <2>2. events \ {g} \subseteq events' /\ lost' = lost
    BY <1>6 DEF Take, TakeAgain
  <2>3. CASE f = g
    BY <2>1, <2>3 DEF TypeOK
  <2>4. CASE f # g
    BY <2>1, <2>2, <2>4 DEF TypeOK
  <2>. QED  BY <2>3, <2>4
<1>7. ASSUME NEW w \in Worker, Deleted(w)  PROVE Covered(f)'
  <2>1. events' = events /\ \A v \in Worker : v # w => hand'[v] = hand[v]
    BY <1>7 DEF Deleted, TypeOK
  <2>2. CASE content' = content \ {hand[w].file} /\ lost' = lost \ {hand[w].file}
    <3>1. f # hand[w].file
      BY <2>2
    <3>. QED  BY <2>1, <2>2, <3>1
  <2>3. CASE lost' = lost \cup ({hand[w].file} \cap content)
    BY <2>1, <2>3
  <2>. QED  BY <1>7, <2>2, <2>3 DEF Deleted
<1>8. ASSUME NEW w \in Worker, Report(w) \/ Acknowledge(w)  PROVE Covered(f)'
  <2>1. hand[w].pc # "delete" /\ events' = events /\ lost' = lost
    BY <1>8 DEF Report, Acknowledge
  <2>2. \A v \in Worker : v # w => hand'[v] = hand[v]
    BY <1>8 DEF Report, Acknowledge, TypeOK
  <2>. QED  BY <2>1, <2>2
<1>9. ASSUME NEW w \in Worker, GoCrash(w)  PROVE Covered(f)'
  <2>1. /\ EventDriven => events' = events \cup ({hand[w].file} \ {None})
        /\ lost \subseteq lost'
        /\ ~EventDriven => lost' = lost \cup ((events \cup {hand[w].file}) \cap content)
    BY <1>9 DEF GoCrash, Reclaimed
  <2>2. \A v \in Worker : v # w => hand'[v] = hand[v]
    BY <1>9 DEF GoCrash, TypeOK
  <2>3. hand[w] = [file |-> f, pc |-> "delete"] => hand[w].file = f /\ f # None
    <3>1. content' \subseteq File
      BY <1>9 DEF GoCrash, TypeOK
    <3>. QED  BY <3>1, NoneIsNoFile
  <2>. QED  BY <2>1, <2>2, <2>3
<1>10. ASSUME NEW w \in Worker, DeleteFails(w)  PROVE Covered(f)'
  <2>1. events' = events /\ lost' = lost \cup ({hand[w].file} \cap content)
        /\ \A v \in Worker : v # w => hand'[v] = hand[v]
    BY <1>10 DEF DeleteFails, TypeOK
  <2>. QED  BY <2>1
<1>11. ASSUME NEW g \in File, Trim(g)  PROVE Covered(f)'
  BY <1>11 DEF Trim
<1>12. CASE UNCHANGED vars
  BY <1>12, <1>0 DEF vars, go
<1>. QED  BY <1>1, <1>2, <1>3, <1>4, <1>5, <1>6, <1>7, <1>8, <1>9, <1>10, <1>11, <1>12
          DEF Next, HandStep, Trouble

\* What says a step leaves it to: a handler comes to report success only for what
\* it deleted or Telegram refused, and a record is marked purged only then.
LEMMA DoneSteps ==
  ASSUME TypeOK, [Next]_vars
  PROVE  /\ content' \subseteq content
         /\ \A w \in Worker : hand'[w].pc = "success" =>
              \/ hand'[w] = hand[w]
              \/ hand'[w].file \notin content' \/ hand'[w].file \in lost'
         /\ \A f \in purged' \ purged : \E w \in Worker : hand[w].pc = "success" /\ hand[w].file = f
<1>. DEFINE Grown == \A f \in purged' \ purged :
                       \E w \in Worker : hand[w].pc = "success" /\ hand[w].file = f
            Kept(w) == /\ \A v \in Worker : v # w => hand'[v] = hand[v]
                       /\ hand'[w].pc = "success" => \/ hand'[w].file \notin content'
                                                     \/ hand'[w].file \in lost'
            Same == content' = content /\ hand' = hand /\ purged' = purged
<1>1. CASE UserStep
  BY <1>1 DEF UserStep, SoftDelete, Restore, Expire, SoftDeleteFolder, RestoreFolder,
              ExpireFolder, go
<1>2. ASSUME NEW t \in Task, TaskStep(t)  PROVE Same
  BY <1>2 DEF TaskStep, SetFlag, Read, Publish, Confirm, Tx, DeleteFolder, End, db, go
<1>3. ASSUME NEW t \in Task, NEW op \in PathKinds, Begin(t, op)  PROVE Same
  BY <1>3 DEF Begin, db, go
<1>4. ASSUME NEW t \in Task, TxFails(t) \/ \E f \in File : PublishFails(t, f)  PROVE Same
  BY <1>4 DEF PublishFails, TxFails, db, go
<1>5. CASE CoreCrash
  BY <1>5 DEF CoreCrash, db, go
<1>6. ASSUME NEW f \in File, Trim(f)  PROVE Same
  BY <1>6 DEF Trim, db
<1>7. ASSUME NEW w \in Worker, NEW f \in File, Take(w, f) \/ TakeAgain(w, f)
      PROVE  Kept(w) /\ content' = content /\ purged' = purged
  BY <1>7 DEF Take, TakeAgain, TakeTo, TypeOK, db
<1>8. ASSUME NEW w \in Worker, DeleteFails(w) \/ Acknowledge(w) \/ GoCrash(w)
      PROVE  Kept(w) /\ content' = content /\ purged' = purged
  <2>1. content' = content /\ purged' = purged
    BY <1>8 DEF DeleteFails, Acknowledge, GoCrash, db
  <2>2. hand' = [hand EXCEPT ![w] = Free] \/ hand' = [hand EXCEPT ![w].pc = "failed"]
    BY <1>8 DEF DeleteFails, Acknowledge, GoCrash
  <2>. QED  BY <2>1, <2>2 DEF Free, TypeOK, HandState
<1>9. ASSUME NEW w \in Worker, Deleted(w)
      PROVE  Kept(w) /\ content' \subseteq content /\ purged' = purged
  <2>1. /\ content' \subseteq content /\ purged' = purged
        /\ hand[w].file \notin content' \/ hand[w].file \in lost'
    BY <1>9 DEF Deleted, db
  <2>2. hand'[w].file = hand[w].file /\ \A v \in Worker : v # w => hand'[v] = hand[v]
    BY <1>9 DEF Deleted, TypeOK, HandState
  <2>. QED  BY <2>1, <2>2
<1>10. ASSUME NEW w \in Worker, Report(w)
       PROVE  Kept(w) /\ content' = content /\ Grown
  <2>1. Kept(w) /\ content' = content
    BY <1>10 DEF Report, Free, TypeOK
  <2>2. hand[w].pc = "success" /\ purged' \subseteq purged \cup {hand[w].file}
    BY <1>10 DEF Report
  <2>. QED  BY <2>1, <2>2
<1>11. CASE UNCHANGED vars
  BY <1>11 DEF vars, db, go
<1>. QED  BY <1>1, <1>2, <1>3, <1>4, <1>5, <1>6, <1>7, <1>8, <1>9, <1>10, <1>11
          DEF Next, HandStep, Trouble

\* What a handler or a record says is gone is gone, or its deletion is still to come
\* or was refused.
LEMMA GoneKept ==
  ASSUME TypeOK, DoneIsGone, PurgedIsGone, [Next]_vars
  PROVE  content' \subseteq content /\ DoneIsGone' /\ PurgedIsGone'
<1>1. content' \subseteq content
  BY DoneSteps
<1>2. ASSUME NEW f \in content', Covered(f)  PROVE Covered(f)'
  BY <1>1, <1>2, CoverKept
<1>3. ASSUME NEW w \in Worker, NEW f \in content', hand'[w].pc = "success", hand'[w].file = f
      PROVE  Covered(f)'
  <2>1. CASE hand'[w] = hand[w]
    BY <1>1, <1>2, <1>3, <2>1 DEF DoneIsGone
  <2>2. CASE f \in lost'
    BY <2>2 DEF Covered
  <2>. QED  BY <1>3, <2>1, <2>2, DoneSteps
<1>4. ASSUME NEW f \in purged' \cap content'  PROVE Covered(f)'
  <2>1. CASE f \in purged
    BY <1>1, <1>2, <2>1 DEF PurgedIsGone
  <2>2. CASE f \notin purged
    <3>1. PICK w \in Worker : hand[w].pc = "success" /\ hand[w].file = f
      BY <2>2, DoneSteps
    <3>. QED  BY <1>1, <1>2, <3>1 DEF DoneIsGone
  <2>. QED  BY <2>1, <2>2
<1>. QED  BY <1>1, <1>3, <1>4 DEF DoneIsGone, PurgedIsGone

\* A task keeps its kind, one of those in use, until it ends.  What it is about
\* to delete was so before, or has just been published or lost, or is a record
\* that was marked purged.
Moves(t) ==
  /\ task'[t].op \in {task[t].op, "none"} \cup Paths
  /\ task'[t].cur \subseteq task[t].cur \cup purged \cup events' \cup lost' \cup (File \ content')

LEMMA GotoMoves ==
  ASSUME TypeOK, NEW t \in Task, NEW s \in TaskState, NEW p, Goto(t, s, p),
         s.op \in {task[t].op} \cup Paths,
         s.cur \subseteq task[t].cur \cup purged \cup events' \cup lost' \cup (File \ content')
  PROVE  \A u \in Task : Moves(u)
<1>1. \A u \in Task : u # t => task'[u] = task[u]
  BY DEF Goto, TypeOK
<1>2. task'[t] = NoTask \/ task'[t] = [s EXCEPT !.pc = p]
  BY DEF Goto, TypeOK
<1>3. task'[t].op \in {s.op, "none"} /\ task'[t].cur \subseteq s.cur
  BY <1>2 DEF NoTask, TaskState
<1>. QED  BY <1>1, <1>3 DEF Moves

LEMMA TaskMoves ==
  ASSUME TypeOK, NEW t \in Task,
         \/ TaskStep(t) \/ TxFails(t)
         \/ (\E f \in File : PublishFails(t, f)) \/ \E op \in PathKinds : Begin(t, op)
  PROVE  \A u \in Task : Moves(u)
<1>0. task[t] \in TaskState
  BY DEF TypeOK
<1>1. ASSUME NEW op \in PathKinds, Begin(t, op)  PROVE \A u \in Task : Moves(u)
  <2>. DEFINE s == [NoTask EXCEPT !.op = op, !.left = Collected(op)]
  <2>1. s \in TaskState /\ s.op = op /\ s.cur = {}
    BY SetsAssumption, NoTaskTyped DEF Collected, Swept, Expired, TypeOK, TaskState, NoTask
  <2>. QED  BY <1>1, <2>1, GotoMoves DEF Begin
<1>2. CASE SetFlag(t)
  <2>. DEFINE s == [task[t] EXCEPT !.clears = TRUE]
  <2>1. s \in TaskState /\ s.op = task[t].op /\ s.cur = task[t].cur
    BY <1>0 DEF TaskState
  <2>. QED  BY <1>2, <2>1, GotoMoves DEF SetFlag
<1>3. CASE Read(t)
  <2>1. PICK F \in Targets(t) :
          Goto(t, [task[t] EXCEPT !.left = F, !.dir = @ \/ (Op(t) = "empty" /\ FolderInTrash)],
               IF F = {} THEN NothingRead(t) ELSE "publish")
    BY <1>3 DEF Read
  <2>. DEFINE s == [task[t] EXCEPT !.left = F, !.dir = @ \/ (Op(t) = "empty" /\ FolderInTrash)]
  <2>2. F \in SUBSET File
    BY <1>0 DEF Targets, InTrash, TypeOK, TaskState
  <2>3. s \in TaskState /\ s.op = task[t].op /\ s.cur = task[t].cur
    BY <1>0, <2>2 DEF TaskState
  <2>. QED  BY <2>1, <2>3, GotoMoves
<1>4. ASSUME NEW f \in File, Publish(t, f)  PROVE \A u \in Task : Moves(u)
  <2>. DEFINE c == CASE Op(t) = "background" -> {f}
                     [] Op(t) = "cron"       -> {}
                     [] OTHER                -> task[t].cur \cup {f}
              s == [task[t] EXCEPT !.left = @ \ {f}, !.clears = @ \/ Op(t) = "cron", !.cur = c]
  <2>1. c \subseteq task[t].cur \cup {f} /\ c \in SUBSET File
    BY <1>0 DEF TaskState
  <2>2. s \in TaskState /\ s.op = task[t].op /\ s.cur = c
    BY <1>0, <2>1 DEF TaskState
  <2>3. Goto(t, s, PublishNext(t, f))
    BY <1>4, <1>0 DEF Publish, TaskState
  <2>4. f \in events' \cup lost' \cup (File \ content')
    BY <1>4 DEF Publish
  <2>. HIDE DEF c, s
  <2>. QED  BY <2>1, <2>2, <2>3, <2>4, GotoMoves
<1>5. CASE Confirm(t)
  <2>. DEFINE F == Expired \cap purged
              s == [task[t] EXCEPT !.cur = F, !.clears = @ \/ F # {}]
  <2>1. s \in TaskState /\ s.op = task[t].op /\ s.cur = F
    BY <1>0 DEF TaskState, TypeOK
  <2>. QED  BY <1>5, <2>1, GotoMoves DEF Confirm
<1>6. CASE Tx(t)
  <2>. DEFINE s == [task[t] EXCEPT !.cur = {}]
  <2>1. s \in TaskState /\ s.op = task[t].op /\ s.cur = {}
    BY <1>0 DEF TaskState
  <2>. QED  BY <1>6, <2>1, GotoMoves DEF Tx
<1>7. CASE DeleteFolder(t)
  <2>. DEFINE s == [task[t] EXCEPT !.clears = @ \/ (Op(t) = "cron" /\ Doomed(t))]
  <2>1. s \in TaskState /\ s.op = task[t].op /\ s.cur = task[t].cur
    BY <1>0 DEF TaskState
  <2>. QED  BY <1>7, <2>1, GotoMoves DEF DeleteFolder
<1>8. CASE End(t)
  BY <1>8 DEF End, TypeOK, NoTask, Moves
<1>9. ASSUME NEW f \in File, PublishFails(t, f)  PROVE \A u \in Task : Moves(u)
  <2>. DEFINE s == [task[t] EXCEPT !.left = @ \ {f}]
  <2>1. s \in TaskState /\ s.op = task[t].op /\ s.cur = task[t].cur
    BY <1>0 DEF TaskState
  <2>. QED  BY <1>9, <2>1, GotoMoves DEF PublishFails
<1>10. CASE TxFails(t)
  <2>. DEFINE s == [task[t] EXCEPT !.cur = {}]
  <2>1. s \in TaskState /\ s.op = task[t].op /\ s.cur = {}
    BY <1>0 DEF TaskState
  <2>. QED  BY <1>10, <2>1, GotoMoves DEF TxFails
<1>. QED  BY <1>1, <1>2, <1>3, <1>4, <1>5, <1>6, <1>7, <1>8, <1>9, <1>10 DEF TaskStep

LEMMA AllMove ==
  ASSUME TypeOK, [Next]_vars
  PROVE  \A t \in Task : Moves(t)
<1>1. CASE task' = task
  BY <1>1 DEF Moves
<1>2. CASE UserStep
  BY <1>1, <1>2 DEF UserStep, SoftDelete, Restore, Expire, SoftDeleteFolder, RestoreFolder,
                    ExpireFolder
<1>3. ASSUME NEW w \in Worker,
             \/ HandStep(w) \/ DeleteFails(w) \/ Acknowledge(w) \/ GoCrash(w)
             \/ \E f \in File : Take(w, f) \/ TakeAgain(w, f)
      PROVE  task' = task
  BY <1>3 DEF HandStep, Deleted, Report, DeleteFails, Acknowledge, GoCrash, Take, TakeAgain
<1>4. CASE CoreCrash
  BY <1>4 DEF CoreCrash, NoTask, Moves
<1>5. ASSUME NEW f \in File, Trim(f)  PROVE task' = task
  BY <1>5 DEF Trim
<1>6. CASE UNCHANGED vars
  BY <1>1, <1>6 DEF vars
<1>. QED  BY <1>1, <1>2, <1>3, <1>4, <1>5, <1>6, TaskMoves DEF Next, Trouble

\* A record leaves the database because a task was about to delete it, or with
\* its folder, which never comes back.
LEMMA RowSteps ==
  ASSUME TypeOK, [Next]_vars
  PROVE  /\ \A f \in rows \ rows' : \/ \E t \in Task : f \in task[t].cur
                                    \/ f \in InFolder /\ folder' = "gone"
         /\ folder = "gone" => folder' = "gone"
<1>1. CASE UserStep
  BY <1>1 DEF UserStep, SoftDelete, Restore, Expire, SoftDeleteFolder, RestoreFolder, ExpireFolder
<1>2. ASSUME NEW t \in Task, Tx(t)
      PROVE  /\ \A f \in rows \ rows' : f \in task[t].cur \/ (f \in InFolder /\ folder' = "gone")
             /\ folder = "gone" => folder' = "gone"
  BY <1>2 DEF Tx, Removed
<1>3. ASSUME NEW t \in Task, DeleteFolder(t)
      PROVE  /\ \A f \in rows \ rows' : f \in InFolder /\ folder' = "gone"
             /\ folder = "gone" => folder' = "gone"
  BY <1>3 DEF DeleteFolder
<1>4. ASSUME NEW t \in Task,
             \/ SetFlag(t) \/ Read(t) \/ Confirm(t) \/ End(t) \/ TxFails(t)
             \/ \E f \in File : Publish(t, f) \/ PublishFails(t, f)
             \/ \E op \in PathKinds : Begin(t, op)
      PROVE  rows' = rows /\ folder' = folder
  BY <1>4 DEF SetFlag, Read, Confirm, End, Publish, PublishFails, TxFails, Begin, db
<1>5. ASSUME NEW w \in Worker,
             \/ HandStep(w) \/ DeleteFails(w) \/ Acknowledge(w) \/ GoCrash(w)
             \/ \E f \in File : Take(w, f) \/ TakeAgain(w, f)
      PROVE  rows' = rows /\ folder' = folder
  BY <1>5 DEF HandStep, Deleted, Report, DeleteFails, Acknowledge, GoCrash, Take, TakeAgain, db
<1>6. CASE CoreCrash
  BY <1>6 DEF CoreCrash
<1>7. CASE UNCHANGED vars
  BY <1>7 DEF vars, db
<1>8. ASSUME NEW f \in File, Trim(f)  PROVE rows' = rows /\ folder' = folder
  BY <1>8 DEF Trim, db
<1>. QED  BY <1>1, <1>2, <1>3, <1>4, <1>5, <1>6, <1>7, <1>8 DEF Next, TaskStep, Trouble

LEMMA OrphanStep ==
  ASSUME OrphanInv, [Next]_vars
  PROVE  OrphanInv'
<1>. USE DEF OrphanInv
<1>1. TypeOK'
  BY NextTyped
<1>2. content' \subseteq content /\ DoneIsGone' /\ PurgedIsGone'
  BY GoneKept
<1>3. ASSUME NEW t \in Task, NEW f \in task'[t].cur \cap content'  PROVE Covered(f)'
  <2>1. CASE f \in task[t].cur
    BY <1>2, <2>1, CoverKept DEF CurCovered
  <2>2. CASE f \in events' \cup lost'
    BY <2>2 DEF Covered
  <2>3. CASE f \in purged
    BY <1>2, <2>3, CoverKept DEF PurgedIsGone
  <2>. QED  BY <2>1, <2>2, <2>3, AllMove DEF Moves
<1>4. ASSUME NEW f \in content' \ rows'
      PROVE  Covered(f)' \/ (f \in InFolder /\ folder' = "gone")
  <2>1. CASE f \in rows
    <3>1. CASE \E t \in Task : f \in task[t].cur
      BY <1>2, <3>1, CoverKept DEF CurCovered
    <3>. QED  BY <2>1, <3>1, RowSteps
  <2>2. CASE f \notin rows
    <3>1. CASE Covered(f)
      BY <1>2, <3>1, CoverKept
    <3>2. CASE f \in InFolder /\ folder = "gone"
      BY <3>2, RowSteps
    <3>. QED  BY <1>2, <2>2, <3>1, <3>2 DEF NoOrphan, Covered
  <2>. QED  BY <2>1, <2>2
<1>5. CurCovered'
  BY <1>3 DEF CurCovered
<1>6. NoOrphan'
  BY <1>4 DEF NoOrphan, Covered
<1>. QED  BY <1>1, <1>2, <1>5, <1>6

\* Whatever tasks, handlers and crashes of both services do, with events or over
\* HTTP, messages whose record is gone are still about to be deleted: only a step that
\* loses, refuses or gives up a deletion leaves them behind, never an interleaving.
THEOREM OrphanFree == Spec => []NoOrphan
<1>1. Init => OrphanInv
  <2>1. Init => TypeOK
    BY InitTyped
  <2>2. Init => DoneIsGone /\ PurgedIsGone /\ CurCovered /\ NoOrphan
    BY DEF Init, DoneIsGone, PurgedIsGone, CurCovered, NoOrphan, Free, NoTask
  <2>. QED  BY <2>1, <2>2 DEF OrphanInv
<1>2. OrphanInv /\ [Next]_vars => OrphanInv'
  BY OrphanStep
<1>3. OrphanInv => NoOrphan
  BY DEF OrphanInv
<1>. QED  BY <1>1, <1>2, <1>3, PTL DEF Spec

-----------------------------------------------------------------------------
(* usedSpace, as long as emptyTrash and the cron do not run.               *)

OnlyPaths == \A t \in Task : Op(t) \in Paths \cup {"none"}

\* What a step takes off usedSpace is what it deletes; other steps only let
\* records go.
LEMMA UsedStep ==
  ASSUME TypeOK, OnlyPaths, "empty" \notin Paths, "cron" \notin Paths, UsedCovers, [Next]_vars
  PROVE  UsedCovers'
<1>. DEFINE C == rows \cap Complete
<1>0. IsFiniteSet(C) /\ Cardinality(C) \in Nat /\ used \in Int
  BY SetsAssumption, FS_Subset, FS_CardinalityType DEF TypeOK
<1>1. ASSUME rows' \subseteq rows, used' = used  PROVE UsedCovers'
  <2>1. C' \subseteq C
    BY <1>1
  <2>2. IsFiniteSet(C') /\ Cardinality(C') <= Cardinality(C) /\ Cardinality(C') \in Nat
    BY <1>0, <2>1, FS_Subset, FS_CardinalityType
  <2>. QED  BY <1>0, <1>1, <2>2 DEF UsedCovers
<1>2. ASSUME NEW t \in Task, Tx(t)  PROVE UsedCovers'
  <2>. DEFINE R == Removed(t) \cap Complete
  <2>1. R \subseteq C
    BY DEF Removed
  <2>2. used' = used - Cardinality(R) /\ rows' = rows \ Removed(t)
    <3>1. Op(t) \notin {"empty", "cron"}
      BY DEF OnlyPaths
    <3>. QED  BY <1>2, <3>1 DEF Tx, Freed
  <2>3. Cardinality(C \ R) = Cardinality(C) - Cardinality(R)
    <3>1. C \cap R = R
      BY <2>1
    <3>2. Cardinality(C \ R) = Cardinality(C) - Cardinality(C \cap R)
      <4>. HIDE DEF C, R
      <4>. QED  BY <1>0, FS_Difference
    <3>. HIDE DEF C, R
    <3>. QED  BY <3>1, <3>2
  <2>4. C' = C \ R
    BY <2>2
  <2>5. IsFiniteSet(R) /\ Cardinality(R) \in Nat
    BY <1>0, <2>1, FS_Subset, FS_CardinalityType
  <2>. QED  BY <1>0, <2>2, <2>3, <2>4, <2>5 DEF UsedCovers
<1>3. CASE UserStep
  BY <1>1, <1>3 DEF UserStep, SoftDelete, Restore, Expire, SoftDeleteFolder, RestoreFolder,
                    ExpireFolder
<1>4. ASSUME NEW t \in Task,
             \/ SetFlag(t) \/ Read(t) \/ Confirm(t) \/ End(t) \/ DeleteFolder(t) \/ TxFails(t)
             \/ \E f \in File : Publish(t, f) \/ PublishFails(t, f)
             \/ \E op \in PathKinds : Begin(t, op)
      PROVE  UsedCovers'
  BY <1>1, <1>4 DEF SetFlag, Read, Confirm, End, DeleteFolder, Publish, PublishFails, TxFails, Begin, db
<1>5. ASSUME NEW w \in Worker,
             \/ HandStep(w) \/ DeleteFails(w) \/ Acknowledge(w) \/ GoCrash(w)
             \/ \E f \in File : Take(w, f) \/ TakeAgain(w, f)
      PROVE  UsedCovers'
  BY <1>1, <1>5 DEF HandStep, Deleted, Report, DeleteFails, Acknowledge, GoCrash, Take, TakeAgain, db
<1>6. CASE CoreCrash
  BY <1>1, <1>6 DEF CoreCrash
<1>7. CASE UNCHANGED vars
  BY <1>1, <1>7 DEF vars, db
<1>8. ASSUME NEW f \in File, Trim(f)  PROVE UsedCovers'
  BY <1>1, <1>8 DEF Trim, db
<1>. QED  BY <1>2, <1>3, <1>4, <1>5, <1>6, <1>7, <1>8 DEF Next, TaskStep, Trouble

\* usedSpace never falls below what the complete records hold, however requests,
\* cleanups, restores and crashes interleave: as long as only the paths that
\* count what they deleted are in use, not those that count what they read.
THEOREM UsedNeverShort ==
  ASSUME "empty" \notin Paths, "cron" \notin Paths
  PROVE  Spec => []UsedCovers
<1>. DEFINE Inv == TypeOK /\ OnlyPaths /\ UsedCovers
<1>1. Init => Inv
  <2>1. ASSUME Init  PROVE used >= Cardinality(rows \cap Complete)
    <3>1. rows \cap Complete = Complete
      BY <2>1, SetsAssumption DEF Init
    <3>2. Cardinality(Complete) \in Nat
      BY SetsAssumption, FS_Subset, FS_CardinalityType
    <3>. QED  BY <2>1, <3>1, <3>2 DEF Init
  <2>2. Init => OnlyPaths
    BY DEF Init, OnlyPaths, Op, NoTask
  <2>. QED  BY <2>1, <2>2, InitTyped DEF UsedCovers
<1>2. Inv /\ [Next]_vars => Inv'
  <2>1. OnlyPaths /\ (\A t \in Task : Moves(t)) => OnlyPaths'
    BY DEF OnlyPaths, Op, Moves
  <2>. QED  BY <2>1, NextTyped, AllMove, UsedStep
<1>. QED  BY <1>1, <1>2, PTL DEF Spec

-----------------------------------------------------------------------------
(* isCleaningTrash.                                                        *)

\* Only jobs clear the flag, and the two places that set it are theirs.
JobsClear ==
  \A t \in Task : /\ task[t].clears => Op(t) \in {"background", "cron"}
                  /\ task[t].pc = "set" => Op(t) = "background"
                  /\ task[t].pc = "confirm" => Op(t) = "cron"
                  /\ Op(t) = "none" => task[t].pc = "idle"

\* A step of task t leaves the others alone, and a job that will clear the flag
\* keeps at it, ends with it or is known to have failed to.
TaskChange(t) ==
  /\ \E s \in TaskState : task' = [task EXCEPT ![t] = s]
  /\ task'[t].clears => task'[t].op \in {"background", "cron"}
  /\ task'[t].pc = "set" => task'[t].op = "background"
  /\ task'[t].pc = "confirm" => task'[t].op = "cron"
  /\ task'[t].op = "none" => task'[t].pc = "idle"
  /\ cleaning' => \/ task'[t].clears \/ stuck'
                  \/ cleaning /\ ~task[t].clears
  /\ cleaning' /\ stuck => stuck'

LEMMA NoTaskIs == NoTask.op = "none" /\ NoTask.pc = "idle" /\ ~NoTask.clears
BY DEF NoTask

LEMMA GotoChange ==
  ASSUME TypeOK, NEW t \in Task, NEW s \in TaskState, NEW p \in TaskPcs, Goto(t, s, p),
         s.clears => s.op \in {"background", "cron"},
         p = "set" => s.op = "background", p = "confirm" => s.op = "cron", s.op # "none",
         cleaning' => s.clears \/ (cleaning /\ ~task[t].clears), stuck' = stuck
  PROVE  TaskChange(t)
<1>. DEFINE next == IF p = "end" /\ s.op \in {"single", "bulk", "empty"} THEN NoTask ELSE [s EXCEPT !.pc = p]
<1>1. next \in TaskState
  BY NoTaskTyped DEF TaskState
<1>2. task' = [task EXCEPT ![t] = next] /\ task'[t] = next
  BY DEF Goto, TypeOK
<1>3. /\ next.clears => s.clears /\ next.op = s.op
      /\ s.clears => next.clears
      /\ (next.pc = p /\ next.op = s.op) \/ next = NoTask
  BY DEF TaskState, NoTask
<1>. HIDE DEF next
<1>. QED  BY <1>1, <1>2, <1>3, NoTaskIs, Zenon DEF TaskChange

LEMMA TaskSteps ==
  ASSUME TypeOK, JobsClear, NEW t \in Task,
         \/ TaskStep(t) \/ TxFails(t) \/ \E op \in PathKinds : Begin(t, op)
         \/ \E f \in File : PublishFails(t, f)
  PROVE  TaskChange(t)
<1>0. /\ task[t] \in TaskState /\ task[t].op = Op(t)
      /\ task[t].clears => Op(t) \in {"background", "cron"}
      /\ task[t].pc = "set" => Op(t) = "background"
      /\ task[t].pc = "confirm" => Op(t) = "cron"
      /\ Op(t) = "none" => task[t].pc = "idle"
  BY DEF TypeOK, JobsClear, Op
<1>1. CASE SetFlag(t)
  <2>. DEFINE s == [task[t] EXCEPT !.clears = TRUE]
  <2>1. s \in TaskState /\ s.clears /\ s.op = Op(t)
    BY <1>0 DEF TaskState
  <2>2. Goto(t, s, "read") /\ Op(t) = "background" /\ "read" \in TaskPcs /\ stuck' = stuck
    BY <1>0, <1>1 DEF SetFlag, TaskPcs
  <2>. HIDE DEF s
  <2>. QED  BY <2>1, <2>2, GotoChange
<1>2. CASE Read(t)
  <2>1. PICK F \in Targets(t) :
          Goto(t, [task[t] EXCEPT !.left = F, !.dir = @ \/ (Op(t) = "empty" /\ FolderInTrash)],
               IF F = {} THEN NothingRead(t) ELSE "publish")
    BY <1>2 DEF Read
  <2>. DEFINE s == [task[t] EXCEPT !.left = F, !.dir = @ \/ (Op(t) = "empty" /\ FolderInTrash)]
              p == IF F = {} THEN NothingRead(t) ELSE "publish"
  <2>2. F \in SUBSET File
    BY <1>0 DEF Targets, InTrash, TypeOK, TaskState
  <2>3. s \in TaskState /\ s.clears = task[t].clears /\ s.op = Op(t)
    BY <1>0, <2>2 DEF TaskState
  <2>4. p \in TaskPcs /\ p \notin {"set", "confirm"}
    BY DEF NothingRead, TaskPcs
  <2>5. task[t].pc # "idle" /\ cleaning' = cleaning /\ stuck' = stuck
    BY <1>2 DEF Read, db
  <2>6. Goto(t, s, p)
    BY <2>1
  <2>. HIDE DEF s, p
  <2>. QED  BY <1>0, <2>3, <2>4, <2>5, <2>6, GotoChange
<1>3. ASSUME NEW f \in File, Publish(t, f)  PROVE TaskChange(t)
  <2>. DEFINE c == CASE Op(t) = "background" -> {f}
                     [] Op(t) = "cron"       -> {}
                     [] OTHER                -> task[t].cur \cup {f}
              s == [task[t] EXCEPT !.left = @ \ {f}, !.clears = @ \/ Op(t) = "cron", !.cur = c]
  <2>1. c \in SUBSET File
    BY <1>0 DEF TaskState
  <2>2. s \in TaskState /\ s.clears = (task[t].clears \/ Op(t) = "cron") /\ s.op = Op(t)
    BY <1>0, <2>1 DEF TaskState
  <2>3. PublishNext(t, f) \in TaskPcs \ {"set"} /\ (PublishNext(t, f) = "confirm" => Op(t) = "cron")
    BY DEF PublishNext, TaskPcs
  <2>4. Goto(t, s, PublishNext(t, f))
    BY <1>3, <1>0 DEF Publish, TaskState
  <2>5. task[t].pc # "idle" /\ cleaning' = cleaning /\ stuck' = stuck
    BY <1>3 DEF Publish, db
  <2>. HIDE DEF s
  <2>. QED  BY <1>0, <2>2, <2>3, <2>4, <2>5, GotoChange
<1>4. CASE Confirm(t)
  <2>. DEFINE F == Expired \cap purged
              s == [task[t] EXCEPT !.cur = F, !.clears = @ \/ F # {}]
              p == IF F = {} THEN "folders" ELSE "tx"
  <2>1. s \in TaskState /\ s.clears = (task[t].clears \/ F # {}) /\ s.op = Op(t)
    BY <1>0 DEF TaskState, TypeOK
  <2>2. p \in TaskPcs \ {"set", "confirm"}
    BY DEF TaskPcs
  <2>3. Op(t) = "cron" /\ cleaning' = (cleaning \/ F # {}) /\ stuck' = stuck /\ Goto(t, s, p)
    BY <1>0, <1>4 DEF Confirm
  <2>. HIDE DEF s, p, F
  <2>. QED  BY <2>1, <2>2, <2>3, GotoChange DEF TypeOK
<1>5. CASE Tx(t)
  <2>. DEFINE s == [task[t] EXCEPT !.cur = {}]
              p == CASE Op(t) \in {"single", "empty"} -> "end"
                     [] Op(t) = "background" /\ task[t].left # {} -> "publish"
                     [] OTHER -> "folders"
  <2>1. s \in TaskState /\ s.clears = task[t].clears /\ s.op = Op(t)
    BY <1>0 DEF TaskState
  <2>2. p \in TaskPcs \ {"set", "confirm"}
    BY DEF TaskPcs
  <2>3. task[t].pc # "idle" /\ cleaning' = cleaning /\ stuck' = stuck /\ Goto(t, s, p)
    BY <1>5 DEF Tx
  <2>. HIDE DEF s, p
  <2>. QED  BY <1>0, <2>1, <2>2, <2>3, GotoChange
<1>6. CASE DeleteFolder(t)
  <2>. DEFINE s == [task[t] EXCEPT !.clears = @ \/ (Op(t) = "cron" /\ Doomed(t))]
  <2>1. s \in TaskState /\ s.op = Op(t) /\ s.clears = (task[t].clears \/ (Op(t) = "cron" /\ Doomed(t)))
    BY <1>0 DEF TaskState
  <2>2. task[t].pc # "idle" /\ cleaning' = cleaning /\ stuck' = stuck /\ Goto(t, s, "end") /\ "end" \in TaskPcs
    BY <1>6 DEF DeleteFolder, TaskPcs
  <2>. HIDE DEF s
  <2>. QED  BY <1>0, <2>1, <2>2, GotoChange
<1>7. CASE End(t)
  <2>1. task' = [task EXCEPT ![t] = NoTask] /\ task'[t] = NoTask
    BY <1>7 DEF End, TypeOK
  <2>2. /\ cleaning' => stuck' \/ (cleaning /\ ~task[t].clears)
        /\ cleaning' /\ stuck => stuck'
    <3>1. CASE cleaning' = FlagAfter(t) /\ stuck' = (stuck /\ ~task[t].clears)
      BY <3>1 DEF FlagAfter, TypeOK
    <3>2. CASE stuck' = (stuck \/ cleaning) /\ cleaning' = cleaning
      BY <3>2 DEF TypeOK
    <3>. QED  BY <1>7, <3>1, <3>2 DEF End
  <2>. QED  BY <2>1, <2>2, NoTaskTyped, NoTaskIs, Zenon DEF TaskChange
<1>8. ASSUME NEW op \in PathKinds, Begin(t, op)  PROVE TaskChange(t)
  <2>. DEFINE s == [NoTask EXCEPT !.op = op, !.left = Collected(op)]
  <2>1. Collected(op) \in SUBSET File
    BY SetsAssumption DEF Collected, TypeOK, Swept, Expired
  <2>2. s \in TaskState /\ ~s.clears /\ s.op = op
    BY <2>1, NoTaskTyped DEF TaskState, NoTask
  <2>3. First(op) \in TaskPcs /\ (First(op) = "set" => op = "background")
        /\ (First(op) = "confirm" => op = "cron")
    BY DEF First, TaskPcs
  <2>4. Goto(t, s, First(op)) /\ cleaning' = cleaning /\ stuck' = stuck /\ ~task[t].clears /\ op # "none"
    BY <1>8 DEF Begin, db, NoTask, PathKinds
  <2>. HIDE DEF s
  <2>. QED  BY <2>2, <2>3, <2>4, GotoChange
<1>9. ASSUME NEW f \in File, PublishFails(t, f)  PROVE TaskChange(t)
  <2>. DEFINE s == [task[t] EXCEPT !.left = @ \ {f}]
              p == CASE Op(t) \in {"single", "bulk", "empty"} -> "end"
                     [] Op(t) \in {"background", "cron"} /\ task[t].left # {f} -> "publish"
                     [] Op(t) = "background" /\ task[t].left = {f} -> "folders"
                     [] OTHER -> "confirm"
  <2>1. s \in TaskState /\ s.clears = task[t].clears /\ s.op = Op(t)
    BY <1>0 DEF TaskState
  <2>2. Op(t) # "none" /\ cleaning' = cleaning /\ stuck' = stuck /\ Goto(t, s, p)
    BY <1>0, <1>9 DEF PublishFails, db
  <2>3. p \in TaskPcs \ {"set"} /\ (p = "confirm" => Op(t) = "cron")
    BY <1>0, <2>2 DEF TaskPcs, TaskState, PathKinds
  <2>. HIDE DEF s, p
  <2>. QED  BY <1>0, <2>1, <2>2, <2>3, GotoChange
<1>10. CASE TxFails(t)
  <2>. DEFINE s == [task[t] EXCEPT !.cur = {}]
              p == CASE Op(t) # "background"                    -> "end"
                     [] Op(t) = "background" /\ task[t].left # {} -> "publish"
                     [] OTHER                                  -> "folders"
  <2>1. s \in TaskState /\ s.clears = task[t].clears /\ s.op = Op(t)
    BY <1>0 DEF TaskState
  <2>2. p \in TaskPcs \ {"set", "confirm"}
    BY DEF TaskPcs
  <2>3. task[t].pc # "idle" /\ cleaning' = cleaning /\ stuck' = stuck /\ Goto(t, s, p)
    BY <1>10 DEF TxFails, db
  <2>. HIDE DEF s, p
  <2>. QED  BY <1>0, <2>1, <2>2, <2>3, GotoChange
<1>. QED  BY <1>1, <1>2, <1>3, <1>4, <1>5, <1>6, <1>7, <1>8, <1>9, <1>10 DEF TaskStep

\* Other steps touch neither the tasks nor the flag.
LEMMA RunnerStep ==
  ASSUME TypeOK, JobsClear, CleaningHasRunner, [Next]_vars
  PROVE  JobsClear' /\ CleaningHasRunner'
<1>1. ASSUME NEW t \in Task, TaskChange(t)  PROVE JobsClear' /\ CleaningHasRunner'
  <2>1. \A u \in Task \ {t} : task'[u] = task[u]
    BY <1>1 DEF TaskChange, TypeOK
  <2>2. JobsClear'
    BY <1>1, <2>1 DEF TaskChange, JobsClear, Op
  <2>3. ASSUME cleaning'  PROVE stuck' \/ \E u \in Task : task'[u].clears
    <3>1. CASE task'[t].clears \/ stuck'
      BY <3>1
    <3>2. CASE cleaning /\ ~task[t].clears
      BY <1>1, <2>1, <2>3, <3>2 DEF CleaningHasRunner, TaskChange
    <3>. QED  BY <1>1, <2>3, <3>1, <3>2 DEF TaskChange
  <2>. QED  BY <2>2, <2>3 DEF CleaningHasRunner
<1>2. ASSUME task' = task, cleaning' = cleaning, stuck' = stuck  PROVE JobsClear' /\ CleaningHasRunner'
  BY <1>2 DEF JobsClear, CleaningHasRunner, Op
<1>3. CASE UserStep
  BY <1>2, <1>3 DEF UserStep, SoftDelete, Restore, Expire, SoftDeleteFolder, RestoreFolder,
                    ExpireFolder
<1>4. ASSUME NEW t \in Task,
             \/ TaskStep(t) \/ TxFails(t) \/ \E op \in PathKinds : Begin(t, op)
             \/ \E f \in File : PublishFails(t, f)
      PROVE  JobsClear' /\ CleaningHasRunner'
  BY <1>1, <1>4, TaskSteps
<1>5. ASSUME NEW w \in Worker,
             \/ HandStep(w) \/ DeleteFails(w) \/ Acknowledge(w) \/ GoCrash(w)
             \/ \E f \in File : Take(w, f) \/ TakeAgain(w, f)
      PROVE  JobsClear' /\ CleaningHasRunner'
  BY <1>2, <1>5 DEF HandStep, Deleted, Report, DeleteFails, Acknowledge, GoCrash, Take, TakeAgain, db
<1>6. CASE CoreCrash
  BY <1>6, NoTaskIs DEF CoreCrash, JobsClear, CleaningHasRunner, Op
<1>7. CASE UNCHANGED vars
  BY <1>2, <1>7 DEF vars, db
<1>8. ASSUME NEW f \in File, Trim(f)  PROVE JobsClear' /\ CleaningHasRunner'
  BY <1>2, <1>8 DEF Trim, db
<1>. QED  BY <1>3, <1>4, <1>5, <1>6, <1>7, <1>8 DEF Next, Trouble

\* isCleaningTrash is set only while a job runs that will clear it, whatever
\* requests, cleanups, the cron and failing writes do, or since a job failed to clear
\* it or died with the core: the flag is in the database and the job is not.
THEOREM FlagHasRunner == Spec => []CleaningHasRunner
<1>. DEFINE Inv == TypeOK /\ JobsClear /\ CleaningHasRunner
<1>1. Init => Inv
  <2>1. Init => JobsClear /\ CleaningHasRunner
    BY DEF Init, JobsClear, CleaningHasRunner, Op, NoTask
  <2>. QED  BY <2>1, InitTyped
<1>2. Inv /\ [Next]_vars => Inv'
  BY NextTyped, RunnerStep
<1>. QED  BY <1>1, <1>2, PTL DEF Spec
=============================================================================
