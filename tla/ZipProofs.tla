------------------------------ MODULE ZipProofs ------------------------------
(***************************************************************************)
(* What ZipJob promises, for every number of jobs, instances and parts,    *)
(* under all its faults: a ZIP that is offered is whole, and the lookups   *)
(* of links keep to the permits.                                           *)
(*                                                                         *)
(* A step of the work on a job is a step about one job and one instance    *)
(* (Frame), and whoever takes it has the job to himself (Chosen).  So each *)
(* part of the invariant is looked at for that job and instance only, and  *)
(* the other jobs keep theirs.                                             *)
(***************************************************************************)
EXTENDS ZipJob, FiniteSetTheorems, TLAPS

-----------------------------------------------------------------------------
(***************************************************************************)
(* The lookups of links, for every number of permits, downloads and parts. *)
(*                                                                         *)
(* The permits are counted by the states of the callers: a caller leads    *)
(* one file id, and holds a permit while it leads.  The invariant LInv     *)
(* says that the queue holds those who wait, each once, and that nobody    *)
(* waits while a permit is free; a lookup that ends hands its permit to    *)
(* the head of the queue, and the number of holders stays as it was.       *)
(***************************************************************************)

Call == [pc : Leading \cup {"none", "ask", "do", "joined", "linked", "refused", "forward", "body"},
         id : FileId, age : Nat, tries : Nat]
Pos == [pc : {"idle", "absent", "running", "leaving", "done", "failed", "left"}, at : 0 .. Chunks]

LinkTyped ==
  /\ call \in [Caller -> Call] /\ progress \in [Download -> Pos]
  /\ linkCache \in [FileId -> Nat] /\ waiting \in Seq(Caller)

\* A download that has not begun looks nothing up.
NotStarted == \A d \in Download : progress[d].pc = "idle" => call[Main(d)] = NoCall

\* One lookup leads for every file id.
OneLeads == \A x, y \in Caller : call[x].pc \in Leading /\ call[y].pc \in Leading /\ x # y => call[x].id # call[y].id

\* Those who wait stand in the queue, once.
InLine ==
  /\ \A n \in 1 .. Len(waiting) : call[waiting[n]].pc = "queued"
  /\ \A m, n \in 1 .. Len(waiting) : m # n => waiting[m] # waiting[n]
  /\ \A x \in Caller : call[x].pc = "queued" => \E n \in 1 .. Len(waiting) : waiting[n] = x

\* The permits are given out while anybody waits.
Full == /\ IsFiniteSet(Holders) /\ Cardinality(Holders) <= Permits
        /\ waiting # <<>> => Cardinality(Holders) = Permits

LInv == LinkTyped /\ NotStarted /\ OneLeads /\ InLine /\ Full

-----------------------------------------------------------------------------
LEMMA NoCallTyped == NoCall \in Call /\ NoCall.pc = "none"
<1>1. 1 \in Part
  BY LinkAssumption DEF Part
<1>2. <<1, FALSE>> \in FileId
  BY <1>1 DEF FileId
<1> QED
  BY <1>2 DEF NoCall, Call

LEMMA MainTyped == \A d \in Download : Main(d) \in Caller /\ Main(d)[1] = d /\ IsMain(Main(d))
BY LinkAssumption DEF Main, Caller, IsMain

\* What keeps the queue and the permits: nobody begins or ends to lead.
LEMMA Calm ==
  ASSUME LInv, LinkTyped', UNCHANGED waiting,
         \A x \in Caller : call[x].pc \in Leading \/ call'[x].pc \in Leading =>
           call'[x].id = call[x].id /\ (call'[x].pc = call[x].pc \/ (call[x].pc = "holding" /\ call'[x].pc = "get"))
  PROVE  OneLeads' /\ InLine' /\ Full'
<1> USE DEF LInv
<1>1. \A x \in Caller : call'[x].pc \in Leading <=> call[x].pc \in Leading
  BY DEF Leading
<1>2. \A x \in Caller : call'[x].pc = "queued" <=> call[x].pc = "queued"
  BY DEF Leading
<1>3. \A n \in 1 .. Len(waiting) : waiting[n] \in Caller
  BY DEF LinkTyped
<1>4. Holders' = Holders
  BY DEF Holders, Leading
<1>5. OneLeads'
  BY <1>1 DEF OneLeads
<1>6. InLine'
  BY <1>2, <1>3 DEF InLine
<1>7. Full'
  BY <1>4 DEF Full
<1> QED
  BY <1>5, <1>6, <1>7

LEMMA WithoutIs ==
  ASSUME NEW S, NEW q \in Seq(S), NEW x, NEW n \in 1 .. Len(q), q[n] = x,
         \A i, k \in 1 .. Len(q) : i # k => q[i] # q[k]
  PROVE  /\ Without(q, x) \in Seq(S) /\ Len(Without(q, x)) = Len(q) - 1
         /\ \A k \in 1 .. Len(q) - 1 : Without(q, x)[k] = IF k < n THEN q[k] ELSE q[k + 1]
<1> DEFINE m == CHOOSE k \in 1 .. Len(q) : q[k] = x
           w == [k \in 1 .. Len(q) - 1 |-> IF k < m THEN q[k] ELSE q[k + 1]]
<1>1. m \in 1 .. Len(q) /\ q[m] = x
  OBVIOUS
<1>2. m = n
  BY <1>1
<1>3. Without(q, x) = w
  BY DEF Without
<1> HIDE DEF m
<1>4. \A k \in 1 .. Len(q) - 1 : (IF k < m THEN q[k] ELSE q[k + 1]) \in S
  OBVIOUS
<1>5. Len(q) - 1 \in Nat
  OBVIOUS
<1>6. w \in Seq(S) /\ Len(w) = Len(q) - 1
  BY <1>4, <1>5
<1> QED
  BY <1>2, <1>3, <1>6

\* A lookup ends: its permit goes to the first who waits.
LEMMA Concluded ==
  ASSUME LInv, NEW x \in Caller, call[x].pc \in Leading, NEW result \in [Caller -> Call],
         \A y \in Caller : result[y].pc \notin Leading, Conclude(x, result)
  PROVE  /\ call' \in [Caller -> Call] /\ waiting' \in Seq(Caller)
         /\ OneLeads' /\ InLine' /\ Full'
         /\ \A y \in Caller : call[y] = NoCall => call'[y] = NoCall
<1> USE DEF LInv
<1> DEFINE held == x \in Holders
           hit(y) == y = x \/ (call[y].pc = "joined" /\ call[y].id = call[x].id)
<1>1. x \in Holders \/ (x \notin Holders /\ call[x].pc = "queued")
  BY DEF Holders, Leading
<1>2. \A n \in 1 .. Len(waiting) : waiting[n] \in Caller /\ call[waiting[n]].pc = "queued"
  BY DEF LinkTyped, InLine
<1>3. CASE x \in Holders /\ waiting = <<>>
  <2>1. call' = [y \in Caller |-> IF hit(y) THEN result[y] ELSE call[y]] /\ UNCHANGED waiting
    BY <1>3 DEF Conclude
  <2> HIDE DEF hit
  <2>2. call' \in [Caller -> Call]
    BY <2>1 DEF LinkTyped
  <2>3. \A y \in Caller : call'[y].pc \in Leading => y # x /\ call'[y] = call[y]
    BY <2>1 DEF hit
  <2>4. Holders' = Holders \ {x}
    BY <2>1, <2>3 DEF Holders, hit, Leading
  <2>5. OneLeads'
    BY <2>3 DEF OneLeads
  <2>6. \A y \in Caller : call'[y].pc = "queued" => call[y].pc = "queued"
    BY <2>3 DEF Leading
  <2>7. InLine'
    BY <1>3, <2>1, <2>6 DEF InLine
  <2>8. IsFiniteSet(Holders') /\ Cardinality(Holders') <= Permits
    <3>1. IsFiniteSet(Holders) /\ Cardinality(Holders) \in Nat /\ Cardinality(Holders) <= Permits
      BY FS_CardinalityType DEF Full
    <3>2. IsFiniteSet(Holders \ {x}) /\ Cardinality(Holders \ {x}) = Cardinality(Holders) - 1
      BY <1>3, <3>1, FS_RemoveElement
    <3>3. Cardinality(Holders) - 1 <= Permits
      BY <3>1, LinkAssumption
    <3> QED
      BY <2>4, <3>2, <3>3
  <2>9. Full'
    BY <1>3, <2>1, <2>8 DEF Full
  <2>10. \A y \in Caller : call[y] = NoCall => call'[y] = NoCall
    BY <1>3, <2>1, NoCallTyped DEF hit, Holders
  <2> QED
    BY <2>1, <2>2, <2>5, <2>7, <2>9, <2>10 DEF LinkTyped
<1>4. CASE x \in Holders /\ waiting # <<>>
  <2> DEFINE z == Head(waiting)
  <2>1. z \in Caller /\ z = waiting[1] /\ 1 \in 1 .. Len(waiting) /\ Len(waiting) \in Nat
    BY <1>4 DEF LinkTyped
  <2>2. call[z].pc = "queued"
    BY <1>2, <2>1
  <2>3. z # x /\ ~hit(z)
    BY <1>4, <2>2 DEF Holders
  <2>4. /\ call' = [y \in Caller |-> IF hit(y) THEN result[y]
                     ELSE IF y = z THEN [call[y] EXCEPT !.pc = "holding"] ELSE call[y]]
        /\ waiting' = Tail(waiting)
    BY <1>4 DEF Conclude
  <2> HIDE DEF hit, z
  <2>5. [call[z] EXCEPT !.pc = "holding"] \in Call /\ [call[z] EXCEPT !.pc = "holding"].pc = "holding"
        /\ [call[z] EXCEPT !.pc = "holding"].id = call[z].id
    BY <2>1, ZenonT(60) DEF LinkTyped, Call, Leading
  <2>6. call' \in [Caller -> Call]
    BY <2>4, <2>5 DEF LinkTyped
  <2>7. call'[z].pc = "holding" /\ call'[z].id = call[z].id
    BY <2>1, <2>3, <2>4, <2>5
  <2>8. \A y \in Caller : call'[y].pc \in Leading /\ y # z => y # x /\ call'[y] = call[y]
    BY <2>4 DEF hit
  <2>9. OneLeads'
    <3>1. \A y \in Caller : call'[y].pc \in Leading => call[y].pc \in Leading /\ call'[y].id = call[y].id
      BY <2>2, <2>7, <2>8 DEF Leading
    <3> QED
      BY <3>1 DEF OneLeads
  <2>10. /\ waiting' \in Seq(Caller) /\ Len(waiting') = Len(waiting) - 1
         /\ \A n \in 1 .. Len(waiting') : n + 1 \in 1 .. Len(waiting) /\ waiting'[n] = waiting[n + 1]
    BY <1>4, <2>1, <2>4 DEF LinkTyped
  <2>11. InLine'
    <3>1. ASSUME NEW n \in 1 .. Len(waiting') PROVE call'[waiting'[n]].pc = "queued"
      <4>1. n + 1 \in 1 .. Len(waiting) /\ waiting'[n] = waiting[n + 1] /\ n + 1 # 1
        BY <2>10
      <4>2. waiting[n + 1] # z /\ waiting[n + 1] # x /\ waiting[n + 1] \in Caller
            /\ call[waiting[n + 1]].pc = "queued"
        BY <1>2, <1>4, <2>1, <4>1 DEF InLine, Holders
      <4> QED
        BY <2>4, <4>1, <4>2 DEF hit
    <3>2. \A m, n \in 1 .. Len(waiting') : m # n => waiting'[m] # waiting'[n]
      BY <2>10 DEF InLine
    <3>3. ASSUME NEW y \in Caller, call'[y].pc = "queued" PROVE \E n \in 1 .. Len(waiting') : waiting'[n] = y
      <4>1. y # z /\ call[y].pc = "queued"
        BY <2>7, <2>8, <3>3 DEF Leading
      <4>2. PICK n \in 1 .. Len(waiting) : waiting[n] = y
        BY <4>1 DEF InLine
      <4>3. n # 1
        BY <2>1, <4>1, <4>2
      <4>4. n - 1 \in 1 .. Len(waiting') /\ waiting'[n - 1] = waiting[n]
        BY <2>1, <2>10, <4>3
      <4> QED
        BY <4>2, <4>4
    <3> QED
      BY <3>1, <3>2, <3>3 DEF InLine
  <2>12. Holders' = (Holders \ {x}) \cup {z}
    BY <2>1, <2>4, <2>7, <2>8 DEF Holders, hit, Leading
  <2>13. z \notin Holders /\ x \in Holders
    BY <1>4, <2>2 DEF Holders
  <2>14. IsFiniteSet(Holders') /\ Cardinality(Holders') = Cardinality(Holders)
    <3>1. IsFiniteSet(Holders) /\ Cardinality(Holders) \in Nat
      BY FS_CardinalityType DEF Full
    <3>2. IsFiniteSet(Holders \ {x}) /\ Cardinality(Holders \ {x}) = Cardinality(Holders) - 1
      BY <2>13, <3>1, FS_RemoveElement
    <3>3. z \notin Holders \ {x}
      BY <2>13
    <3>4. /\ IsFiniteSet((Holders \ {x}) \cup {z})
          /\ Cardinality((Holders \ {x}) \cup {z}) = Cardinality(Holders \ {x}) + 1
      BY <3>2, <3>3, FS_AddElement
    <3>5. (Cardinality(Holders) - 1) + 1 = Cardinality(Holders)
      BY <3>1
    <3> QED
      BY <2>12, <3>2, <3>4, <3>5
  <2>15. Full'
    BY <1>4, <2>14 DEF Full
  <2>16. \A y \in Caller : call[y] = NoCall => call'[y] = NoCall
    BY <1>4, <2>2, <2>4, NoCallTyped DEF hit, Holders
  <2> QED
    BY <2>6, <2>9, <2>10, <2>11, <2>15, <2>16
<1>5. CASE x \notin Holders /\ call[x].pc = "queued"
  <2>1. call' = [y \in Caller |-> IF hit(y) THEN result[y] ELSE call[y]] /\ waiting' = Without(waiting, x)
    BY <1>5 DEF Conclude
  <2>2. PICK p \in 1 .. Len(waiting) : waiting[p] = x
    BY <1>5 DEF InLine
  <2>3. /\ waiting' \in Seq(Caller) /\ Len(waiting') = Len(waiting) - 1
        /\ \A k \in 1 .. Len(waiting) - 1 : waiting'[k] = IF k < p THEN waiting[k] ELSE waiting[k + 1]
    <3>1. waiting \in Seq(Caller) /\ \A i, k \in 1 .. Len(waiting) : i # k => waiting[i] # waiting[k]
      BY DEF LinkTyped, InLine
    <3> QED
      BY <2>1, <2>2, <3>1, WithoutIs
  <2> HIDE DEF hit
  <2>4. call' \in [Caller -> Call]
    BY <2>1 DEF LinkTyped
  <2>5. \A y \in Caller : call'[y].pc \in Leading => y # x /\ call'[y] = call[y]
    BY <2>1 DEF hit
  <2>6. OneLeads'
    BY <2>5 DEF OneLeads
  <2>7. Holders' = Holders
    BY <1>5, <2>1, <2>5 DEF Holders, hit, Leading
  <2>8. Full'
    <3>1. waiting # <<>>
      BY <2>2
    <3> QED
      BY <2>7, <3>1 DEF Full
  <2>9. Len(waiting) \in Nat
    BY DEF LinkTyped
  <2>10. \A k \in 1 .. Len(waiting') : \E n \in 1 .. Len(waiting) : n # p /\ waiting'[k] = waiting[n]
    <3>1. ASSUME NEW k \in 1 .. Len(waiting'), k < p PROVE k \in 1 .. Len(waiting) /\ waiting'[k] = waiting[k]
      BY <2>3, <2>9, <3>1
    <3>2. ASSUME NEW k \in 1 .. Len(waiting'), ~(k < p)
          PROVE  k + 1 \in 1 .. Len(waiting) /\ k + 1 # p /\ waiting'[k] = waiting[k + 1]
      BY <2>3, <2>9, <3>2
    <3> QED
      BY <3>1, <3>2
  <2>11. InLine'
    <3>1. ASSUME NEW k \in 1 .. Len(waiting') PROVE call'[waiting'[k]].pc = "queued"
      <4>1. PICK n \in 1 .. Len(waiting) : n # p /\ waiting'[k] = waiting[n]
        BY <2>10
      <4>2. waiting[n] # x /\ waiting[n] \in Caller /\ call[waiting[n]].pc = "queued"
        BY <1>2, <2>2, <4>1 DEF InLine
      <4> QED
        BY <2>1, <4>1, <4>2 DEF hit
    <3>2. ASSUME NEW k \in 1 .. Len(waiting'), NEW l \in 1 .. Len(waiting'), k # l PROVE waiting'[k] # waiting'[l]
      <4> DEFINE at(n) == IF n < p THEN n ELSE n + 1
      <4>1. at(k) \in 1 .. Len(waiting) /\ at(l) \in 1 .. Len(waiting) /\ at(k) # at(l)
        BY <2>3, <2>9, <3>2
      <4>2. waiting'[k] = waiting[at(k)] /\ waiting'[l] = waiting[at(l)]
        BY <2>3, <2>9
      <4> QED
        BY <4>1, <4>2 DEF InLine
    <3>3. ASSUME NEW y \in Caller, call'[y].pc = "queued" PROVE \E k \in 1 .. Len(waiting') : waiting'[k] = y
      <4>1. y # x /\ call[y].pc = "queued"
        BY <2>5, <3>3 DEF Leading
      <4>2. PICK n \in 1 .. Len(waiting) : waiting[n] = y
        BY <4>1 DEF InLine
      <4>3. n # p
        BY <2>2, <4>1, <4>2
      <4>4. CASE n < p
        <5>1. n \in 1 .. Len(waiting') /\ waiting'[n] = waiting[n]
          BY <2>3, <2>9, <4>4
        <5> QED
          BY <4>2, <5>1
      <4>5. CASE ~(n < p)
        <5>1. n - 1 \in 1 .. Len(waiting') /\ ~(n - 1 < p) /\ waiting'[n - 1] = waiting[(n - 1) + 1]
          BY <2>3, <2>9, <4>3, <4>5
        <5>2. (n - 1) + 1 = n
          OBVIOUS
        <5> QED
          BY <4>2, <5>1, <5>2
      <4> QED
        BY <4>4, <4>5
    <3> QED
      BY <3>1, <3>2, <3>3 DEF InLine
  <2>12. \A y \in Caller : call[y] = NoCall => call'[y] = NoCall
    BY <1>5, <2>1, NoCallTyped DEF hit
  <2> QED
    BY <2>3, <2>4, <2>6, <2>8, <2>11, <2>12
<1> QED
  BY <1>1, <1>3, <1>4, <1>5

-----------------------------------------------------------------------------
(* The steps.                                                              *)

\* One lookup, which does not lead, takes a step.
LEMMA Moved ==
  ASSUME LInv, NEW x \in Caller, NEW c \in Call, c.pc \notin Leading, call[x].pc \notin Leading,
         call[x] # NoCall, call' = [call EXCEPT ![x] = c], UNCHANGED waiting, linkCache' \in [FileId -> Nat],
         progress' \in [Download -> Pos],
         \A d \in Download : progress'[d].pc = "idle" => progress[d].pc = "idle"
  PROVE  LInv'
<1> USE DEF LInv
<1>1. LinkTyped'
  BY DEF LinkTyped
<1>2. NotStarted'
  BY MainTyped DEF NotStarted, LinkTyped
<1>3. \A y \in Caller : call[y].pc \in Leading \/ call'[y].pc \in Leading => call'[y] = call[y]
  BY DEF LinkTyped
<1>4. OneLeads' /\ InLine' /\ Full'
  BY <1>1, <1>3, Calm
<1> QED
  BY <1>1, <1>2, <1>4

\* A lookup and those that joined it end.
LEMMA Ends ==
  ASSUME LInv, NEW x \in Caller, call[x].pc \in Leading, NEW result \in [Caller -> Call],
         \A y \in Caller : result[y].pc \notin Leading, Conclude(x, result),
         linkCache' \in [FileId -> Nat], UNCHANGED progress
  PROVE  LInv'
<1>1. /\ call' \in [Caller -> Call] /\ waiting' \in Seq(Caller) /\ OneLeads' /\ InLine' /\ Full'
      /\ \A y \in Caller : call[y] = NoCall => call'[y] = NoCall
  BY Concluded
<1>2. LinkTyped'
  BY <1>1 DEF LInv, LinkTyped
<1>3. NotStarted'
  BY <1>1, MainTyped DEF LInv, NotStarted
<1> QED
  BY <1>1, <1>2, <1>3 DEF LInv

LEMMA LinkedTyped ==
  ASSUME LinkTyped, NEW age \in Nat
  PROVE  [y \in Caller |-> Linked(y, age)] \in [Caller -> Call]
         /\ \A y \in Caller : Linked(y, age) \in Call /\ Linked(y, age).pc \notin Leading
<1>1. \A y \in Caller : Linked(y, age) \in Call /\ Linked(y, age).pc \in {"linked", "none"}
  BY NoCallTyped DEF Linked, LinkTyped, Call
<1> QED
  BY <1>1 DEF Leading

LEMMA RefusedTyped ==
  ASSUME LinkTyped
  PROVE  [y \in Caller |-> Refused(y)] \in [Caller -> Call]
         /\ \A y \in Caller : Refused(y) \in Call /\ Refused(y).pc \notin Leading
<1>1. \A y \in Caller : Refused(y) \in Call /\ Refused(y).pc = "refused"
  BY DEF Refused, LinkTyped, Call
<1> QED
  BY <1>1 DEF Leading

LEMMA Failing ==
  ASSUME LInv, NEW x \in Caller, call[x].pc \in {"refused", "forward", "linked"}, Fails(x)
  PROVE  LInv'
<1> USE DEF LInv
<1>1. call[x] # NoCall /\ call[x].pc \notin Leading /\ NoCall.pc \notin Leading
  BY NoCallTyped DEF Leading
<1>2. CASE IsMain(x)
  <2>1. /\ progress' = [progress EXCEPT ![x[1]] = Ended("failed")]
        /\ call' = [call EXCEPT ![x] = NoCall] /\ UNCHANGED <<waiting, linkCache>>
    BY <1>2 DEF Fails
  <2>2. progress' \in [Download -> Pos] /\ \A d \in Download : progress'[d].pc = "idle" => progress[d].pc = "idle"
    BY <2>1, LinkAssumption DEF LinkTyped, Ended, Pos, Caller
  <2>3. linkCache' \in [FileId -> Nat]
    BY <2>1 DEF LinkTyped
  <2> QED
    BY <1>1, <2>1, <2>2, <2>3, Moved, NoCallTyped
<1>3. CASE ~IsMain(x) /\ InGo
  <2>1. call' = [call EXCEPT ![x] = NoCall] /\ UNCHANGED <<progress, waiting, linkCache>>
    BY <1>3 DEF Fails
  <2>2. linkCache' \in [FileId -> Nat] /\ progress' \in [Download -> Pos]
    BY <2>1 DEF LinkTyped
  <2> QED
    BY <1>1, <2>1, <2>2, Moved, NoCallTyped
<1>4. CASE ~IsMain(x) /\ ~InGo
  <2>1. progress' = Broken /\ call' = [y \in Caller |-> NoCall] /\ waiting' = <<>> /\ linkCache' = NoLinks
    BY <1>4 DEF Fails
  <2>2. NoLinks \in [FileId -> Nat]
    BY LinkAssumption DEF NoLinks, Never
  <2>3. Broken \in [Download -> Pos]
    BY LinkAssumption DEF Broken, LinkTyped, Pos, Ended
  <2>4. LinkTyped'
    BY <2>1, <2>2, <2>3, NoCallTyped DEF LinkTyped
  <2>5. NotStarted' /\ OneLeads' /\ InLine'
    BY <2>1, MainTyped, NoCallTyped DEF NotStarted, OneLeads, InLine, Leading
  <2>6. Holders' = {}
    BY <2>1, NoCallTyped DEF Holders
  <2>7. Full'
    BY <2>1, <2>6, FS_EmptySet, LinkAssumption DEF Full
  <2> QED
    BY <2>4, <2>5, <2>7
<1> QED
  BY <1>2, <1>3, <1>4

LEMMA AskTyped ==
  ASSUME NEW c \in Part, NEW known
  PROVE  [NoCall EXCEPT !.pc = "ask", !.id = <<c, c \in known>>] \in Call
         /\ [NoCall EXCEPT !.pc = "ask", !.id = <<c, c \in known>>].pc = "ask"
<1>1. ASSUME NEW b \in BOOLEAN
      PROVE  [NoCall EXCEPT !.pc = "ask", !.id = <<c, b>>] \in Call
             /\ [NoCall EXCEPT !.pc = "ask", !.id = <<c, b>>].pc = "ask"
  <2>1. <<c, b>> \in FileId
    BY DEF FileId
  <2> QED
    BY <2>1, NoCallTyped DEF Call
<1>2. (c \in known) \in BOOLEAN
  OBVIOUS
<1> QED
  BY <1>1, <1>2, Zenon

\* A download asks for links.
LEMMA Wanted ==
  ASSUME LInv, NEW d \in Download, NEW c \in Part, NEW known, call[Main(d)].pc \in {"none", "body"},
         call' = Want(d, c, known, call), UNCHANGED <<waiting, linkCache>>,
         progress' \in [Download -> Pos], progress'[d].pc # "idle",
         \A e \in Download : e # d => progress'[e] = progress[e]
  PROVE  LInv'
<1> USE DEF LInv
<1>1. \A x \in Caller : \/ call'[x] = call[x]
                        \/ x[1] = d /\ call[x].pc \notin Leading /\ call'[x] \in Call /\ call'[x].pc = "ask"
  <2> SUFFICES ASSUME NEW x \in Caller, call'[x] # call[x]
               PROVE  x[1] = d /\ call[x].pc \notin Leading /\ call'[x] \in Call /\ call'[x].pc = "ask"
    OBVIOUS
  <2>1. CASE x = Main(d)
    <3>1. call'[x] = [NoCall EXCEPT !.pc = "ask", !.id = <<c, c \in known>>]
      BY <2>1 DEF Want
    <3> QED
      <4>1. [NoCall EXCEPT !.pc = "ask", !.id = <<c, c \in known>>] \in Call
            /\ [NoCall EXCEPT !.pc = "ask", !.id = <<c, c \in known>>].pc = "ask"
        BY AskTyped, Zenon
      <4>2. call'[x] \in Call /\ call'[x].pc = "ask"
        BY <3>1, <4>1, Zenon
      <4> QED
        BY <2>1, <4>2, MainTyped DEF Leading
  <2>2. CASE x # Main(d)
    <3>1. /\ x[1] = d /\ x[2] \in c + 1 .. c + Ahead /\ call[x] = NoCall
          /\ call'[x] = [NoCall EXCEPT !.pc = "ask", !.id = <<x[2], x[2] \in known>>]
      BY <2>2 DEF Want
    <3>2. x[2] \in Part
      BY <3>1, LinkAssumption DEF Caller, Part
    <3> QED
      <4>1. [NoCall EXCEPT !.pc = "ask", !.id = <<x[2], x[2] \in known>>] \in Call
            /\ [NoCall EXCEPT !.pc = "ask", !.id = <<x[2], x[2] \in known>>].pc = "ask"
        BY <3>2, AskTyped, Zenon
      <4>2. call'[x] \in Call /\ call'[x].pc = "ask"
        BY <3>1, <4>1, Zenon
      <4> QED
        BY <3>1, <4>2, NoCallTyped DEF Leading
  <2> QED
    BY <2>1, <2>2
<1>2. call' \in [Caller -> Call]
  <2>1. call' = [x \in Caller |-> call'[x]]
    BY DEF Want
  <2> QED
    BY <1>1, <2>1 DEF LinkTyped
<1>3. LinkTyped'
  BY <1>2 DEF LinkTyped
<1>4. NotStarted'
  BY <1>1, MainTyped DEF NotStarted
<1>5. OneLeads' /\ InLine' /\ Full'
  BY <1>1, <1>3, Calm DEF Leading
<1> QED
  BY <1>3, <1>4, <1>5

\* A lookup goes on to the call of getFile.
LEMMA Held ==
  ASSUME LInv, NEW x \in Caller, call[x].pc \in {"holding", "get"}, NEW n \in Nat,
         call' = [call EXCEPT ![x] = [call[x] EXCEPT !.pc = "get", !.tries = n]],
         UNCHANGED <<progress, waiting, linkCache>>
  PROVE  LInv'
<1> USE DEF LInv
<1> DEFINE c == [call[x] EXCEPT !.pc = "get", !.tries = n]
<1>1. c \in Call /\ c.pc = "get" /\ c.id = call[x].id
  BY DEF LinkTyped, Call, Leading
<1> HIDE DEF c
<1>2. call' = [call EXCEPT ![x] = c]
  BY DEF c
<1>3. LinkTyped'
  BY <1>1, <1>2 DEF LinkTyped
<1>4. NotStarted'
  BY <1>2, MainTyped, NoCallTyped DEF NotStarted
<1>5. ASSUME NEW y \in Caller, call[y].pc \in Leading \/ call'[y].pc \in Leading
      PROVE  call'[y].id = call[y].id
             /\ (call'[y].pc = call[y].pc \/ (call[y].pc = "holding" /\ call'[y].pc = "get"))
  BY <1>1, <1>2 DEF LinkTyped
<1>6. OneLeads' /\ InLine' /\ Full'
  BY <1>3, <1>5, Calm
<1> QED
  BY <1>3, <1>4, <1>6

\* The lookup of a link begins, joins another one, or waits.
LEMMA DoKept ==
  ASSUME LInv, NEW x \in Caller, Do(x)
  PROVE  LInv'
<1> USE DEF LInv
<1>1. /\ call[x].pc \in {"do", "ask"} /\ call[x] \in Call /\ call[x] # NoCall
      /\ UNCHANGED <<progress, linkCache>>
  BY NoCallTyped DEF Do, LinkTyped, Rest
<1> DEFINE to(p) == [call[x] EXCEPT !.pc = p]
<1>2. \A p \in {"joined", "holding", "queued"} : to(p) \in Call /\ to(p).pc = p /\ to(p).id = call[x].id
  BY <1>1 DEF Call, Leading
<1>3. CASE InFlight(call[x].id)
  <2>1. call' = [call EXCEPT ![x] = to("joined")] /\ UNCHANGED waiting
    BY <1>3 DEF Do, LinkTyped
  <2> HIDE DEF to
  <2>2. progress' \in [Download -> Pos] /\ linkCache' \in [FileId -> Nat]
    BY <1>1 DEF LinkTyped
  <2>3. to("joined") \in Call /\ to("joined").pc = "joined"
    BY <1>2
  <2>4. to("joined").pc \notin Leading /\ call[x].pc \notin Leading
    BY <1>1, <2>3 DEF Leading
  <2> QED
    BY <1>1, <2>1, <2>2, <2>3, <2>4, Moved
<1>4. ASSUME ~InFlight(call[x].id), NEW p \in {"holding", "queued"}, call' = [call EXCEPT ![x] = to(p)],
             waiting' \in Seq(Caller)
      PROVE  LinkTyped' /\ NotStarted' /\ OneLeads'
  <2> HIDE DEF to
  <2>1. to(p) \in Call /\ to(p).pc = p /\ to(p).id = call[x].id
    BY <1>2
  <2>2. LinkTyped'
    BY <1>1, <1>4, <2>1 DEF LinkTyped
  <2>3. NotStarted'
    BY <1>1, <1>4, MainTyped DEF NotStarted
  <2>4. call'[x].id = call[x].id /\ \A y \in Caller : y # x => call'[y] = call[y]
    BY <1>4, <2>1 DEF LinkTyped
  <2>5. \A y \in Caller : y # x /\ call[y].pc \in Leading => call[y].id # call[x].id
    BY <1>4 DEF InFlight
  <2>6. OneLeads'
    BY <2>4, <2>5 DEF OneLeads
  <2> QED
    BY <2>2, <2>3, <2>6
<1>5. CASE ~InFlight(call[x].id) /\ Cardinality(Holders) < Permits
  <2>1. call' = [call EXCEPT ![x] = to("holding")] /\ UNCHANGED waiting
    BY <1>5 DEF Do, LinkTyped
  <2>2. waiting' \in Seq(Caller)
    BY <2>1 DEF LinkTyped
  <2>3. LinkTyped' /\ NotStarted' /\ OneLeads'
    BY <1>4, <1>5, <2>1, <2>2
  <2> HIDE DEF to
  <2>4. call'[x].pc = "holding" /\ \A y \in Caller : y # x => call'[y] = call[y]
    BY <1>2, <2>1 DEF LinkTyped
  <2>5. waiting = <<>>
    BY <1>5, FS_CardinalityType, LinkAssumption DEF Full
  <2>6. InLine'
    BY <2>1, <2>4, <2>5 DEF InLine
  <2>7. Holders' = Holders \cup {x} /\ x \notin Holders
    BY <1>1, <2>4 DEF Holders
  <2>8. IsFiniteSet(Holders') /\ Cardinality(Holders') = Cardinality(Holders) + 1 /\ Cardinality(Holders) \in Nat
    BY <2>7, FS_AddElement, FS_CardinalityType DEF Full
  <2>9. Cardinality(Holders') <= Permits
    BY <1>5, <2>8, LinkAssumption
  <2>10. Full'
    BY <2>1, <2>5, <2>8, <2>9 DEF Full
  <2> QED
    BY <2>3, <2>6, <2>10
<1>6. CASE ~InFlight(call[x].id) /\ ~(Cardinality(Holders) < Permits)
  <2>1. call' = [call EXCEPT ![x] = to("queued")] /\ waiting' = Append(waiting, x)
    BY <1>6 DEF Do, LinkTyped
  <2>2. waiting' \in Seq(Caller) /\ waiting \in Seq(Caller) /\ Len(waiting) \in Nat
    BY <2>1 DEF LinkTyped
  <2>3. LinkTyped' /\ NotStarted' /\ OneLeads'
    BY <1>4, <1>6, <2>1, <2>2
  <2> HIDE DEF to
  <2>4. call'[x].pc = "queued" /\ \A y \in Caller : y # x => call'[y] = call[y]
    BY <1>2, <2>1 DEF LinkTyped
  <2>5. Holders' = Holders
    BY <1>1, <2>4 DEF Holders
  <2>6. Cardinality(Holders) = Permits
    BY <1>6, FS_CardinalityType, LinkAssumption DEF Full
  <2>7. Full'
    BY <2>5, <2>6 DEF Full
  <2>8. /\ Len(waiting') = Len(waiting) + 1 /\ waiting'[Len(waiting) + 1] = x
        /\ \A n \in 1 .. Len(waiting) : waiting'[n] = waiting[n]
    BY <2>1, <2>2
  <2>9. \A n \in 1 .. Len(waiting) : waiting[n] \in Caller /\ waiting[n] # x
    BY <1>1, <2>2 DEF InLine
  <2>10. InLine'
    <3>1. ASSUME NEW n \in 1 .. Len(waiting') PROVE n \in 1 .. Len(waiting) \/ n = Len(waiting) + 1
      BY <2>2, <2>8
    <3>2. \A n \in 1 .. Len(waiting') : call'[waiting'[n]].pc = "queued"
      BY <2>4, <2>8, <2>9, <3>1 DEF InLine
    <3>3. \A m, n \in 1 .. Len(waiting') : m # n => waiting'[m] # waiting'[n]
      BY <2>8, <2>9, <3>1 DEF InLine
    <3>4. ASSUME NEW y \in Caller, call'[y].pc = "queued" PROVE \E n \in 1 .. Len(waiting') : waiting'[n] = y
      <4>1. CASE y = x
        BY <2>2, <2>8, <4>1
      <4>2. CASE y # x
        <5>1. PICK n \in 1 .. Len(waiting) : waiting[n] = y
          BY <2>4, <3>4, <4>2 DEF InLine
        <5>2. n \in 1 .. Len(waiting')
          BY <2>2, <2>8
        <5> QED
          BY <2>8, <5>1, <5>2
      <4> QED
        BY <4>1, <4>2
    <3> QED
      BY <3>2, <3>3, <3>4 DEF InLine
  <2> QED
    BY <2>3, <2>7, <2>10
<1> QED
  BY <1>3, <1>5, <1>6

\* Every step of a lookup.
LEMMA LookupKept ==
  ASSUME LInv, NEW x \in Caller, LinkStep(x) \/ Trouble(x)
  PROVE  LInv'
<1> USE DEF LInv
<1>0. /\ call[x] \in Call /\ linkCache \in [FileId -> Nat] /\ progress \in [Download -> Pos]
      /\ call[x].id \in FileId
  BY DEF LinkTyped, Call
<1>1. ASSUME Hit(x) PROVE LInv'
  <2>1. linkCache[call[x].id] \in Nat
    BY <1>0
  <2>2. Linked(x, linkCache[call[x].id]) \in Call /\ Linked(x, linkCache[call[x].id]).pc \notin Leading
    BY <2>1, LinkedTyped
  <2>3. call[x].pc \notin Leading /\ call[x] # NoCall
    BY <1>1, NoCallTyped DEF Hit, Leading
  <2>4. call' = [call EXCEPT ![x] = Linked(x, linkCache[call[x].id])] /\ UNCHANGED <<waiting, progress, linkCache>>
    BY <1>1 DEF Hit, Rest
  <2> QED
    BY <1>0, <2>2, <2>3, <2>4, Moved
<1>2. ASSUME Miss(x) \/ Recover(x) PROVE LInv'
  <2>1. PICK p \in {"do", "forward"} : call' = [call EXCEPT ![x] = [call[x] EXCEPT !.pc = p]]
    BY <1>0, <1>2 DEF Miss, Recover, LinkTyped
  <2>2. [call[x] EXCEPT !.pc = p] \in Call /\ [call[x] EXCEPT !.pc = p].pc \notin Leading
    BY <1>0 DEF Call, Leading
  <2>3. call[x].pc \notin Leading /\ call[x] # NoCall /\ UNCHANGED <<waiting, progress, linkCache>>
    BY <1>2, NoCallTyped DEF Miss, Recover, Leading, Rest
  <2> QED
    BY <1>0, <2>1, <2>2, <2>3, Moved
<1>3. ASSUME CheckAgain(x) PROVE LInv'
  <2>1. call[x].pc = "holding" /\ UNCHANGED <<progress, linkCache>>
    BY <1>3 DEF CheckAgain, Rest
  <2>2. CASE Fresh(call[x].id)
    <3>1. Conclude(x, [y \in Caller |-> Linked(y, linkCache[call[x].id])])
      BY <1>3, <2>2 DEF CheckAgain
    <3> DEFINE result == [y \in Caller |-> Linked(y, linkCache[call[x].id])]
    <3>2. result \in [Caller -> Call] /\ \A y \in Caller : result[y].pc \notin Leading
      BY <1>0, LinkedTyped
    <3> HIDE DEF result
    <3>3. Conclude(x, result)
      BY <3>1 DEF result
    <3>4. call[x].pc \in Leading
      BY <2>1 DEF Leading
    <3> QED
      BY <1>0, <2>1, <3>2, <3>3, <3>4, Ends
  <2>3. CASE ~Fresh(call[x].id)
    <3>1. call' = [call EXCEPT ![x] = [call[x] EXCEPT !.pc = "get", !.tries = 0]] /\ UNCHANGED waiting
      BY <1>3, <2>3 DEF CheckAgain, LinkTyped
    <3> QED
      BY <2>1, <3>1, Held
  <2> QED
    BY <2>2, <2>3
<1>4. ASSUME call[x].pc \in {"queued", "get"}, UNCHANGED progress, linkCache' \in [FileId -> Nat],
             Conclude(x, [y \in Caller |-> Refused(y)])
      PROVE  LInv'
  <2> DEFINE result == [y \in Caller |-> Refused(y)]
  <2>1. result \in [Caller -> Call] /\ \A y \in Caller : result[y].pc \notin Leading
    BY RefusedTyped
  <2> HIDE DEF result
  <2>2. Conclude(x, result)
    BY <1>4 DEF result
  <2>3. call[x].pc \in Leading
    BY <1>4 DEF Leading
  <2> QED
    BY <1>4, <2>1, <2>2, <2>3, Ends
<1>5. ASSUME GetFile(x) PROVE LInv'
  <2>1. call[x].pc = "get" /\ UNCHANGED progress
    BY <1>5 DEF GetFile, Rest
  <2>2. CASE Reads(call[x].id)
    <3>1. linkCache' = [linkCache EXCEPT ![call[x].id] = 0] /\ Conclude(x, [y \in Caller |-> Linked(y, 0)])
      BY <1>5, <2>2 DEF GetFile
    <3> DEFINE result == [y \in Caller |-> Linked(y, 0)]
    <3>2. result \in [Caller -> Call] /\ \A y \in Caller : result[y].pc \notin Leading
      BY LinkedTyped
    <3> HIDE DEF result
    <3>3. Conclude(x, result)
      BY <3>1 DEF result
    <3>4. call[x].pc \in Leading /\ linkCache' \in [FileId -> Nat]
      BY <1>0, <2>1, <3>1 DEF Leading
    <3> QED
      BY <2>1, <3>2, <3>3, <3>4, Ends
  <2>3. CASE ~Reads(call[x].id)
    BY <1>0, <1>4, <1>5, <2>1, <2>3 DEF GetFile
  <2> QED
    BY <2>2, <2>3
<1>6. ASSUME Cancelled(x) PROVE LInv'
  BY <1>0, <1>4, <1>6 DEF Cancelled, Rest
<1>7. ASSUME Forward(x), UNCHANGED progress PROVE LInv'
  <2>1. call[x].pc = "forward" /\ UNCHANGED <<waiting, linkCache>>
    BY <1>7 DEF Forward
  <2> DEFINE c == [call[x] EXCEPT !.pc = "ask", !.id = <<call[x].id[1], TRUE>>, !.tries = 0]
  <2>2. <<call[x].id[1], TRUE>> \in FileId
    BY <1>0 DEF FileId
  <2>3. c \in Call /\ c.pc = "ask"
    BY <1>0, <2>2 DEF Call
  <2>4. call' = [call EXCEPT ![x] = c]
    BY <1>7 DEF Forward, LinkTyped
  <2> HIDE DEF c
  <2>5. call[x].pc \notin Leading /\ call[x] # NoCall /\ c.pc \notin Leading
    BY <2>1, <2>3, NoCallTyped DEF Leading
  <2> QED
    BY <1>0, <1>7, <2>1, <2>3, <2>4, <2>5, Moved
<1>8. ASSUME GiveUpLink(x) PROVE LInv'
  BY <1>8, Failing DEF GiveUpLink
<1>9. ASSUME TryAgain(x) \/ FetchAgain(x) PROVE LInv'
  <2>1. CASE call[x].tries < Retries /\ call[x].pc = "get"
    <3>1. call[x].tries + 1 \in Nat
      BY <1>0 DEF Call
    <3>2. call' = [call EXCEPT ![x] = [call[x] EXCEPT !.tries = call[x].tries + 1]]
          /\ UNCHANGED <<progress, waiting, linkCache>>
      BY <1>9, <2>1 DEF TryAgain, FetchAgain, LinkTyped
    <3>3. PICK n \in Nat : n = call[x].tries + 1
      BY <3>1
    <3>4. [call[x] EXCEPT !.pc = "get", !.tries = n] = [call[x] EXCEPT !.tries = n]
      BY <1>0, <2>1 DEF Call
    <3> QED
      BY <2>1, <3>2, <3>3, <3>4, Held
  <2>2. CASE call[x].tries < Retries /\ call[x].pc # "get"
    <3>1. PICK n \in Nat : n = call[x].tries + 1
      BY <1>0 DEF Call
    <3>2. call' = [call EXCEPT ![x] = [call[x] EXCEPT !.tries = n]] /\ UNCHANGED <<progress, waiting, linkCache>>
          /\ call[x].pc \in {"forward", "linked"}
      BY <1>9, <2>2, <3>1 DEF TryAgain, FetchAgain, LinkTyped
    <3>3. [call[x] EXCEPT !.tries = n] \in Call /\ [call[x] EXCEPT !.tries = n].pc = call[x].pc
      BY <1>0 DEF Call
    <3>4. call[x].pc \notin Leading /\ call[x] # NoCall
      BY <3>2, NoCallTyped DEF Leading
    <3> QED
      BY <1>0, <3>2, <3>3, <3>4, Moved
  <2>3. CASE ~(call[x].tries < Retries) /\ call[x].pc = "get"
    BY <1>0, <1>4, <1>9, <2>3 DEF TryAgain, FetchAgain
  <2>4. CASE ~(call[x].tries < Retries) /\ call[x].pc # "get"
    BY <1>9, <2>4, Failing DEF TryAgain, FetchAgain
  <2> QED
    BY <2>1, <2>2, <2>3, <2>4
<1>10. ASSUME RecoverFileID(x) \/ RecoverFileId(x) PROVE LInv'
  BY <1>7, <1>10 DEF RecoverFileID, RecoverFileId, Forward
<1> QED
  BY <1>1, <1>2, <1>3, <1>5, <1>6, <1>8, <1>9, <1>10, DoKept DEF LinkStep, Trouble

\* Every step of a download.
LEMMA DownloadKept ==
  ASSUME LInv, NEW d \in Download, Start(d) \/ DownloadStep(d) \/ Leave(d)
  PROVE  LInv'
<1> USE DEF LInv
<1> DEFINE x == Main(d)
<1>0. x \in Caller /\ call[x] \in Call /\ progress[d] \in Pos /\ linkCache \in [FileId -> Nat]
  BY MainTyped DEF LinkTyped
<1>1. ASSUME Start(d) PROVE LInv'
  <2>1. /\ progress' = [progress EXCEPT ![d] = [pc |-> "running", at |-> 1]]
        /\ call' = Want(d, 1, rows, call) /\ UNCHANGED <<waiting, linkCache>>
    BY <1>1 DEF Start
  <2>2. 1 \in Part /\ [pc |-> "running", at |-> 1] \in Pos
    BY LinkAssumption DEF Part, Pos
  <2>3. progress' \in [Download -> Pos] /\ progress'[d].pc # "idle"
        /\ \A e \in Download : e # d => progress'[e] = progress[e]
    BY <2>1, <2>2 DEF LinkTyped
  <2>4. call[Main(d)].pc = "none"
    BY <1>1, NoCallTyped DEF Start, NotStarted
  <2> QED
    BY <2>1, <2>2, <2>3, <2>4, Wanted
<1>2. ASSUME Fetch(d) PROVE LInv'
  <2>1. call[x].pc = "linked" /\ call[x] # NoCall
    BY <1>2, NoCallTyped DEF Fetch
  <2>2. CASE call[x].age < LinkLife
    <3>1. call' = [call EXCEPT ![x] = [call[x] EXCEPT !.pc = "body"]] /\ UNCHANGED <<progress, waiting, linkCache>>
      BY <1>2, <2>2, <1>0 DEF Fetch, LinkTyped
    <3>2. [call[x] EXCEPT !.pc = "body"] \in Call /\ [call[x] EXCEPT !.pc = "body"].pc = "body"
      BY <1>0 DEF Call
    <3>3. "body" \notin Leading /\ "linked" \notin Leading
      BY DEF Leading
    <3>4. progress' \in [Download -> Pos] /\ linkCache' \in [FileId -> Nat]
      BY <3>1 DEF LinkTyped
    <3> HIDE DEF x
    <3> QED
      BY <1>0, <2>1, <3>1, <3>2, <3>3, <3>4, Moved
  <2>3. CASE ~(call[x].age < LinkLife)
    BY <1>0, <1>2, <2>1, <2>3, Failing DEF Fetch
  <2> QED
    BY <2>2, <2>3
<1>3. ASSUME EndOfChunk(d) PROVE LInv'
  <2>1. call[x].pc = "body" /\ call[x] # NoCall /\ UNCHANGED <<waiting, linkCache>>
    BY <1>3, NoCallTyped DEF EndOfChunk
  <2>2. CASE progress[d].at < Chunks
    <3>1. PICK n \in Part : n = progress[d].at + 1
      BY <1>0, <2>2, LinkAssumption DEF Pos, Part
    <3>2. progress' = [progress EXCEPT ![d] = [progress[d] EXCEPT !.at = n]] /\ call' = Want(d, n, ids[d], call)
      BY <1>3, <2>2, <3>1 DEF EndOfChunk, LinkTyped
    <3>3. n \in 0 .. Chunks
      BY LinkAssumption DEF Part
    <3>4. [progress[d] EXCEPT !.at = n] \in Pos /\ [progress[d] EXCEPT !.at = n].pc = progress[d].pc
      BY <1>0, <3>3 DEF Pos
    <3>5. progress[d].pc # "idle"
      BY <2>1 DEF NotStarted
    <3>6. progress' \in [Download -> Pos] /\ progress'[d].pc # "idle"
          /\ \A e \in Download : e # d => progress'[e] = progress[e]
      BY <3>2, <3>4, <3>5 DEF LinkTyped
    <3> QED
      BY <2>1, <3>2, <3>6, Wanted
  <2>3. CASE ~(progress[d].at < Chunks)
    <3>1. progress' = [progress EXCEPT ![d] = Ended("done")] /\ call' = [call EXCEPT ![x] = NoCall]
      BY <1>3, <2>3 DEF EndOfChunk
    <3>2. progress' \in [Download -> Pos] /\ \A e \in Download : progress'[e].pc = "idle" => progress[e].pc = "idle"
      BY <3>1, LinkAssumption DEF LinkTyped, Ended, Pos
    <3>3. "body" \notin Leading /\ NoCall.pc \notin Leading /\ linkCache' \in [FileId -> Nat]
      BY <1>0, <2>1, NoCallTyped DEF Leading
    <3> HIDE DEF x
    <3> QED
      BY <1>0, <2>1, <3>1, <3>2, <3>3, NoCallTyped, Moved
  <2> QED
    BY <2>2, <2>3
<1>4. ASSUME Stop(d) PROVE LInv'
  <2>1. /\ call[x].pc \in {"linked", "body", "refused", "forward"} /\ UNCHANGED <<waiting, linkCache>>
        /\ progress' = [progress EXCEPT ![d] = Ended("left")] /\ call' = [call EXCEPT ![x] = NoCall]
    BY <1>4 DEF Stop
  <2>2. progress' \in [Download -> Pos] /\ \A e \in Download : progress'[e].pc = "idle" => progress[e].pc = "idle"
    BY <2>1, LinkAssumption DEF LinkTyped, Ended, Pos
  <2>3. call[x].pc \notin Leading /\ call[x] # NoCall /\ NoCall.pc \notin Leading /\ linkCache' \in [FileId -> Nat]
    BY <1>0, <2>1, NoCallTyped DEF Leading
  <2> HIDE DEF x
  <2> QED
    BY <1>0, <2>1, <2>2, <2>3, NoCallTyped, Moved
<1>5. ASSUME Leave(d) PROVE LInv'
  <2>1. progress' = [progress EXCEPT ![d] = [progress[d] EXCEPT !.pc = "leaving"]]
        /\ UNCHANGED <<call, waiting, linkCache>>
    BY <1>5 DEF Leave, LinkTyped
  <2>2. [progress[d] EXCEPT !.pc = "leaving"] \in Pos /\ [progress[d] EXCEPT !.pc = "leaving"].pc = "leaving"
    BY <1>0 DEF Pos
  <2>3. LinkTyped' /\ NotStarted'
    BY <2>1, <2>2 DEF LinkTyped, NotStarted
  <2>4. OneLeads' /\ InLine' /\ Full'
    BY <2>1, <2>3, Calm
  <2> QED
    BY <2>3, <2>4
<1> QED
  BY <1>1, <1>2, <1>3, <1>4, <1>5 DEF DownloadStep

LEMMA LInvInit ==
  ASSUME NEW s, NEW downloads, LinkInit(s, downloads)
  PROVE  LInv
<1>1. /\ progress = [d \in Download |-> [pc |-> IF d \in downloads THEN "idle" ELSE "absent", at |-> 0]]
      /\ call = [x \in Caller |-> NoCall] /\ waiting = <<>> /\ linkCache = NoLinks
  BY DEF LinkInit
<1>2. NoLinks \in [FileId -> Nat]
  BY LinkAssumption DEF NoLinks, Never
<1>3. LinkTyped
  BY <1>1, <1>2, NoCallTyped, LinkAssumption DEF LinkTyped, Pos
<1>4. NotStarted /\ OneLeads /\ InLine
  BY <1>1, MainTyped, NoCallTyped DEF NotStarted, OneLeads, InLine, Leading
<1>5. Holders = {}
  BY <1>1, NoCallTyped DEF Holders
<1>6. Full
  BY <1>1, <1>5, FS_EmptySet, LinkAssumption DEF Full
<1> QED
  BY <1>3, <1>4, <1>6 DEF LInv

LEMMA LInvSame ==
  ASSUME LInv, UNCHANGED linkVars
  PROVE  LInv'
BY DEF LInv, linkVars, LinkTyped, NotStarted, OneLeads, InLine, Full, Holders

LEMMA LInvStep ==
  ASSUME LInv, LinkNext
  PROVE  LInv'
<1>1. CASE TenMinutes
  <2>1. linkCache' \in [FileId -> Nat]
    BY <1>1 DEF TenMinutes, LInv, LinkTyped
  <2>2. UNCHANGED <<call, progress, waiting>>
    BY <1>1 DEF TenMinutes, Rest
  <2> QED
    BY <2>1, <2>2 DEF LInv, LinkTyped, NotStarted, OneLeads, InLine, Full, Holders
<1> QED
  BY <1>1, LookupKept, DownloadKept, LInvSame DEF LinkNext

-----------------------------------------------------------------------------
(* What is on the disk of a job.                                           *)

Runs == [pc : Kinds \cup {"idle", "zip", "clean", "begin", "entries", "drop", "throw"},
         n : 0 .. Parts]
Bulls == [st : {"none", "wait", "active", "failed"}, tries : Nat, stalled : BOOLEAN,
          by : Instance \cup {None}]
Crons == [pc : {"idle", "down", "loop", "remove", "mark"}, to : {"expired", "failed"},
          todo : SUBSET Job, cur : Job \cup {None}]
Calls == Job \X Instance \X (Kinds \cup {"mark"})

Typed ==
  /\ req \in [Job -> {"idle", "checked", "created", "answered"}]
  /\ status \in [Job -> InProgress \cup {"none", "ready", "failed", "expired"}]
  /\ due \subseteq Job /\ old \subseteq Job /\ events \subseteq Job
  /\ calls \subseteq Calls
  /\ cron \in Crons /\ (cron.pc \in {"remove", "mark"} => cron.cur \in Job)
  /\ queue \in [Job -> Bulls]
  /\ disk \in [Job -> SUBSET (1 .. Parts)]
  /\ run \in [Job -> [Instance -> Runs]]

\* Each owner has its own way to hear of a job.
Ways ==
  /\ owner \in {"go", "nest", "links"}
  /\ owner # "nest" => \A j \in Job : queue[j].st = "none"
  /\ owner # "go" =>
       calls = {} /\ events = {} /\ \A j \in Job, i \in Instance : run[j][i].pc \notin Kinds

\* Nobody works on the job, or will.
Busy(j, i) == run[j][i] # NoRun \/ \E k \in Kinds \cup {"mark"} : <<j, i, k>> \in calls
Quiet(j) ==
  j \notin events /\ queue[j].st \notin {"wait", "active"} /\ \A i \in Instance : ~Busy(j, i)

Early(j) == req[j] \in {"idle", "checked", "created"}
NotBegun == \A j \in Job : Early(j) => Quiet(j)
Over ==
  \A j \in Job \ overtaken : status[j] = "ready" =>
    ~Early(j) /\ Quiet(j) /\ (j \in due \/ disk[j] = 1 .. Parts)

\* One instance is at work, the one that has the job.
OneInGo ==
  owner = "go" => \A j \in Job, i \in Instance : Busy(j, i) =>
    j \notin events /\ \A l \in Instance : Busy(j, l) => l = i
OneInNest ==
  owner = "nest" => \A j \in Job \ overtaken, i \in Instance : run[j][i] # NoRun =>
    queue[j].st = "active" /\ queue[j].by = i

\* What the core is to execute is what the worker waits for, unless it crashed.
Waited(k) == IF k = "mark" THEN "failed" ELSE k
MatchedAt(j, i) ==
  \A k \in Kinds \cup {"mark"} : <<j, i, k>> \in calls =>
    /\ run[j][i] = NoRun \/ run[j][i].pc = Waited(k)
    /\ \A l \in Kinds \cup {"mark"} : <<j, i, l>> \in calls => l = k
Matched == \A j \in Job \ overtaken, i \in Instance : MatchedAt(j, i)

\* What was written is there until the job is ready.
WrittenAt(j, i) ==
  /\ run[j][i].pc = "zip" => 1 .. run[j][i].n \subseteq disk[j]
  /\ <<j, i, "ready">> \in calls => disk[j] = 1 .. Parts
Written == \A j \in Job \ overtaken, i \in Instance : WrittenAt(j, i)

\* The cron removes what is due.
CronFits ==
  /\ cron.pc \in {"remove", "mark"} => cron.cur \notin cron.todo
  /\ cron.to = "failed" /\ cron.pc \in {"remove", "mark"} => cron.cur \in overtaken
  /\ cron.to = "expired" => \A j \in Job \ overtaken :
       j \in cron.todo \/ (cron.pc \in {"remove", "mark"} /\ j = cron.cur) =>
         j \in due /\ status[j] = "ready"

IInv == Typed /\ Ways /\ NotBegun /\ Over /\ OneInGo /\ OneInNest /\ Matched /\ Written /\ CronFits


-----------------------------------------------------------------------------
LEMMA RunSet ==
  ASSUME Typed, NEW j \in Job, NEW i \in Instance, NEW n \in 0 .. Parts,
         NEW p \in Kinds \cup {"idle", "zip", "clean", "begin", "entries", "drop", "throw"},
         SetRun(j, i, p, n)
  PROVE  /\ run' \in [Job -> [Instance -> Runs]]
         /\ run'[j][i] = [pc |-> p, n |-> n]
         /\ \A k \in Job, l \in Instance : k # j \/ l # i => run'[k][l] = run[k][l]
BY DEF SetRun, Typed, Runs

LEMMA RunAsked ==
  ASSUME Typed, NEW j \in Job, NEW i \in Instance,
         NEW p \in Kinds \cup {"idle", "zip", "clean", "begin", "entries", "drop", "throw"},
         SetRun(j, i, p, 0)
  PROVE  /\ run' \in [Job -> [Instance -> Runs]]
         /\ run'[j][i] = [pc |-> p, n |-> 0]
         /\ \A k \in Job, l \in Instance : k # j \/ l # i => run'[k][l] = run[k][l]
<1>1. 0 \in 0 .. Parts
  BY BoundsAssumption
<1> QED
  BY <1>1, RunSet

LEMMA QueueSet ==
  ASSUME Typed, NEW j \in Job, NEW i \in Instance, FinishJob(j, i) \/ RetryJob(j, i)
  PROVE  /\ queue' \in [Job -> Bulls]
         /\ \A k \in Job : k # j \/ queue[j].by # i => queue'[k] = queue[k]
         /\ queue[j].st = "none" => queue'[j].st \in {"none", "wait", "failed"}
<1>1. CASE FinishJob(j, i)
  BY <1>1 DEF FinishJob, Typed, Bulls, NoBull
<1>2. CASE RetryJob(j, i) /\ queue[j].by # i
  BY <1>2 DEF RetryJob, FinishJob, Typed, Bulls
<1>3. CASE RetryJob(j, i) /\ queue[j].by = i
  <2> DEFINE st == IF queue[j].tries = 0 THEN "wait" ELSE "failed"
  <2>1. queue' = [queue EXCEPT ![j] = [queue[j] EXCEPT !.tries = queue[j].tries + 1, !.by = None, !.st = st]]
    BY <1>3 DEF RetryJob, Typed
  <2>2. queue[j] \in Bulls
    BY DEF Typed
  <2>3. queue[j].tries + 1 \in Nat /\ st \in {"wait", "failed"}
    BY <2>2 DEF Bulls
  <2>4. PICK t \in Nat : t = queue[j].tries + 1
    BY <2>3
  <2> HIDE DEF st
  <2>5. [queue[j] EXCEPT !.tries = t, !.by = None, !.st = st] \in Bulls
    BY <2>2, <2>3 DEF Bulls
  <2>6. [queue[j] EXCEPT !.tries = t, !.by = None, !.st = st].st = st
    BY <2>2 DEF Bulls
  <2> QED
    BY <1>3, <2>1, <2>3, <2>4, <2>5, <2>6 DEF Typed
<1> QED
  BY <1>1, <1>2, <1>3

LEMMA TakenBack ==
  ASSUME Typed, NEW j \in Job, TakeBack(j)
  PROVE  /\ queue' \in [Job -> Bulls]
         /\ \A k \in Job : k # j => queue'[k] = queue[k]
         /\ queue'[j].by = None /\ queue'[j].st \in {"failed", "wait"}
<1> DEFINE st == IF queue[j].stalled THEN "failed" ELSE "wait"
<1>1. queue' = [queue EXCEPT ![j] = [queue[j] EXCEPT !.by = None, !.stalled = TRUE, !.st = st]]
  BY DEF TakeBack, Typed
<1>2. queue[j] \in Bulls
  BY DEF Typed
<1>3. [queue[j] EXCEPT !.by = None, !.stalled = TRUE, !.st = st] \in Bulls
  BY <1>2 DEF Bulls
<1>4. /\ [queue[j] EXCEPT !.by = None, !.stalled = TRUE, !.st = st].by = None
      /\ [queue[j] EXCEPT !.by = None, !.stalled = TRUE, !.st = st].st = st
  BY <1>2 DEF Bulls
<1> QED
  BY <1>1, <1>3, <1>4 DEF Typed

LEMMA Crashed ==
  ASSUME Typed, NEW i \in Instance, GoCrash(i)
  PROVE  /\ run' \in [Job -> [Instance -> Runs]] /\ queue' \in [Job -> Bulls]
         /\ \A k \in Job : run'[k][i] = NoRun
         /\ \A k \in Job, l \in Instance : l # i => run'[k][l] = run[k][l]
         /\ \A k \in Job : queue[k].by # i => queue'[k] = queue[k]
         /\ \A k \in Job : queue'[k].st = queue[k].st
<1>1. NoRun \in Runs
  BY BoundsAssumption DEF NoRun, Runs
<1>2. run' = [k \in Job |-> [run[k] EXCEPT ![i] = NoRun]]
  BY DEF GoCrash
<1>3. /\ run' \in [Job -> [Instance -> Runs]]
      /\ \A k \in Job : run'[k][i] = NoRun
      /\ \A k \in Job, l \in Instance : l # i => run'[k][l] = run[k][l]
  BY <1>1, <1>2 DEF Typed
<1>4. queue' = [k \in Job |-> IF queue[k].by = i THEN [queue[k] EXCEPT !.by = None] ELSE queue[k]]
  BY DEF GoCrash
<1>5. \A k \in Job : /\ [queue[k] EXCEPT !.by = None] \in Bulls
                     /\ [queue[k] EXCEPT !.by = None].st = queue[k].st
  <2>1. \A b \in Bulls : [b EXCEPT !.by = None] \in Bulls /\ [b EXCEPT !.by = None].st = b.st
    BY DEF Bulls
  <2> QED
    BY <2>1 DEF Typed
<1>6. /\ queue' \in [Job -> Bulls] /\ \A k \in Job : queue[k].by # i => queue'[k] = queue[k]
      /\ \A k \in Job : queue'[k].st = queue[k].st
  BY <1>4, <1>5 DEF Typed
<1> QED
  BY <1>3, <1>6


-----------------------------------------------------------------------------
(* A step of the work on a job.                                            *)

\* It is about one job and one instance, and does not take the job from the cron.
Frame(j, i) ==
  /\ UNCHANGED <<owner, req, cron>> /\ events \ {j} \subseteq events' /\ events' \subseteq events
  /\ \A k \in Job, l \in Instance : k # j \/ l # i =>
       /\ run'[k][l] = run[k][l]
       /\ \A c \in Kinds \cup {"mark"} : <<k, l, c>> \in calls' <=> <<k, l, c>> \in calls
  /\ \A k \in Job : k # j =>
       /\ status'[k] = status[k] /\ disk'[k] = disk[k] /\ queue'[k] = queue[k]
       /\ k \in due' <=> k \in due
  /\ overtaken \subseteq overtaken' /\ overtaken' \subseteq overtaken \cup {j}

Effect(j, i) ==
  /\ Busy(j, i) \/ Take(j, i) \/ TakeJob(j, i)
  /\ queue' = queue \/ run'[j][i] = NoRun \/ TakeJob(j, i)
  /\ MarkReady(j, i) \/ Finish(j, i) \/ status'[j] # "ready" \/ status[j] = "ready"

LEMMA WorkFrame ==
  ASSUME Typed, NEW j \in Job, NEW i \in Instance,
         Take(j, i) \/ TakeJob(j, i) \/ WorkerStep(j, i) \/ CallStep(j, i)
  PROVE  Frame(j, i) /\ Effect(j, i)
<1>Take. ASSUME Take(j, i) PROVE Frame(j, i) /\ Effect(j, i)
  <2>set. SetRun(j, i, "collect", 0)
    BY <1>Take DEF Take, Ask
  <2>run. /\ run' \in [Job -> [Instance -> Runs]] /\ run'[j][i] = [pc |-> "collect", n |-> 0]
          /\ \A k \in Job, l \in Instance : k # j \/ l # i => run'[k][l] = run[k][l]
    BY <2>set, RunAsked DEF Kinds
  <2>f. Frame(j, i)
    BY <1>Take, <2>run DEF Take, Ask, bull, setup, Frame, Typed, Calls
  <2>e. Effect(j, i)
    BY <1>Take, <2>run DEF Take, Ask, bull, setup, Effect, Busy, NoRun, Kinds, Typed, InProgress
  <2> QED
    BY <2>f, <2>e
<1>TakeJob. ASSUME TakeJob(j, i) PROVE Frame(j, i) /\ Effect(j, i)
  <2>set. SetRun(j, i, "begin", 0)
    BY <1>TakeJob DEF TakeJob
  <2>run. /\ run' \in [Job -> [Instance -> Runs]] /\ run'[j][i] = [pc |-> "begin", n |-> 0]
          /\ \A k \in Job, l \in Instance : k # j \/ l # i => run'[k][l] = run[k][l]
    BY <2>set, RunAsked DEF Kinds
  <2>f. Frame(j, i)
    BY <1>TakeJob, <2>run DEF TakeJob, core, setup, Frame, Typed, Calls
  <2>e. Effect(j, i)
    BY <1>TakeJob, <2>run DEF TakeJob, core, setup, Effect, Busy, NoRun, Kinds, Typed, InProgress
  <2> QED
    BY <2>f, <2>e
<1>OpenPart. ASSUME OpenPart(j, i) PROVE Frame(j, i) /\ Effect(j, i)
  <2>n. PICK n \in 0 .. Parts : n = run[j][i].n + 1
    BY <1>OpenPart, BoundsAssumption DEF OpenPart, Typed, Runs
  <2>set. SetRun(j, i, "zip", n)
    BY <1>OpenPart, <2>n DEF OpenPart
  <2>run. /\ run' \in [Job -> [Instance -> Runs]] /\ run'[j][i] = [pc |-> "zip", n |-> n]
          /\ \A k \in Job, l \in Instance : k # j \/ l # i => run'[k][l] = run[k][l]
    BY <2>n, <2>set DEF SetRun, Typed, Runs
  <2>f. Frame(j, i)
    BY <1>OpenPart, <2>run DEF OpenPart, core, bull, setup, Frame, Typed, Calls
  <2>e. Effect(j, i)
    BY <1>OpenPart, <2>run
    DEF OpenPart, core, bull, setup, Effect, Busy, NoRun, Kinds, Typed, InProgress
  <2> QED
    BY <2>f, <2>e
<1>ReportReady. ASSUME ReportReady(j, i) PROVE Frame(j, i) /\ Effect(j, i)
  <2>set. SetRun(j, i, "ready", 0)
    BY <1>ReportReady DEF ReportReady, Ask
  <2>run. /\ run' \in [Job -> [Instance -> Runs]] /\ run'[j][i] = [pc |-> "ready", n |-> 0]
          /\ \A k \in Job, l \in Instance : k # j \/ l # i => run'[k][l] = run[k][l]
    BY <2>set, RunAsked DEF Kinds
  <2>f. Frame(j, i)
    BY <1>ReportReady, <2>run DEF ReportReady, Ask, bull, setup, Frame, Typed, Calls
  <2>e. Effect(j, i)
    BY <1>ReportReady, <2>run
    DEF ReportReady, Ask, bull, setup, Effect, Busy, NoRun, Kinds, Typed, InProgress
  <2> QED
    BY <2>f, <2>e
<1>ZipFails. ASSUME ZipFails(j, i) PROVE Frame(j, i) /\ Effect(j, i)
  <2>set. SetRun(j, i, "failed", 0)
    BY <1>ZipFails DEF ZipFails, Ask
  <2>run. /\ run' \in [Job -> [Instance -> Runs]] /\ run'[j][i] = [pc |-> "failed", n |-> 0]
          /\ \A k \in Job, l \in Instance : k # j \/ l # i => run'[k][l] = run[k][l]
    BY <2>set, RunAsked DEF Kinds
  <2>f. Frame(j, i)
    BY <1>ZipFails, <2>run DEF ZipFails, Ask, bull, setup, Frame, Typed, Calls
  <2>e. Effect(j, i)
    BY <1>ZipFails, <2>run
    DEF ZipFails, Ask, bull, setup, Effect, Busy, NoRun, Kinds, Typed, InProgress
  <2> QED
    BY <2>f, <2>e
<1>GiveUp. ASSUME GiveUp(j, i) PROVE Frame(j, i) /\ Effect(j, i)
  <2>1. CASE run[j][i].pc = "failed"
    <3>set. SetRun(j, i, "clean", 0)
      BY <2>1, <1>GiveUp DEF GiveUp, Ask
    <3>run. /\ run' \in [Job -> [Instance -> Runs]] /\ run'[j][i] = [pc |-> "clean", n |-> 0]
            /\ \A k \in Job, l \in Instance : k # j \/ l # i => run'[k][l] = run[k][l]
      BY <3>set, RunAsked DEF Kinds
    <3>f. Frame(j, i)
      BY <2>1, <1>GiveUp, <3>run DEF GiveUp, Ask, setup, Frame, Typed, Calls
    <3>e. Effect(j, i)
      BY <2>1, <1>GiveUp, <3>run
      DEF GiveUp, Ask, setup, Effect, Busy, NoRun, Kinds, Typed, InProgress
    <3> QED
      BY <3>f, <3>e
  <2>2. CASE run[j][i].pc # "failed"
    <3>set. SetRun(j, i, "failed", 0)
      BY <2>2, <1>GiveUp DEF GiveUp, Ask
    <3>run. /\ run' \in [Job -> [Instance -> Runs]] /\ run'[j][i] = [pc |-> "failed", n |-> 0]
            /\ \A k \in Job, l \in Instance : k # j \/ l # i => run'[k][l] = run[k][l]
      BY <3>set, RunAsked DEF Kinds
    <3>f. Frame(j, i)
      BY <2>2, <1>GiveUp, <3>run DEF GiveUp, Ask, setup, Frame, Typed, Calls
    <3>e. Effect(j, i)
      BY <2>2, <1>GiveUp, <3>run
      DEF GiveUp, Ask, setup, Effect, Busy, NoRun, Kinds, Typed, InProgress
    <3> QED
      BY <3>f, <3>e
  <2> QED
    BY <2>1, <2>2
<1>Cleanup. ASSUME Cleanup(j, i) PROVE Frame(j, i) /\ Effect(j, i)
  <2>set. SetRun(j, i, "idle", 0)
    BY <1>Cleanup DEF Cleanup
  <2>run. /\ run' \in [Job -> [Instance -> Runs]] /\ run'[j][i] = [pc |-> "idle", n |-> 0]
          /\ \A k \in Job, l \in Instance : k # j \/ l # i => run'[k][l] = run[k][l]
    BY <2>set, RunAsked DEF Kinds
  <2>f. Frame(j, i)
    BY <1>Cleanup, <2>run DEF Cleanup, core, bull, setup, Frame, Typed, Calls
  <2>e. Effect(j, i)
    BY <1>Cleanup, <2>run
    DEF Cleanup, core, bull, setup, Effect, Busy, NoRun, Kinds, Typed, InProgress
  <2> QED
    BY <2>f, <2>e
<1>Begin. ASSUME Begin(j, i) PROVE Frame(j, i) /\ Effect(j, i)
  <2>set. SetRun(j, i, "entries", 0)
    BY <1>Begin DEF Begin, Progress, At
  <2>run. /\ run' \in [Job -> [Instance -> Runs]] /\ run'[j][i] = [pc |-> "entries", n |-> 0]
          /\ \A k \in Job, l \in Instance : k # j \/ l # i => run'[k][l] = run[k][l]
    BY <2>set, RunAsked DEF Kinds
  <2>f. Frame(j, i)
    BY <1>Begin, <2>run DEF Begin, Progress, At, bull, setup, Frame, Typed, Calls
  <2>e. Effect(j, i)
    BY <1>Begin, <2>run
    DEF Begin, Progress, At, bull, setup, Effect, Busy, NoRun, Kinds, Typed, InProgress
  <2> QED
    BY <2>f, <2>e
<1>CollectFiles. ASSUME CollectFiles(j, i) PROVE Frame(j, i) /\ Effect(j, i)
  <2>set. SetRun(j, i, "zip", 0)
    BY <1>CollectFiles DEF CollectFiles, Progress, At
  <2>run. /\ run' \in [Job -> [Instance -> Runs]] /\ run'[j][i] = [pc |-> "zip", n |-> 0]
          /\ \A k \in Job, l \in Instance : k # j \/ l # i => run'[k][l] = run[k][l]
    BY <2>set, RunAsked DEF Kinds
  <2>f. Frame(j, i)
    BY <1>CollectFiles, <2>run DEF CollectFiles, Progress, At, bull, setup, Frame, Typed, Calls
  <2>e. Effect(j, i)
    BY <1>CollectFiles, <2>run
    DEF CollectFiles, Progress, At, bull, setup, Effect, Busy, NoRun, Kinds, Typed, InProgress
  <2> QED
    BY <2>f, <2>e
<1>NoFiles. ASSUME NoFiles(j, i) PROVE Frame(j, i) /\ Effect(j, i)
  <2>set. SetRun(j, i, "idle", 0)
    BY <1>NoFiles DEF NoFiles, At
  <2>run. /\ run' \in [Job -> [Instance -> Runs]] /\ run'[j][i] = [pc |-> "idle", n |-> 0]
          /\ \A k \in Job, l \in Instance : k # j \/ l # i => run'[k][l] = run[k][l]
    BY <2>set, RunAsked DEF Kinds
  <2>f. Frame(j, i)
    BY <1>NoFiles, <2>run, QueueSet DEF NoFiles, At, setup, Frame, Typed, Calls
  <2>e. Effect(j, i)
    BY <1>NoFiles, <2>run DEF NoFiles, At, setup, Effect, Busy, NoRun, Kinds, Typed, InProgress
  <2> QED
    BY <2>f, <2>e
<1>BeginPart. ASSUME BeginPart(j, i) PROVE Frame(j, i) /\ Effect(j, i)
  <2>n. PICK n \in 0 .. Parts : n = run[j][i].n + 1
    BY <1>BeginPart, BoundsAssumption DEF BeginPart, At, Typed, Runs
  <2>set. SetRun(j, i, "zip", n)
    BY <1>BeginPart, <2>n DEF BeginPart, At
  <2>run. /\ run' \in [Job -> [Instance -> Runs]] /\ run'[j][i] = [pc |-> "zip", n |-> n]
          /\ \A k \in Job, l \in Instance : k # j \/ l # i => run'[k][l] = run[k][l]
    BY <2>n, <2>set DEF SetRun, Typed, Runs
  <2>f. Frame(j, i)
    BY <1>BeginPart, <2>run DEF BeginPart, At, core, bull, setup, Frame, Typed, Calls
  <2>e. Effect(j, i)
    BY <1>BeginPart, <2>run
    DEF BeginPart, At, core, bull, setup, Effect, Busy, NoRun, Kinds, Typed, InProgress
  <2> QED
    BY <2>f, <2>e
<1>Finish. ASSUME Finish(j, i) PROVE Frame(j, i) /\ Effect(j, i)
  <2>set. SetRun(j, i, "idle", 0)
    BY <1>Finish DEF Finish, FinishAt, At
  <2>run. /\ run' \in [Job -> [Instance -> Runs]] /\ run'[j][i] = [pc |-> "idle", n |-> 0]
          /\ \A k \in Job, l \in Instance : k # j \/ l # i => run'[k][l] = run[k][l]
    BY <2>set, RunAsked DEF Kinds
  <2>f. Frame(j, i)
    BY <1>Finish, <2>run, QueueSet DEF Finish, FinishAt, At, setup, Frame, Typed, Calls
  <2>e. Effect(j, i)
    BY <1>Finish, <2>run
    DEF Finish, FinishAt, At, setup, Effect, Busy, NoRun, Kinds, Typed, InProgress
  <2> QED
    BY <2>f, <2>e
<1>Catch. ASSUME Catch(j, i) PROVE Frame(j, i) /\ Effect(j, i)
  <2>set. SetRun(j, i, "drop", 0)
    BY <1>Catch DEF Catch
  <2>run. /\ run' \in [Job -> [Instance -> Runs]] /\ run'[j][i] = [pc |-> "drop", n |-> 0]
          /\ \A k \in Job, l \in Instance : k # j \/ l # i => run'[k][l] = run[k][l]
    BY <2>set, RunAsked DEF Kinds
  <2>f. Frame(j, i)
    BY <1>Catch, <2>run DEF Catch, core, bull, setup, Frame, Typed, Calls
  <2>e. Effect(j, i)
    BY <1>Catch, <2>run DEF Catch, core, bull, setup, Effect, Busy, NoRun, Kinds, Typed, InProgress
  <2> QED
    BY <2>f, <2>e
<1>Drop. ASSUME Drop(j, i) PROVE Frame(j, i) /\ Effect(j, i)
  <2>set. SetRun(j, i, "throw", 0)
    BY <1>Drop DEF Drop, At
  <2>run. /\ run' \in [Job -> [Instance -> Runs]] /\ run'[j][i] = [pc |-> "throw", n |-> 0]
          /\ \A k \in Job, l \in Instance : k # j \/ l # i => run'[k][l] = run[k][l]
    BY <2>set, RunAsked DEF Kinds
  <2>f. Frame(j, i)
    BY <1>Drop, <2>run DEF Drop, At, core, bull, setup, Frame, Typed, Calls
  <2>e. Effect(j, i)
    BY <1>Drop, <2>run
    DEF Drop, At, core, bull, setup, Effect, Busy, NoRun, Kinds, Typed, InProgress
  <2> QED
    BY <2>f, <2>e
<1>Throw. ASSUME Throw(j, i) PROVE Frame(j, i) /\ Effect(j, i)
  <2>set. SetRun(j, i, "idle", 0)
    BY <1>Throw DEF Throw, At
  <2>run. /\ run' \in [Job -> [Instance -> Runs]] /\ run'[j][i] = [pc |-> "idle", n |-> 0]
          /\ \A k \in Job, l \in Instance : k # j \/ l # i => run'[k][l] = run[k][l]
    BY <2>set, RunAsked DEF Kinds
  <2>f. Frame(j, i)
    BY <1>Throw, <2>run, QueueSet DEF Throw, At, setup, Frame, Typed, Calls
  <2>e. Effect(j, i)
    BY <1>Throw, <2>run DEF Throw, At, setup, Effect, Busy, NoRun, Kinds, Typed, InProgress
  <2> QED
    BY <2>f, <2>e
<1>Collect. ASSUME Collect(j, i) PROVE Frame(j, i) /\ Effect(j, i)
  <2>1. CASE run[j][i].pc = "collect"
    <3>set. SetRun(j, i, "zip", 0)
      BY <2>1, <1>Collect DEF Collect, Answer
    <3>run. /\ run' \in [Job -> [Instance -> Runs]] /\ run'[j][i] = [pc |-> "zip", n |-> 0]
            /\ \A k \in Job, l \in Instance : k # j \/ l # i => run'[k][l] = run[k][l]
      BY <3>set, RunAsked DEF Kinds
    <3>f. Frame(j, i)
      BY <2>1, <1>Collect, <3>run DEF Collect, Answer, bull, setup, Frame, Typed, Calls
    <3>e. Effect(j, i)
      BY <2>1, <1>Collect, <3>run
      DEF Collect, Answer, bull, setup, Effect, Busy, NoRun, Kinds, Typed, InProgress
    <3> QED
      BY <3>f, <3>e
  <2>2. CASE run[j][i].pc # "collect"
    <3>f. Frame(j, i)
      BY <2>2, <1>Collect DEF Collect, Answer, bull, setup, Frame, Typed, Calls
    <3>e. Effect(j, i)
      BY <2>2, <1>Collect
      DEF Collect, Answer, bull, setup, Effect, Busy, NoRun, Kinds, Typed, InProgress
    <3> QED
      BY <3>f, <3>e
  <2> QED
    BY <2>1, <2>2
<1>MarkReady. ASSUME MarkReady(j, i) PROVE Frame(j, i) /\ Effect(j, i)
  <2>1. CASE run[j][i].pc = "ready"
    <3>set. SetRun(j, i, "idle", 0)
      BY <2>1, <1>MarkReady DEF MarkReady, Answer
    <3>run. /\ run' \in [Job -> [Instance -> Runs]] /\ run'[j][i] = [pc |-> "idle", n |-> 0]
            /\ \A k \in Job, l \in Instance : k # j \/ l # i => run'[k][l] = run[k][l]
      BY <3>set, RunAsked DEF Kinds
    <3>f. Frame(j, i)
      BY <2>1, <1>MarkReady, <3>run DEF MarkReady, Answer, bull, setup, Frame, Typed, Calls
    <3>e. Effect(j, i)
      BY <2>1, <1>MarkReady, <3>run
      DEF MarkReady, Answer, bull, setup, Effect, Busy, NoRun, Kinds, Typed, InProgress
    <3> QED
      BY <3>f, <3>e
  <2>2. CASE run[j][i].pc # "ready"
    <3>f. Frame(j, i)
      BY <2>2, <1>MarkReady DEF MarkReady, Answer, bull, setup, Frame, Typed, Calls
    <3>e. Effect(j, i)
      BY <2>2, <1>MarkReady
      DEF MarkReady, Answer, bull, setup, Effect, Busy, NoRun, Kinds, Typed, InProgress
    <3> QED
      BY <3>f, <3>e
  <2> QED
    BY <2>1, <2>2
<1>MarkFailedClean. ASSUME MarkFailedClean(j, i) PROVE Frame(j, i) /\ Effect(j, i)
  <2>f. Frame(j, i)
    BY <1>MarkFailedClean DEF MarkFailedClean, bull, setup, Frame, Typed, Calls
  <2>e. Effect(j, i)
    BY <1>MarkFailedClean
    DEF MarkFailedClean, bull, setup, Effect, Busy, NoRun, Kinds, Typed, InProgress
  <2> QED
    BY <2>f, <2>e
<1>MarkFailed. ASSUME MarkFailed(j, i) PROVE Frame(j, i) /\ Effect(j, i)
  <2>1. CASE run[j][i].pc = "failed"
    <3>set. SetRun(j, i, "clean", 0)
      BY <2>1, <1>MarkFailed DEF MarkFailed, Answer
    <3>run. /\ run' \in [Job -> [Instance -> Runs]] /\ run'[j][i] = [pc |-> "clean", n |-> 0]
            /\ \A k \in Job, l \in Instance : k # j \/ l # i => run'[k][l] = run[k][l]
      BY <3>set, RunAsked DEF Kinds
    <3>f. Frame(j, i)
      BY <2>1, <1>MarkFailed, <3>run DEF MarkFailed, Answer, bull, setup, Frame, Typed, Calls
    <3>e. Effect(j, i)
      BY <2>1, <1>MarkFailed, <3>run
      DEF MarkFailed, Answer, bull, setup, Effect, Busy, NoRun, Kinds, Typed, InProgress
    <3> QED
      BY <3>f, <3>e
  <2>2. CASE run[j][i].pc # "failed"
    <3>f. Frame(j, i)
      BY <2>2, <1>MarkFailed DEF MarkFailed, Answer, bull, setup, Frame, Typed, Calls
    <3>e. Effect(j, i)
      BY <2>2, <1>MarkFailed
      DEF MarkFailed, Answer, bull, setup, Effect, Busy, NoRun, Kinds, Typed, InProgress
    <3> QED
      BY <3>f, <3>e
  <2> QED
    BY <2>1, <2>2
<1> QED
  BY <1>Take, <1>TakeJob, <1>OpenPart, <1>ReportReady, <1>ZipFails, <1>GiveUp, <1>Cleanup, <1>Begin,
     <1>CollectFiles, <1>NoFiles, <1>BeginPart, <1>Finish, <1>Catch, <1>Drop, <1>Throw, <1>Collect,
     <1>MarkReady, <1>MarkFailedClean, <1>MarkFailed DEF WorkerStep, CallStep


\* Whom it is about: the job is neither new nor done, and nobody else works on it.
LEMMA Chosen ==
  ASSUME IInv, owner # "links", NEW j \in Job, NEW i \in Instance, Frame(j, i), Effect(j, i)
  PROVE  /\ ~Early(j) /\ (j \notin overtaken => status[j] # "ready")
         /\ owner = "go" => j \notin events' /\ \A l \in Instance : l # i => ~Busy(j, l)
         /\ j \notin overtaken => \A l \in Instance : l # i => ~Busy(j, l)
<1> USE DEF IInv
<1>1. CASE Busy(j, i)
  <2>1. ~Early(j) /\ (j \notin overtaken => status[j] # "ready")
    BY <1>1 DEF NotBegun, Over, Quiet
  <2>2. owner = "go" => j \notin events' /\ \A l \in Instance : l # i => ~Busy(j, l)
    BY <1>1 DEF OneInGo, Frame
  <2>3. owner = "nest" /\ j \notin overtaken => \A l \in Instance : l # i => ~Busy(j, l)
    BY <1>1 DEF OneInNest, Ways, Busy
  <2> QED
    BY <2>1, <2>2, <2>3 DEF Ways
<1>2. CASE Take(j, i)
  <2>1. j \in events /\ j \notin events' /\ owner = "go"
    BY <1>2 DEF Take, Ways
  <2> QED
    BY <2>1 DEF NotBegun, Over, Quiet, OneInGo, Ways
<1>3. CASE TakeJob(j, i)
  <2>1. queue[j].st = "wait" /\ owner = "nest"
    BY <1>3 DEF TakeJob, Ways
  <2> QED
    BY <2>1 DEF NotBegun, Over, Quiet, OneInNest, Ways, Busy
<1> QED
  BY <1>1, <1>2, <1>3 DEF Effect

LEMMA CrashQuiet ==
  ASSUME Typed, NEW i \in Instance, GoCrash(i)
  PROVE  /\ \A k \in Job, l \in Instance : Busy(k, l)' => Busy(k, l)
         /\ \A k \in Job : Quiet(k) => Quiet(k)'
<1>1. UNCHANGED <<calls, events>>
  BY DEF GoCrash, core
<1>2. \A k \in Job, l \in Instance : run'[k][l] = NoRun \/ run'[k][l] = run[k][l]
  BY Crashed
<1>3. \A k \in Job, l \in Instance : Busy(k, l)' => Busy(k, l)
  BY <1>1, <1>2 DEF Busy
<1>4. \A k \in Job : queue'[k].st = queue[k].st
  BY Crashed
<1> QED
  BY <1>1, <1>3, <1>4 DEF Quiet

LEMMA FrameBusy ==
  ASSUME NEW j \in Job, NEW i \in Instance, Frame(j, i)
  PROVE  \A k \in Job, l \in Instance : k # j \/ l # i => (Busy(k, l)' <=> Busy(k, l))
BY DEF Frame, Busy

LEMMA TypedKept ==
  ASSUME IInv, ZipNext, owner # "links"
  PROVE  Typed'
<1> USE DEF IInv
<1>CheckJob. ASSUME NEW j \in Job, CheckJob(j) PROVE Typed'
  <2>req. req' \in [Job -> {"idle", "checked", "created", "answered"}]
    BY <1>CheckJob DEF CheckJob, Typed
  <2>same. UNCHANGED <<status, due, old, events, calls, cron, queue, disk, run>>
    BY <1>CheckJob DEF CheckJob, bull, setup
  <2> QED
    BY <2>req, <2>same DEF Typed
<1>CheckSharedJob. ASSUME NEW j \in Job, CheckSharedJob(j) PROVE Typed'
  <2>req. req' \in [Job -> {"idle", "checked", "created", "answered"}]
    BY <1>CheckSharedJob DEF CheckSharedJob, Typed
  <2>same. UNCHANGED <<status, due, old, events, calls, cron, queue, disk, run>>
    BY <1>CheckSharedJob DEF CheckSharedJob, bull, setup
  <2> QED
    BY <2>req, <2>same DEF Typed
<1>CreateJob. ASSUME NEW j \in Job, CreateJob(j) PROVE Typed'
  <2>req. req' \in [Job -> {"idle", "checked", "created", "answered"}]
    BY <1>CreateJob DEF CreateJob, Typed
  <2>status. status' \in [Job -> InProgress \cup {"none", "ready", "failed", "expired"}]
    BY <1>CreateJob DEF CreateJob, Typed, InProgress, Crons
  <2>same. UNCHANGED <<due, old, events, calls, cron, queue, disk, run>>
    BY <1>CreateJob DEF CreateJob, bull, setup
  <2> QED
    BY <2>req, <2>status, <2>same DEF Typed
<1>Dispatch. ASSUME NEW j \in Job, Dispatch(j) PROVE Typed'
  <2>req. req' \in [Job -> {"idle", "checked", "created", "answered"}]
    BY <1>Dispatch DEF Dispatch, Typed
  <2>events. events' \subseteq Job
    BY <1>Dispatch DEF Dispatch, Typed
  <2>same. UNCHANGED <<status, due, old, calls, cron, queue, disk, run>>
    BY <1>Dispatch DEF Dispatch, bull, setup
  <2> QED
    BY <2>req, <2>events, <2>same DEF Typed
<1>AddJob. ASSUME NEW j \in Job, AddJob(j) PROVE Typed'
  <2>req. req' \in [Job -> {"idle", "checked", "created", "answered"}]
    BY <1>AddJob DEF AddJob, Typed
  <2>queue. queue' \in [Job -> Bulls]
    <3>1. queue' \in {queue, [queue EXCEPT ![j] = [queue[j] EXCEPT !.st = "wait"]]}
      BY <1>AddJob DEF AddJob, Typed
    <3>2. \A b \in Bulls : [b EXCEPT !.st = "wait"] \in Bulls
      BY DEF Bulls
    <3> QED
      BY <3>1, <3>2 DEF Typed
  <2>same. UNCHANGED <<status, due, old, events, calls, cron, disk, run>>
    BY <1>AddJob DEF AddJob, setup
  <2> QED
    BY <2>req, <2>queue, <2>same DEF Typed
<1>GetsDue. ASSUME NEW j \in Job, GetsDue(j) PROVE Typed'
  <2>due. due' \subseteq Job
    BY <1>GetsDue DEF GetsDue, Typed
  <2>same. UNCHANGED <<req, status, old, events, calls, cron, queue, disk, run>>
    BY <1>GetsDue DEF GetsDue, bull, setup
  <2> QED
    BY <2>due, <2>same DEF Typed
<1>GetsOld. ASSUME NEW j \in Job, GetsOld(j) PROVE Typed'
  <2>old. old' \subseteq Job
    BY <1>GetsOld DEF GetsOld, Typed
  <2>same. UNCHANGED <<req, status, due, events, calls, cron, queue, disk, run>>
    BY <1>GetsOld DEF GetsOld, bull, setup
  <2> QED
    BY <2>old, <2>same DEF Typed
<1>Stall. ASSUME NEW j \in Job, Stall(j) PROVE Typed'
  <2>queue. queue' \in [Job -> Bulls]
    BY <1>Stall, TakenBack DEF Stall, Typed
  <2>same. UNCHANGED <<req, status, due, old, events, calls, cron, disk, run>>
    BY <1>Stall DEF Stall, core, setup
  <2> QED
    BY <2>queue, <2>same DEF Typed
<1>FindStalled. ASSUME NEW j \in Job, FindStalled(j) PROVE Typed'
  <2>queue. queue' \in [Job -> Bulls]
    BY <1>FindStalled, TakenBack DEF FindStalled, Typed
  <2>same. UNCHANGED <<req, status, due, old, events, calls, cron, disk, run>>
    BY <1>FindStalled DEF FindStalled, core, setup
  <2> QED
    BY <2>queue, <2>same DEF Typed
<1>Take. ASSUME NEW j \in Job, NEW i \in Instance, Take(j, i) PROVE Typed'
  <2>events. events' \subseteq Job
    BY <1>Take DEF Take, Typed, Ask
  <2>calls. calls' \subseteq Calls
    BY <1>Take DEF Take, Typed, Calls, Kinds, Ask
  <2>set. SetRun(j, i, "collect", 0)
    BY <1>Take DEF Take, Ask
  <2>run. run' \in [Job -> [Instance -> Runs]]
    BY <2>set, RunAsked DEF Kinds
  <2>same. UNCHANGED <<req, status, due, old, cron, queue, disk>>
    BY <1>Take DEF Take, bull, setup, Ask
  <2> QED
    BY <2>events, <2>calls, <2>run, <2>same DEF Typed
<1>TakeJob. ASSUME NEW j \in Job, NEW i \in Instance, TakeJob(j, i) PROVE Typed'
  <2>queue. queue' \in [Job -> Bulls]
    <3>1. queue' = [queue EXCEPT ![j] = [queue[j] EXCEPT !.st = "active", !.by = i]]
      BY <1>TakeJob DEF TakeJob, Typed
    <3>2. queue[j] \in Bulls
      BY DEF Typed
    <3>3. [queue[j] EXCEPT !.st = "active", !.by = i] \in Bulls
      BY <3>2 DEF Bulls
    <3> QED
      BY <3>1, <3>3 DEF Typed
  <2>set. SetRun(j, i, "begin", 0)
    BY <1>TakeJob DEF TakeJob
  <2>run. run' \in [Job -> [Instance -> Runs]]
    BY <2>set, RunAsked DEF Kinds
  <2>same. UNCHANGED <<req, status, due, old, events, calls, cron, disk>>
    BY <1>TakeJob DEF TakeJob, core, setup
  <2> QED
    BY <2>queue, <2>run, <2>same DEF Typed
<1>OpenPart. ASSUME NEW j \in Job, NEW i \in Instance, OpenPart(j, i) PROVE Typed'
  <2>disk. disk' \in [Job -> SUBSET (1 .. Parts)]
    BY <1>OpenPart, BoundsAssumption DEF OpenPart, Typed, Runs
  <2>set. SetRun(j, i, "zip", run[j][i].n + 1)
    BY <1>OpenPart DEF OpenPart
  <2>n. run[j][i].n + 1 \in 0 .. Parts
    BY <1>OpenPart, BoundsAssumption DEF OpenPart, Typed, Runs
  <2>run. run' \in [Job -> [Instance -> Runs]]
    BY <2>set, <2>n, RunSet DEF Kinds
  <2>same. UNCHANGED <<req, status, due, old, events, calls, cron, queue>>
    BY <1>OpenPart DEF OpenPart, core, bull, setup
  <2> QED
    BY <2>disk, <2>run, <2>same DEF Typed
<1>ReportReady. ASSUME NEW j \in Job, NEW i \in Instance, ReportReady(j, i) PROVE Typed'
  <2>calls. calls' \subseteq Calls
    BY <1>ReportReady DEF ReportReady, Typed, Calls, Kinds, Ask
  <2>set. SetRun(j, i, "ready", 0)
    BY <1>ReportReady DEF ReportReady, Ask
  <2>run. run' \in [Job -> [Instance -> Runs]]
    BY <2>set, RunAsked DEF Kinds
  <2>same. UNCHANGED <<req, status, due, old, events, cron, queue, disk>>
    BY <1>ReportReady DEF ReportReady, bull, setup, Ask
  <2> QED
    BY <2>calls, <2>run, <2>same DEF Typed
<1>ZipFails. ASSUME NEW j \in Job, NEW i \in Instance, ZipFails(j, i) PROVE Typed'
  <2>calls. calls' \subseteq Calls
    BY <1>ZipFails DEF ZipFails, Typed, Calls, Kinds, Ask
  <2>set. SetRun(j, i, "failed", 0)
    BY <1>ZipFails DEF ZipFails, Ask
  <2>run. run' \in [Job -> [Instance -> Runs]]
    BY <2>set, RunAsked DEF Kinds
  <2>same. UNCHANGED <<req, status, due, old, events, cron, queue, disk>>
    BY <1>ZipFails DEF ZipFails, bull, setup, Ask
  <2> QED
    BY <2>calls, <2>run, <2>same DEF Typed
<1>GiveUp. ASSUME NEW j \in Job, NEW i \in Instance, GiveUp(j, i) PROVE Typed'
  <2>calls. calls' \subseteq Calls
    BY <1>GiveUp DEF GiveUp, Typed, Calls, Kinds, Ask
  <2>run. run' \in [Job -> [Instance -> Runs]]
    <3>1. SetRun(j, i, "clean", 0) \/ SetRun(j, i, "failed", 0)
      BY <1>GiveUp DEF GiveUp, Ask
    <3> QED
      BY <3>1, RunAsked DEF Kinds
  <2>same. UNCHANGED <<req, status, due, old, events, cron, queue, disk>>
    BY <1>GiveUp DEF GiveUp, setup, Ask
  <2> QED
    BY <2>calls, <2>run, <2>same DEF Typed
<1>Cleanup. ASSUME NEW j \in Job, NEW i \in Instance, Cleanup(j, i) PROVE Typed'
  <2>disk. disk' \in [Job -> SUBSET (1 .. Parts)]
    BY <1>Cleanup, BoundsAssumption DEF Cleanup, Typed
  <2>set. SetRun(j, i, "idle", 0)
    BY <1>Cleanup DEF Cleanup
  <2>run. run' \in [Job -> [Instance -> Runs]]
    BY <2>set, RunAsked DEF Kinds
  <2>same. UNCHANGED <<req, status, due, old, events, calls, cron, queue>>
    BY <1>Cleanup DEF Cleanup, core, bull, setup
  <2> QED
    BY <2>disk, <2>run, <2>same DEF Typed
<1>Begin. ASSUME NEW j \in Job, NEW i \in Instance, Begin(j, i) PROVE Typed'
  <2>status. status' \in [Job -> InProgress \cup {"none", "ready", "failed", "expired"}]
    BY <1>Begin DEF Begin, Progress, At, Typed, InProgress, Crons
  <2>set. SetRun(j, i, "entries", 0)
    BY <1>Begin DEF Begin, Progress, At
  <2>run. run' \in [Job -> [Instance -> Runs]]
    BY <2>set, RunAsked DEF Kinds
  <2>same. UNCHANGED <<req, due, old, events, calls, cron, queue, disk>>
    BY <1>Begin DEF Begin, Progress, At, bull, setup
  <2> QED
    BY <2>status, <2>run, <2>same DEF Typed
<1>CollectFiles. ASSUME NEW j \in Job, NEW i \in Instance, CollectFiles(j, i) PROVE Typed'
  <2>status. status' \in [Job -> InProgress \cup {"none", "ready", "failed", "expired"}]
    BY <1>CollectFiles DEF CollectFiles, Progress, At, Typed, InProgress, Crons
  <2>set. SetRun(j, i, "zip", 0)
    BY <1>CollectFiles DEF CollectFiles, Progress, At
  <2>run. run' \in [Job -> [Instance -> Runs]]
    BY <2>set, RunAsked DEF Kinds
  <2>same. UNCHANGED <<req, due, old, events, calls, cron, queue, disk>>
    BY <1>CollectFiles DEF CollectFiles, Progress, At, bull, setup
  <2> QED
    BY <2>status, <2>run, <2>same DEF Typed
<1>NoFiles. ASSUME NEW j \in Job, NEW i \in Instance, NoFiles(j, i) PROVE Typed'
  <2>status. status' \in [Job -> InProgress \cup {"none", "ready", "failed", "expired"}]
    BY <1>NoFiles DEF NoFiles, At, Typed, InProgress, Crons
  <2>queue. queue' \in [Job -> Bulls]
    BY <1>NoFiles, QueueSet DEF NoFiles, At, Typed
  <2>set. SetRun(j, i, "idle", 0)
    BY <1>NoFiles DEF NoFiles, At
  <2>run. run' \in [Job -> [Instance -> Runs]]
    BY <2>set, RunAsked DEF Kinds
  <2>same. UNCHANGED <<req, due, old, events, calls, cron, disk>>
    BY <1>NoFiles DEF NoFiles, At, setup
  <2> QED
    BY <2>status, <2>queue, <2>run, <2>same DEF Typed
<1>BeginPart. ASSUME NEW j \in Job, NEW i \in Instance, BeginPart(j, i) PROVE Typed'
  <2>disk. disk' \in [Job -> SUBSET (1 .. Parts)]
    BY <1>BeginPart, BoundsAssumption DEF BeginPart, At, Typed, Runs
  <2>set. SetRun(j, i, "zip", run[j][i].n + 1)
    BY <1>BeginPart DEF BeginPart, At
  <2>n. run[j][i].n + 1 \in 0 .. Parts
    BY <1>BeginPart, BoundsAssumption DEF BeginPart, At, Typed, Runs
  <2>run. run' \in [Job -> [Instance -> Runs]]
    BY <2>set, <2>n, RunSet DEF Kinds
  <2>same. UNCHANGED <<req, status, due, old, events, calls, cron, queue>>
    BY <1>BeginPart DEF BeginPart, At, core, bull, setup
  <2> QED
    BY <2>disk, <2>run, <2>same DEF Typed
<1>Finish. ASSUME NEW j \in Job, NEW i \in Instance, Finish(j, i) PROVE Typed'
  <2>status. status' \in [Job -> InProgress \cup {"none", "ready", "failed", "expired"}]
    BY <1>Finish DEF Finish, FinishAt, At, Typed, InProgress, Crons
  <2>due. due' \subseteq Job
    BY <1>Finish DEF Finish, FinishAt, At, Typed
  <2>queue. queue' \in [Job -> Bulls]
    BY <1>Finish, QueueSet DEF Finish, FinishAt, At, Typed
  <2>set. SetRun(j, i, "idle", 0)
    BY <1>Finish DEF Finish, FinishAt, At
  <2>run. run' \in [Job -> [Instance -> Runs]]
    BY <2>set, RunAsked DEF Kinds
  <2>same. UNCHANGED <<req, old, events, calls, cron, disk>>
    BY <1>Finish DEF Finish, FinishAt, At, setup
  <2> QED
    BY <2>status, <2>due, <2>queue, <2>run, <2>same DEF Typed
<1>Catch. ASSUME NEW j \in Job, NEW i \in Instance, Catch(j, i) PROVE Typed'
  <2>set. SetRun(j, i, "drop", 0)
    BY <1>Catch DEF Catch
  <2>run. run' \in [Job -> [Instance -> Runs]]
    BY <2>set, RunAsked DEF Kinds
  <2>same. UNCHANGED <<req, status, due, old, events, calls, cron, queue, disk>>
    BY <1>Catch DEF Catch, core, bull, setup
  <2> QED
    BY <2>run, <2>same DEF Typed
<1>Drop. ASSUME NEW j \in Job, NEW i \in Instance, Drop(j, i) PROVE Typed'
  <2>disk. disk' \in [Job -> SUBSET (1 .. Parts)]
    BY <1>Drop, BoundsAssumption DEF Drop, At, Typed
  <2>set. SetRun(j, i, "throw", 0)
    BY <1>Drop DEF Drop, At
  <2>run. run' \in [Job -> [Instance -> Runs]]
    BY <2>set, RunAsked DEF Kinds
  <2>same. UNCHANGED <<req, status, due, old, events, calls, cron, queue>>
    BY <1>Drop DEF Drop, At, core, bull, setup
  <2> QED
    BY <2>disk, <2>run, <2>same DEF Typed
<1>Throw. ASSUME NEW j \in Job, NEW i \in Instance, Throw(j, i) PROVE Typed'
  <2>status. status' \in [Job -> InProgress \cup {"none", "ready", "failed", "expired"}]
    BY <1>Throw DEF Throw, At, Typed, InProgress, Crons
  <2>queue. queue' \in [Job -> Bulls]
    BY <1>Throw, QueueSet DEF Throw, At, Typed
  <2>set. SetRun(j, i, "idle", 0)
    BY <1>Throw DEF Throw, At
  <2>run. run' \in [Job -> [Instance -> Runs]]
    BY <2>set, RunAsked DEF Kinds
  <2>same. UNCHANGED <<req, due, old, events, calls, cron, disk>>
    BY <1>Throw DEF Throw, At, setup
  <2> QED
    BY <2>status, <2>queue, <2>run, <2>same DEF Typed
<1>Collect. ASSUME NEW j \in Job, NEW i \in Instance, Collect(j, i) PROVE Typed'
  <2>status. status' \in [Job -> InProgress \cup {"none", "ready", "failed", "expired"}]
    BY <1>Collect DEF Collect, Typed, InProgress, Crons
  <2>calls. calls' \subseteq Calls
    BY <1>Collect DEF Collect, Typed, Calls, Kinds
  <2>run. run' \in [Job -> [Instance -> Runs]]
    <3>1. CASE run[j][i].pc = "collect"
      <4>1. SetRun(j, i, "zip", 0)
        BY <3>1, <1>Collect DEF Collect, Answer
      <4> QED
        BY <4>1, RunAsked DEF Kinds
    <3>2. CASE run[j][i].pc # "collect"
      BY <3>2, <1>Collect DEF Collect, Answer, Typed
    <3> QED
      BY <3>1, <3>2
  <2>same. UNCHANGED <<req, due, old, events, cron, queue, disk>>
    BY <1>Collect DEF Collect, bull, setup
  <2> QED
    BY <2>status, <2>calls, <2>run, <2>same DEF Typed
<1>MarkReady. ASSUME NEW j \in Job, NEW i \in Instance, MarkReady(j, i) PROVE Typed'
  <2>status. status' \in [Job -> InProgress \cup {"none", "ready", "failed", "expired"}]
    BY <1>MarkReady DEF MarkReady, Typed, InProgress, Crons
  <2>due. due' \subseteq Job
    BY <1>MarkReady DEF MarkReady, Typed
  <2>calls. calls' \subseteq Calls
    BY <1>MarkReady DEF MarkReady, Typed, Calls, Kinds
  <2>run. run' \in [Job -> [Instance -> Runs]]
    <3>1. CASE run[j][i].pc = "ready"
      <4>1. SetRun(j, i, "idle", 0)
        BY <3>1, <1>MarkReady DEF MarkReady, Answer
      <4> QED
        BY <4>1, RunAsked DEF Kinds
    <3>2. CASE run[j][i].pc # "ready"
      BY <3>2, <1>MarkReady DEF MarkReady, Answer, Typed
    <3> QED
      BY <3>1, <3>2
  <2>same. UNCHANGED <<req, old, events, cron, queue, disk>>
    BY <1>MarkReady DEF MarkReady, bull, setup
  <2> QED
    BY <2>status, <2>due, <2>calls, <2>run, <2>same DEF Typed
<1>MarkFailedClean. ASSUME NEW j \in Job, NEW i \in Instance, MarkFailedClean(j, i) PROVE Typed'
  <2>calls. calls' \subseteq Calls
    BY <1>MarkFailedClean DEF MarkFailedClean, Typed, Calls, Kinds
  <2>disk. disk' \in [Job -> SUBSET (1 .. Parts)]
    BY <1>MarkFailedClean, BoundsAssumption DEF MarkFailedClean, Typed
  <2>same. UNCHANGED <<req, status, due, old, events, cron, queue, run>>
    BY <1>MarkFailedClean DEF MarkFailedClean, bull, setup
  <2> QED
    BY <2>calls, <2>disk, <2>same DEF Typed
<1>MarkFailed. ASSUME NEW j \in Job, NEW i \in Instance, MarkFailed(j, i) PROVE Typed'
  <2>status. status' \in [Job -> InProgress \cup {"none", "ready", "failed", "expired"}]
    BY <1>MarkFailed DEF MarkFailed, Typed, InProgress, Crons
  <2>calls. calls' \subseteq Calls
    BY <1>MarkFailed DEF MarkFailed, Typed, Calls, Kinds
  <2>run. run' \in [Job -> [Instance -> Runs]]
    <3>1. CASE run[j][i].pc = "failed"
      <4>1. SetRun(j, i, "clean", 0)
        BY <3>1, <1>MarkFailed DEF MarkFailed, Answer
      <4> QED
        BY <4>1, RunAsked DEF Kinds
    <3>2. CASE run[j][i].pc # "failed"
      BY <3>2, <1>MarkFailed DEF MarkFailed, Answer, Typed
    <3> QED
      BY <3>1, <3>2
  <2>same. UNCHANGED <<req, due, old, events, cron, queue, disk>>
    BY <1>MarkFailed DEF MarkFailed, bull, setup
  <2> QED
    BY <2>status, <2>calls, <2>run, <2>same DEF Typed
<1>CronStart. ASSUME CronStart PROVE Typed'
  <2>cron. cron' \in Crons /\ (cron'.pc \in {"remove", "mark"} => cron'.cur \in Job)
    BY <1>CronStart DEF CronStart, Expired, Typed, Crons, NoCron
  <2>same. UNCHANGED <<req, status, due, old, events, calls, queue, disk, run>>
    BY <1>CronStart DEF CronStart, Expired, bull, setup
  <2> QED
    BY <2>cron, <2>same DEF Typed
<1>CronPick. ASSUME NEW j \in Job, CronPick(j) PROVE Typed'
  <2>cron. cron' \in Crons /\ (cron'.pc \in {"remove", "mark"} => cron'.cur \in Job)
    BY <1>CronPick DEF CronPick, Typed, Crons, NoCron
  <2>same. UNCHANGED <<req, status, due, old, events, calls, queue, disk, run>>
    BY <1>CronPick DEF CronPick, setup
  <2> QED
    BY <2>cron, <2>same DEF Typed
<1>CronRemove. ASSUME CronRemove PROVE Typed'
  <2>cron. cron' \in Crons /\ (cron'.pc \in {"remove", "mark"} => cron'.cur \in Job)
    BY <1>CronRemove DEF CronRemove, Typed, Crons, NoCron
  <2>disk. disk' \in [Job -> SUBSET (1 .. Parts)]
    BY <1>CronRemove, BoundsAssumption DEF CronRemove, Typed
  <2>same. UNCHANGED <<req, status, due, old, events, calls, queue, run>>
    BY <1>CronRemove DEF CronRemove, bull, setup
  <2> QED
    BY <2>cron, <2>disk, <2>same DEF Typed
<1>CronMark. ASSUME CronMark PROVE Typed'
  <2>status. status' \in [Job -> InProgress \cup {"none", "ready", "failed", "expired"}]
    BY <1>CronMark DEF CronMark, Typed, InProgress, Crons
  <2>cron. cron' \in Crons /\ (cron'.pc \in {"remove", "mark"} => cron'.cur \in Job)
    BY <1>CronMark DEF CronMark, Typed, Crons, NoCron
  <2>same. UNCHANGED <<req, due, old, events, calls, queue, disk, run>>
    BY <1>CronMark DEF CronMark, bull, setup
  <2> QED
    BY <2>status, <2>cron, <2>same DEF Typed
<1>CronNext. ASSUME CronNext PROVE Typed'
  <2>cron. cron' \in Crons /\ (cron'.pc \in {"remove", "mark"} => cron'.cur \in Job)
    BY <1>CronNext DEF CronNext, Stuck, Typed, Crons, NoCron
  <2>same. UNCHANGED <<req, status, due, old, events, calls, queue, disk, run>>
    BY <1>CronNext DEF CronNext, Stuck, bull, setup
  <2> QED
    BY <2>cron, <2>same DEF Typed
<1>GoCrash. ASSUME NEW i \in Instance, GoCrash(i) PROVE Typed'
  <2>1. run' \in [Job -> [Instance -> Runs]] /\ queue' \in [Job -> Bulls]
    BY <1>GoCrash, Crashed
  <2>2. UNCHANGED <<req, status, due, old, events, calls, cron, disk>>
    BY <1>GoCrash DEF GoCrash, core, setup
  <2> QED
    BY <2>1, <2>2 DEF Typed
<1>CoreCrash. ASSUME CoreCrash PROVE Typed'
  <2>req. req' \in [Job -> {"idle", "checked", "created", "answered"}]
    BY <1>CoreCrash DEF CoreCrash, Typed
  <2>calls. calls' \subseteq Calls
    BY <1>CoreCrash DEF CoreCrash, Typed, Calls, Kinds
  <2>cron. cron' \in Crons /\ (cron'.pc \in {"remove", "mark"} => cron'.cur \in Job)
    BY <1>CoreCrash DEF CoreCrash, Typed, Crons, NoCron
  <2>same. UNCHANGED <<status, due, old, events, queue, disk, run>>
    BY <1>CoreCrash DEF CoreCrash, bull, setup
  <2> QED
    BY <2>req, <2>calls, <2>cron, <2>same DEF Typed
<1>same. CASE UNCHANGED <<req, status, due, old, events, calls, cron, queue, disk, run>>
  BY <1>same DEF Typed
<1> QED
  BY <1>CheckJob, <1>CheckSharedJob, <1>CreateJob, <1>Dispatch, <1>AddJob, <1>GetsDue, <1>GetsOld,
     <1>Stall, <1>FindStalled, <1>Take, <1>TakeJob, <1>OpenPart, <1>ReportReady, <1>ZipFails,
     <1>GiveUp, <1>Cleanup, <1>Begin, <1>CollectFiles, <1>NoFiles, <1>BeginPart, <1>Finish,
     <1>Catch, <1>Drop, <1>Throw, <1>Collect, <1>MarkReady, <1>MarkFailedClean, <1>MarkFailed,
     <1>CronStart, <1>CronPick, <1>CronRemove, <1>CronMark, <1>CronNext, <1>GoCrash, <1>CoreCrash,
     <1>same DEF ZipNext, RequestStep, WorkerStep, CallStep, ReaderStep, CronStep, Clock,
     KeyExpires, Admit, Count, Uncount, Delete, core, bull, setup

LEMMA WaysKept ==
  ASSUME IInv, ZipNext, owner # "links"
  PROVE  Ways'
<1> USE DEF IInv
<1>Dispatch. ASSUME NEW j \in Job, Dispatch(j) PROVE Ways'
  BY <1>Dispatch DEF Dispatch, bull, setup, Typed, Ways
<1>AddJob. ASSUME NEW j \in Job, AddJob(j) PROVE Ways'
  BY <1>AddJob DEF AddJob, setup, Typed, Ways
<1>Stall. ASSUME NEW j \in Job, Stall(j) PROVE Ways'
  BY <1>Stall, TakenBack DEF Stall, core, setup, Typed, Ways
<1>FindStalled. ASSUME NEW j \in Job, FindStalled(j) PROVE Ways'
  BY <1>FindStalled, TakenBack DEF FindStalled, core, setup, Typed, Ways
<1>GoCrash. ASSUME NEW i \in Instance, GoCrash(i) PROVE Ways'
  <2>1. \A k \in Job, l \in Instance : run'[k][l] = NoRun \/ run'[k][l] = run[k][l]
    BY <1>GoCrash, Crashed
  <2>2. \A k \in Job : queue'[k].st = queue[k].st
    BY <1>GoCrash, Crashed
  <2>3. UNCHANGED <<owner, calls, events>>
    BY <1>GoCrash DEF GoCrash, core, setup
  <2> QED
    BY <2>1, <2>2, <2>3 DEF Ways, NoRun, Kinds
<1>CoreCrash. ASSUME CoreCrash PROVE Ways'
  BY <1>CoreCrash DEF CoreCrash, bull, setup, Typed, Ways
<1>work. ASSUME NEW j \in Job, NEW i \in Instance,
              Take(j, i) \/ TakeJob(j, i) \/ WorkerStep(j, i) \/ CallStep(j, i)
       PROVE  Ways'
  <2>1. Frame(j, i) /\ Effect(j, i)
    BY <1>work, WorkFrame
  <2>2. owner' = owner /\ events' \subseteq events /\ \A k \in Job : k # j => queue'[k] = queue[k]
    BY <2>1 DEF Frame
  <2>3. \A k \in Job, l \in Instance : k # j \/ l # i => run'[k][l] = run[k][l]
    BY <2>1 DEF Frame
  <2>4. owner = "go" => queue' = queue
    BY <1>work DEF Ways, bull, Take, TakeJob, WorkerStep, CallStep, OpenPart, ReportReady, ZipFails,
       GiveUp, Cleanup, Begin, CollectFiles, NoFiles, BeginPart, Finish, Catch, Drop, Throw,
       Progress, FinishAt, At, Collect, MarkReady, MarkFailedClean, MarkFailed
  <2>5. ASSUME owner = "nest" PROVE calls' = {} /\ run'[j][i].pc \notin Kinds
    <3>1. ~(\/ Take(j, i) \/ OpenPart(j, i) \/ ReportReady(j, i)
            \/ ZipFails(j, i) \/ GiveUp(j, i) \/ CallStep(j, i))
      BY <2>5 DEF Ways, Take, OpenPart, ReportReady, ZipFails, GiveUp, CallStep, Collect, MarkReady,
         MarkFailedClean, MarkFailed
    <3>2. UNCHANGED calls
      BY <1>work, <3>1 DEF TakeJob, WorkerStep, Cleanup, Begin, CollectFiles, NoFiles, BeginPart,
         Finish, Catch, Drop, Throw, Progress, FinishAt, core
    <3>3. \E p \in {"idle", "begin", "entries", "zip", "drop", "throw"} :
            SetRun(j, i, p, 0) \/ SetRun(j, i, p, run[j][i].n + 1)
      BY <1>work, <3>1 DEF TakeJob, WorkerStep, Cleanup, Begin, CollectFiles, NoFiles, BeginPart,
         Finish, Catch, Drop, Throw, Progress, FinishAt
    <3>4. run'[j][i].pc \in {"idle", "begin", "entries", "zip", "drop", "throw"}
      BY <3>3 DEF SetRun, Typed
    <3> QED
      BY <2>5, <3>2, <3>4 DEF Ways, Kinds
  <2> QED
    BY <2>2, <2>3, <2>4, <2>5 DEF Ways
<1>same. CASE UNCHANGED <<owner, queue, calls, events, run>>
  BY <1>same DEF Typed, Ways
<1> QED
  BY <1>work, <1>Dispatch, <1>AddJob, <1>Stall, <1>FindStalled, <1>GoCrash, <1>CoreCrash, <1>same
  DEF ZipNext, RequestStep, ReaderStep, CronStep, Clock, CheckJob, CheckSharedJob, CreateJob,
      GetsDue, GetsOld, CronStart, CronPick, CronRemove, CronMark, CronNext, KeyExpires, Admit,
      Count, Uncount, Delete, Expired, Stuck, core, bull, setup

LEMMA NotBegunKept ==
  ASSUME IInv, ZipNext, owner # "links"
  PROVE  NotBegun'
<1> USE DEF IInv
<1>CheckJob. ASSUME NEW j \in Job, CheckJob(j) PROVE NotBegun'
  BY <1>CheckJob DEF CheckJob, bull, setup, Typed, Early, Quiet, Busy, NotBegun
<1>CheckSharedJob. ASSUME NEW j \in Job, CheckSharedJob(j) PROVE NotBegun'
  BY <1>CheckSharedJob DEF CheckSharedJob, bull, setup, Typed, Early, Quiet, Busy, NotBegun
<1>CreateJob. ASSUME NEW j \in Job, CreateJob(j) PROVE NotBegun'
  BY <1>CreateJob DEF CreateJob, bull, setup, Typed, Early, Quiet, Busy, NotBegun
<1>Dispatch. ASSUME NEW j \in Job, Dispatch(j) PROVE NotBegun'
  BY <1>Dispatch DEF Dispatch, bull, setup, Typed, Early, Quiet, Busy, NotBegun
<1>AddJob. ASSUME NEW j \in Job, AddJob(j) PROVE NotBegun'
  BY <1>AddJob DEF AddJob, setup, Typed, Early, Quiet, Busy, NotBegun
<1>Stall. ASSUME NEW j \in Job, Stall(j) PROVE NotBegun'
  BY <1>Stall, TakenBack DEF Stall, core, setup, Typed, Early, Quiet, Busy, NotBegun
<1>FindStalled. ASSUME NEW j \in Job, FindStalled(j) PROVE NotBegun'
  BY <1>FindStalled, TakenBack DEF FindStalled, core, setup, Typed, Early, Quiet, Busy, NotBegun
<1>GoCrash. ASSUME NEW i \in Instance, GoCrash(i) PROVE NotBegun'
  <2>1. \A k \in Job : Quiet(k) => Quiet(k)'
    BY <1>GoCrash, CrashQuiet
  <2>2. UNCHANGED <<req, status, due, disk, overtaken>>
    BY <1>GoCrash DEF GoCrash, core
  <2> QED
    BY <2>1, <2>2 DEF NotBegun, Early
<1>CoreCrash. ASSUME CoreCrash PROVE NotBegun'
  BY <1>CoreCrash DEF CoreCrash, bull, setup, Typed, Early, Quiet, Busy, NotBegun
<1>work. ASSUME NEW j \in Job, NEW i \in Instance,
              Take(j, i) \/ TakeJob(j, i) \/ WorkerStep(j, i) \/ CallStep(j, i)
       PROVE  NotBegun'
  <2>1. Frame(j, i) /\ Effect(j, i)
    BY <1>work, WorkFrame
  <2>2. ~Early(j)
    BY <2>1, Chosen
  <2>3. \A k \in Job : k # j => (Quiet(k) => Quiet(k)')
    BY <2>1, FrameBusy DEF Frame, Quiet
  <2> QED
    BY <2>1, <2>2, <2>3 DEF NotBegun, Early, Frame
<1>same. CASE UNCHANGED <<req, events, queue, run, calls>>
  BY <1>same DEF Typed, Early, Quiet, Busy, NotBegun
<1> QED
  BY <1>work, <1>CheckJob, <1>CheckSharedJob, <1>CreateJob, <1>Dispatch, <1>AddJob, <1>Stall,
     <1>FindStalled, <1>GoCrash, <1>CoreCrash, <1>same DEF ZipNext, RequestStep, ReaderStep,
     CronStep, Clock, GetsDue, GetsOld, CronStart, CronPick, CronRemove, CronMark, CronNext,
     KeyExpires, Admit, Count, Uncount, Delete, Expired, Stuck, core, bull, setup

LEMMA OverKept ==
  ASSUME IInv, ZipNext, owner # "links"
  PROVE  Over'
<1> USE DEF IInv
<1>CheckJob. ASSUME NEW j \in Job, CheckJob(j) PROVE Over'
  BY <1>CheckJob DEF CheckJob, bull, setup, Typed, Early, Quiet, Busy, NoRun, Over
<1>CheckSharedJob. ASSUME NEW j \in Job, CheckSharedJob(j) PROVE Over'
  BY <1>CheckSharedJob DEF CheckSharedJob, bull, setup, Typed, Early, Quiet, Busy, NoRun, Over
<1>CreateJob. ASSUME NEW j \in Job, CreateJob(j) PROVE Over'
  BY <1>CreateJob DEF CreateJob, bull, setup, Typed, Early, Quiet, Busy, NoRun, Over
<1>Dispatch. ASSUME NEW j \in Job, Dispatch(j) PROVE Over'
  BY <1>Dispatch DEF Dispatch, bull, setup, Typed, Early, Quiet, Busy, NoRun, Over
<1>AddJob. ASSUME NEW j \in Job, AddJob(j) PROVE Over'
  BY <1>AddJob DEF AddJob, setup, Typed, Early, Quiet, Busy, NoRun, Over
<1>GetsDue. ASSUME NEW j \in Job, GetsDue(j) PROVE Over'
  BY <1>GetsDue DEF GetsDue, bull, setup, Typed, Early, Quiet, Busy, NoRun, Over
<1>Stall. ASSUME NEW j \in Job, Stall(j) PROVE Over'
  BY <1>Stall, TakenBack DEF Stall, core, setup, Typed, Early, Quiet, Busy, NoRun, Over
<1>FindStalled. ASSUME NEW j \in Job, FindStalled(j) PROVE Over'
  <2>1. ~Quiet(j) /\ UNCHANGED <<status, req, due, disk, overtaken>>
    BY <1>FindStalled DEF FindStalled, Quiet, core
  <2>2. \A k \in Job : k # j => queue'[k] = queue[k]
    BY <1>FindStalled, TakenBack DEF FindStalled
  <2>3. UNCHANGED <<events, calls, run>>
    BY <1>FindStalled DEF FindStalled, core
  <2>4. \A k \in Job : k # j => (Quiet(k) => Quiet(k)')
    BY <2>2, <2>3 DEF Quiet, Busy
  <2> QED
    BY <2>1, <2>4 DEF Over, Early
<1>CronPick. ASSUME NEW j \in Job, CronPick(j) PROVE Over'
  BY <1>CronPick DEF CronPick, setup, Typed, Early, Quiet, Busy, NoRun, Over
<1>CronRemove. ASSUME CronRemove PROVE Over'
  <2>1. cron.cur \in overtaken \/ cron.cur \in due
    BY <1>CronRemove DEF CronRemove, CronFits, Typed, Crons
  <2>2. \A k \in Job : k # cron.cur => disk'[k] = disk[k]
    BY <1>CronRemove DEF CronRemove, Typed
  <2>3. UNCHANGED <<status, req, due, overtaken, events, queue, calls, run>>
    BY <1>CronRemove DEF CronRemove, bull
  <2>4. \A k \in Job : Quiet(k) => Quiet(k)'
    BY <2>3 DEF Quiet, Busy
  <2> QED
    BY <2>1, <2>2, <2>3, <2>4 DEF Over, Early
<1>CronMark. ASSUME CronMark PROVE Over'
  <2>1. \A k \in Job : status'[k] = "ready" => status[k] = "ready"
    BY <1>CronMark DEF CronMark, Typed, Crons
  <2>2. UNCHANGED <<disk, req, due, overtaken, events, queue, calls, run>>
    BY <1>CronMark DEF CronMark, bull
  <2>3. \A k \in Job : Quiet(k) => Quiet(k)'
    BY <2>2 DEF Quiet, Busy
  <2> QED
    BY <2>1, <2>2, <2>3 DEF Over, Early
<1>GoCrash. ASSUME NEW i \in Instance, GoCrash(i) PROVE Over'
  <2>1. \A k \in Job : Quiet(k) => Quiet(k)'
    BY <1>GoCrash, CrashQuiet
  <2>2. UNCHANGED <<req, status, due, disk, overtaken>>
    BY <1>GoCrash DEF GoCrash, core
  <2> QED
    BY <2>1, <2>2 DEF Over, Early
<1>CoreCrash. ASSUME CoreCrash PROVE Over'
  BY <1>CoreCrash DEF CoreCrash, bull, setup, Typed, Early, Quiet, Busy, NoRun, Over
<1>work. ASSUME NEW j \in Job, NEW i \in Instance,
              Take(j, i) \/ TakeJob(j, i) \/ WorkerStep(j, i) \/ CallStep(j, i)
       PROVE  Over'
  <2>1. Frame(j, i) /\ Effect(j, i)
    BY <1>work, WorkFrame
  <2>2. ~Early(j) /\ (j \notin overtaken => status[j] # "ready")
    BY <2>1, Chosen
  <2>3. \A k \in Job : k # j => (Quiet(k) => Quiet(k)')
    BY <2>1, FrameBusy DEF Frame, Quiet
  <2>4. ASSUME NEW k \in Job \ overtaken', k # j, status'[k] = "ready"
        PROVE  ~Early(k)' /\ Quiet(k)' /\ (k \in due' \/ disk'[k] = 1 .. Parts)
    BY <2>1, <2>3, <2>4 DEF Over, Early, Frame
  <2>5. ASSUME j \notin overtaken', status'[j] = "ready", Finish(j, i)
        PROVE  Quiet(j)' /\ disk'[j] = 1 .. Parts
    <3>1. /\ owner = "nest" /\ run[j][i].pc = "zip" /\ run[j][i].n = Parts /\ j \notin overtaken
          /\ FinishJob(j, i) /\ SetRun(j, i, "idle", 0) /\ UNCHANGED <<disk, events, calls>>
      BY <2>5 DEF Finish, FinishAt, At
    <3>0. run[j][i] # NoRun
      BY <3>1 DEF NoRun
    <3>2. queue[j].by = i /\ 1 .. Parts \subseteq disk[j]
      BY <3>0, <3>1 DEF OneInNest, Written, WrittenAt
    <3>3. queue'[j].st = "none"
      BY <3>1, <3>2 DEF FinishJob, Typed, NoBull
    <3>4. run'[j][i] = NoRun
      BY <3>1, RunAsked DEF NoRun
    <3>5. ~Busy(j, i)'
      BY <3>1, <3>4 DEF Ways, Busy
    <3>6. \A l \in Instance : l # i => ~Busy(j, l)'
      BY <2>1, <3>1, Chosen, FrameBusy
    <3> QED
      BY <3>1, <3>2, <3>3, <3>5, <3>6 DEF Quiet, Ways, Typed
  <2>6. ASSUME j \notin overtaken', status'[j] = "ready", MarkReady(j, i)
        PROVE  Quiet(j)' /\ disk'[j] = 1 .. Parts
    <3>1. /\ <<j, i, "ready">> \in calls /\ calls' = calls \ {<<j, i, "ready">>} /\ j \notin overtaken
          /\ Answer(j, i, "ready", "idle") /\ UNCHANGED <<disk, queue>>
      BY <2>6 DEF MarkReady, bull
    <3>2. owner = "go" /\ j \notin events'
      BY <2>1, <3>1, Chosen DEF Ways
    <3>3. disk[j] = 1 .. Parts
      BY <3>1 DEF Written, WrittenAt
    <3>4. /\ run[j][i] = NoRun \/ run[j][i].pc = "ready"
          /\ \A k \in Kinds \cup {"mark"} : <<j, i, k>> \in calls => k = "ready"
      BY <3>1 DEF Matched, MatchedAt, Waited, Kinds
    <3>5. run'[j][i] = NoRun
      <4>1. CASE run[j][i].pc = "ready"
        <5>1. SetRun(j, i, "idle", 0)
          BY <3>1, <4>1 DEF Answer
        <5> QED
          BY <5>1, RunAsked DEF NoRun
      <4>2. CASE run[j][i].pc # "ready"
        BY <3>1, <3>4, <4>2 DEF Answer
      <4> QED
        BY <4>1, <4>2
    <3>6. ~Busy(j, i)'
      BY <3>1, <3>4, <3>5 DEF Busy
    <3>7. \A l \in Instance : l # i => ~Busy(j, l)'
      BY <2>1, <3>1, Chosen, FrameBusy
    <3> QED
      BY <3>1, <3>2, <3>3, <3>6, <3>7 DEF Quiet, Ways
  <2>7. j \notin overtaken' => j \notin overtaken
    BY <2>1 DEF Frame
  <2>8. ~Early(j)'
    BY <2>1, <2>2 DEF Frame, Early
  <2> QED
    BY <2>1, <2>2, <2>4, <2>5, <2>6, <2>7, <2>8 DEF Over, Effect
<1>same. CASE UNCHANGED <<status, req, events, queue, run, calls, due, disk, overtaken>>
  BY <1>same DEF Typed, Early, Quiet, Busy, NoRun, Over
<1> QED
  BY <1>work, <1>CheckJob, <1>CheckSharedJob, <1>CreateJob, <1>Dispatch, <1>AddJob, <1>GetsDue,
     <1>Stall, <1>FindStalled, <1>CronPick, <1>CronRemove, <1>CronMark, <1>GoCrash, <1>CoreCrash,
     <1>same DEF ZipNext, RequestStep, ReaderStep, CronStep, Clock, GetsOld, CronStart, CronNext,
     KeyExpires, Admit, Count, Uncount, Delete, Expired, Stuck, core, bull, setup

LEMMA OneInGoKept ==
  ASSUME IInv, ZipNext, owner # "links"
  PROVE  OneInGo'
<1> USE DEF IInv
<1>Dispatch. ASSUME NEW j \in Job, Dispatch(j) PROVE OneInGo'
  <2>1. Quiet(j)
    BY <1>Dispatch DEF Dispatch, NotBegun, Early
  <2>2. UNCHANGED <<owner, run, calls>> /\ events' \subseteq events \cup {j}
    BY <1>Dispatch DEF Dispatch, setup
  <2> QED
    BY <2>1, <2>2 DEF OneInGo, Quiet, Busy
<1>GoCrash. ASSUME NEW i \in Instance, GoCrash(i) PROVE OneInGo'
  <2>1. \A k \in Job, l \in Instance : Busy(k, l)' => Busy(k, l)
    BY <1>GoCrash, CrashQuiet
  <2>2. UNCHANGED <<owner, events>>
    BY <1>GoCrash DEF GoCrash, core, setup
  <2> QED
    BY <2>1, <2>2 DEF OneInGo
<1>CoreCrash. ASSUME CoreCrash PROVE OneInGo'
  BY <1>CoreCrash DEF CoreCrash, bull, setup, Typed, Busy, NoRun, OneInGo
<1>work. ASSUME NEW j \in Job, NEW i \in Instance,
              Take(j, i) \/ TakeJob(j, i) \/ WorkerStep(j, i) \/ CallStep(j, i)
       PROVE  OneInGo'
  <2>1. Frame(j, i) /\ Effect(j, i)
    BY <1>work, WorkFrame
  <2>2. owner = "go" => j \notin events' /\ \A l \in Instance : l # i => ~Busy(j, l)
    BY <2>1, Chosen
  <2>3. \A k \in Job, l \in Instance : k # j \/ l # i => (Busy(k, l)' <=> Busy(k, l))
    BY <2>1, FrameBusy
  <2>4. owner' = owner /\ events' \subseteq events
    BY <2>1 DEF Frame
  <2> QED
    BY <2>2, <2>3, <2>4 DEF OneInGo
<1>same. CASE UNCHANGED <<owner, run, calls, events>>
  BY <1>same DEF Typed, Busy, NoRun, OneInGo
<1> QED
  BY <1>work, <1>Dispatch, <1>GoCrash, <1>CoreCrash, <1>same
  DEF ZipNext, RequestStep, ReaderStep, CronStep, Clock, CheckJob, CheckSharedJob, CreateJob,
      AddJob, GetsDue, GetsOld, Stall, FindStalled, CronStart, CronPick, CronRemove, CronMark,
      CronNext, KeyExpires, Admit, Count, Uncount, Delete, Expired, Stuck, core, bull, setup

LEMMA OneInNestKept ==
  ASSUME IInv, ZipNext, owner # "links"
  PROVE  OneInNest'
<1> USE DEF IInv
<1>AddJob. ASSUME NEW j \in Job, AddJob(j) PROVE OneInNest'
  <2>1. Quiet(j)
    BY <1>AddJob DEF AddJob, NotBegun, Early
  <2>2. UNCHANGED <<owner, run, overtaken>> /\ \A k \in Job : k # j => queue'[k] = queue[k]
    BY <1>AddJob DEF AddJob, setup, Typed
  <2> QED
    BY <2>1, <2>2 DEF OneInNest, Quiet, Busy
<1>Stall. ASSUME NEW j \in Job, Stall(j) PROVE OneInNest'
  BY <1>Stall, TakenBack DEF Stall, core, setup, Typed, NoRun, OneInNest
<1>FindStalled. ASSUME NEW j \in Job, FindStalled(j) PROVE OneInNest'
  <2>1. queue[j].by = None /\ UNCHANGED <<owner, run, overtaken>>
    BY <1>FindStalled DEF FindStalled, core, setup
  <2>2. \A k \in Job : k # j => queue'[k] = queue[k]
    BY <1>FindStalled, TakenBack DEF FindStalled
  <2> QED
    BY <2>1, <2>2, SetsAssumption DEF OneInNest
<1>CronPick. ASSUME NEW j \in Job, CronPick(j) PROVE OneInNest'
  BY <1>CronPick DEF CronPick, setup, Typed, NoRun, OneInNest
<1>GoCrash. ASSUME NEW i \in Instance, GoCrash(i) PROVE OneInNest'
  BY <1>GoCrash, Crashed DEF GoCrash, core, setup, Typed, NoRun, OneInNest
<1>work. ASSUME NEW j \in Job, NEW i \in Instance,
              Take(j, i) \/ TakeJob(j, i) \/ WorkerStep(j, i) \/ CallStep(j, i)
       PROVE  OneInNest'
  <2>1. Frame(j, i) /\ Effect(j, i)
    BY <1>work, WorkFrame
  <2>2. j \notin overtaken => \A l \in Instance : l # i => ~Busy(j, l)
    BY <2>1, Chosen
  <2>3. \A l \in Instance : l # i /\ j \notin overtaken => run'[j][l] = NoRun
    BY <2>1, <2>2 DEF Frame, Busy
  <2>4. ASSUME owner = "nest", j \notin overtaken
        PROVE  run'[j][i] # NoRun => queue'[j].st = "active" /\ queue'[j].by = i
    <3>1. CASE TakeJob(j, i)
      BY <3>1 DEF TakeJob, Typed, Bulls
    <3>2. CASE Busy(j, i) /\ queue' = queue
      BY <3>2, <2>4 DEF Busy, OneInNest, Ways
    <3>3. CASE Take(j, i)
      BY <3>3, <2>4 DEF Take, Ways
    <3> QED
      BY <2>1, <3>1, <3>2, <3>3 DEF Effect
  <2>5. owner' = owner /\ overtaken \subseteq overtaken'
    BY <2>1 DEF Frame
  <2>6. ASSUME NEW k \in Job, k # j
        PROVE  queue'[k] = queue[k] /\ \A l \in Instance : run'[k][l] = run[k][l]
    BY <2>1, <2>6 DEF Frame
  <2> QED
    BY <2>3, <2>4, <2>5, <2>6 DEF OneInNest
<1>same. CASE UNCHANGED <<owner, overtaken, run, queue>>
  BY <1>same DEF Typed, NoRun, OneInNest
<1> QED
  BY <1>work, <1>AddJob, <1>Stall, <1>FindStalled, <1>CronPick, <1>GoCrash, <1>same
  DEF ZipNext, RequestStep, ReaderStep, CronStep, Clock, CheckJob, CheckSharedJob, CreateJob,
      Dispatch, GetsDue, GetsOld, MarkFailedClean, CronStart, CronRemove, CronMark, CronNext,
      CoreCrash, KeyExpires, Admit, Count, Uncount, Delete, Expired, Stuck, core, bull, setup

LEMMA MatchedHere ==
  ASSUME IInv, owner # "links", NEW j \in Job, NEW i \in Instance, j \notin overtaken',
         Take(j, i) \/ TakeJob(j, i) \/ WorkerStep(j, i) \/ CallStep(j, i)
  PROVE  MatchedAt(j, i)'
<1> USE DEF IInv
<1>0. MatchedAt(j, i) /\ j \notin overtaken
  BY WorkFrame DEF Matched, Frame
<1>1. run[j][i] # NoRun /\ (\A k \in Kinds \cup {"mark"} : run[j][i].pc # Waited(k))
      => \A k \in Kinds \cup {"mark"} : <<j, i, k>> \notin calls
  BY <1>0 DEF MatchedAt
<1>2. run[j][i].pc = "zip" => \A k \in Kinds \cup {"mark"} : <<j, i, k>> \notin calls
  BY <1>1 DEF NoRun, Waited, Kinds
<1>3. calls' = {} => MatchedAt(j, i)'
  BY DEF MatchedAt
<1>Take. ASSUME Take(j, i) PROVE MatchedAt(j, i)'
  <2>1. \A k \in Kinds \cup {"mark"} : <<j, i, k>> \notin calls
    BY <1>Take DEF Take, Ways, OneInGo, Busy
  <2>2. calls' = calls \cup {<<j, i, "collect">>} /\ SetRun(j, i, "collect", 0)
    BY <1>Take DEF Take, Ask
  <2>3. run'[j][i].pc = "collect"
    BY <2>2, RunAsked DEF Kinds
  <2> QED
    BY <2>1, <2>2, <2>3 DEF MatchedAt, Waited
<1>TakeJob. ASSUME TakeJob(j, i) PROVE MatchedAt(j, i)'
  <2>1. owner = "nest" /\ UNCHANGED calls
    BY <1>TakeJob DEF TakeJob, core, Ways
  <2> QED
    BY <1>3, <2>1 DEF Ways
<1>OpenPart. ASSUME OpenPart(j, i) PROVE MatchedAt(j, i)'
  BY <1>2, <1>OpenPart DEF OpenPart, core, MatchedAt
<1>ReportReady. ASSUME ReportReady(j, i) PROVE MatchedAt(j, i)'
  <2>1. calls' = calls \cup {<<j, i, "ready">>} /\ SetRun(j, i, "ready", 0) /\ run[j][i].pc = "zip"
    BY <1>ReportReady DEF ReportReady, Ask
  <2>2. run'[j][i].pc = "ready"
    BY <2>1, RunAsked DEF Kinds
  <2> QED
    BY <1>2, <2>1, <2>2 DEF MatchedAt, Waited
<1>ZipFails. ASSUME ZipFails(j, i) PROVE MatchedAt(j, i)'
  <2>1. calls' = calls \cup {<<j, i, "failed">>} /\ SetRun(j, i, "failed", 0) /\ run[j][i].pc = "zip"
    BY <1>ZipFails DEF ZipFails, Ask
  <2>2. run'[j][i].pc = "failed"
    BY <2>1, RunAsked DEF Kinds
  <2> QED
    BY <1>2, <2>1, <2>2 DEF MatchedAt, Waited
<1>GiveUp. ASSUME GiveUp(j, i) PROVE MatchedAt(j, i)'
  <2>1. run[j][i].pc \in Kinds /\ {<<j, i, run[j][i].pc>>, <<j, i, "mark">>} \cap calls = {}
    BY <1>0, <1>GiveUp DEF GiveUp
  <2>2. \A k \in Kinds \cup {"mark"} : <<j, i, k>> \notin calls
    <3> SUFFICES ASSUME NEW k \in Kinds \cup {"mark"}, <<j, i, k>> \in calls PROVE FALSE
      OBVIOUS
    <3>1. run[j][i].pc = Waited(k)
      BY <1>0, <2>1 DEF MatchedAt, NoRun, Kinds
    <3>2. k = "mark" \/ k = run[j][i].pc
      BY <3>1 DEF Waited
    <3> QED
      BY <2>1, <3>2
  <2>3. CASE run[j][i].pc = "failed"
    <3>1. UNCHANGED calls
      BY <2>3, <1>GiveUp DEF GiveUp
    <3> QED
      BY <2>2, <3>1 DEF MatchedAt
  <2>4. CASE run[j][i].pc # "failed"
    <3>1. calls' = calls \cup {<<j, i, "failed">>} /\ SetRun(j, i, "failed", 0)
      BY <2>4, <1>GiveUp DEF GiveUp, Ask
    <3>2. run'[j][i].pc = "failed"
      BY <3>1, RunAsked DEF Kinds
    <3> QED
      BY <2>2, <3>1, <3>2 DEF MatchedAt, Waited
  <2> QED
    BY <2>3, <2>4
<1>Cleanup. ASSUME Cleanup(j, i) PROVE MatchedAt(j, i)'
  <2>set. SetRun(j, i, "idle", 0)
    BY <1>Cleanup DEF Cleanup, core, bull, setup
  <2>run. run'[j][i] = [pc |-> "idle", n |-> 0]
    BY <2>set, RunAsked DEF Kinds
  <2> QED
    BY <1>0, <1>Cleanup, <2>run
    DEF Cleanup, core, bull, setup, MatchedAt, Waited, Kinds, NoRun, Typed, Calls
<1>Begin. ASSUME Begin(j, i) PROVE MatchedAt(j, i)'
  BY <1>3, <1>Begin DEF Begin, Progress, At, bull, setup, Ways
<1>CollectFiles. ASSUME CollectFiles(j, i) PROVE MatchedAt(j, i)'
  BY <1>3, <1>CollectFiles DEF CollectFiles, Progress, At, bull, setup, Ways
<1>NoFiles. ASSUME NoFiles(j, i) PROVE MatchedAt(j, i)'
  BY <1>3, <1>NoFiles DEF NoFiles, At, setup, Ways
<1>BeginPart. ASSUME BeginPart(j, i) PROVE MatchedAt(j, i)'
  BY <1>3, <1>BeginPart DEF BeginPart, At, core, bull, setup, Ways
<1>Finish. ASSUME Finish(j, i) PROVE MatchedAt(j, i)'
  BY <1>3, <1>Finish DEF Finish, FinishAt, At, setup, Ways
<1>Catch. ASSUME Catch(j, i) PROVE MatchedAt(j, i)'
  BY <1>3, <1>Catch DEF Catch, core, bull, setup, Ways
<1>Drop. ASSUME Drop(j, i) PROVE MatchedAt(j, i)'
  BY <1>3, <1>Drop DEF Drop, At, core, bull, setup, Ways
<1>Throw. ASSUME Throw(j, i) PROVE MatchedAt(j, i)'
  BY <1>3, <1>Throw DEF Throw, At, setup, Ways
<1>Collect. ASSUME Collect(j, i) PROVE MatchedAt(j, i)'
  <2>1. CASE run[j][i].pc = "collect"
    <3>set. SetRun(j, i, "zip", 0)
      BY <2>1, <1>Collect DEF Collect, Answer, bull, setup
    <3>run. run'[j][i] = [pc |-> "zip", n |-> 0]
      BY <3>set, RunAsked DEF Kinds
    <3> QED
      BY <1>0, <2>1, <1>Collect, <3>run
      DEF Collect, Answer, bull, setup, MatchedAt, Waited, Kinds, NoRun, Typed, Calls
  <2>2. CASE run[j][i].pc # "collect"
    BY <1>0, <2>2, <1>Collect
    DEF Collect, Answer, bull, setup, MatchedAt, Waited, Kinds, NoRun, Typed, Calls
  <2> QED
    BY <2>1, <2>2
<1>MarkReady. ASSUME MarkReady(j, i) PROVE MatchedAt(j, i)'
  <2>1. CASE run[j][i].pc = "ready"
    <3>set. SetRun(j, i, "idle", 0)
      BY <2>1, <1>MarkReady DEF MarkReady, Answer, bull, setup
    <3>run. run'[j][i] = [pc |-> "idle", n |-> 0]
      BY <3>set, RunAsked DEF Kinds
    <3> QED
      BY <1>0, <2>1, <1>MarkReady, <3>run
      DEF MarkReady, Answer, bull, setup, MatchedAt, Waited, Kinds, NoRun, Typed, Calls
  <2>2. CASE run[j][i].pc # "ready"
    BY <1>0, <2>2, <1>MarkReady
    DEF MarkReady, Answer, bull, setup, MatchedAt, Waited, Kinds, NoRun, Typed, Calls
  <2> QED
    BY <2>1, <2>2
<1>MarkFailedClean. ASSUME MarkFailedClean(j, i) PROVE MatchedAt(j, i)'
    BY <1>0, <1>MarkFailedClean
    DEF MarkFailedClean, bull, setup, MatchedAt, Waited, Kinds, NoRun, Typed, Calls
<1>MarkFailed. ASSUME MarkFailed(j, i) PROVE MatchedAt(j, i)'
  <2>1. CASE run[j][i].pc = "failed"
    <3>set. SetRun(j, i, "clean", 0)
      BY <2>1, <1>MarkFailed DEF MarkFailed, Answer, bull, setup
    <3>run. run'[j][i] = [pc |-> "clean", n |-> 0]
      BY <3>set, RunAsked DEF Kinds
    <3> QED
      BY <1>0, <2>1, <1>MarkFailed, <3>run
      DEF MarkFailed, Answer, bull, setup, MatchedAt, Waited, Kinds, NoRun, Typed, Calls
  <2>2. CASE run[j][i].pc # "failed"
    BY <1>0, <2>2, <1>MarkFailed
    DEF MarkFailed, Answer, bull, setup, MatchedAt, Waited, Kinds, NoRun, Typed, Calls
  <2> QED
    BY <2>1, <2>2
<1> QED
  BY <1>Take, <1>TakeJob, <1>OpenPart, <1>ReportReady, <1>ZipFails, <1>GiveUp, <1>Cleanup, <1>Begin,
     <1>CollectFiles, <1>NoFiles, <1>BeginPart, <1>Finish, <1>Catch, <1>Drop, <1>Throw, <1>Collect,
     <1>MarkReady, <1>MarkFailedClean, <1>MarkFailed DEF WorkerStep, CallStep

LEMMA MatchedKept ==
  ASSUME IInv, ZipNext, owner # "links"
  PROVE  Matched'
<1> USE DEF IInv
<1>Stall. ASSUME NEW j \in Job, Stall(j) PROVE Matched'
  BY <1>Stall DEF Stall, core, setup, MatchedAt, Typed, Matched
<1>CronPick. ASSUME NEW j \in Job, CronPick(j) PROVE Matched'
  BY <1>CronPick DEF CronPick, setup, MatchedAt, Typed, Matched
<1>GoCrash. ASSUME NEW i \in Instance, GoCrash(i) PROVE Matched'
  BY <1>GoCrash, Crashed DEF GoCrash, core, setup, MatchedAt, Typed, Matched
<1>CoreCrash. ASSUME CoreCrash PROVE Matched'
  BY <1>CoreCrash DEF CoreCrash, bull, setup, MatchedAt, Typed, Matched
<1>work. ASSUME NEW j \in Job, NEW i \in Instance,
              Take(j, i) \/ TakeJob(j, i) \/ WorkerStep(j, i) \/ CallStep(j, i)
       PROVE  Matched'
  <2>1. Frame(j, i) /\ Effect(j, i)
    BY <1>work, WorkFrame
  <2>2. \A k \in Job, l \in Instance : k # j \/ l # i => (MatchedAt(k, l) => MatchedAt(k, l)')
    BY <2>1 DEF Frame, MatchedAt
  <2>3. j \notin overtaken' => MatchedAt(j, i)'
    BY <1>work, MatchedHere
  <2>4. overtaken \subseteq overtaken'
    BY <2>1 DEF Frame
  <2> QED
    BY <2>2, <2>3, <2>4 DEF Matched
<1>same. CASE UNCHANGED <<overtaken, calls, run>>
  BY <1>same DEF MatchedAt, Typed, Matched
<1> QED
  BY <1>work, <1>Stall, <1>CronPick, <1>GoCrash, <1>CoreCrash, <1>same
  DEF ZipNext, RequestStep, ReaderStep, CronStep, Clock, CheckJob, CheckSharedJob, CreateJob,
      Dispatch, AddJob, GetsDue, GetsOld, FindStalled, CronStart, CronRemove, CronMark, CronNext,
      KeyExpires, Admit, Count, Uncount, Delete, Expired, Stuck, core, bull, setup

LEMMA WrittenHere ==
  ASSUME IInv, owner # "links", NEW j \in Job, NEW i \in Instance, j \notin overtaken',
         Take(j, i) \/ TakeJob(j, i) \/ WorkerStep(j, i) \/ CallStep(j, i)
  PROVE  WrittenAt(j, i)'
<1> USE DEF IInv
<1>0. WrittenAt(j, i) /\ j \notin overtaken
  BY WorkFrame DEF Written, Frame
<1>1. disk[j] \subseteq 1 .. Parts
  BY DEF Typed
<1>2. MatchedAt(j, i)
  BY <1>0 DEF Matched
<1>Take. ASSUME Take(j, i) PROVE WrittenAt(j, i)'
  <2>set. SetRun(j, i, "collect", 0)
    BY <1>Take DEF Take, Ask, bull, setup
  <2>run. run'[j][i] = [pc |-> "collect", n |-> 0]
    BY <2>set, RunAsked DEF Kinds
  <2> QED
    BY <1>0, <1>Take, <2>run DEF Take, Ask, bull, setup, WrittenAt, Kinds, NoRun, Typed, Runs
<1>TakeJob. ASSUME TakeJob(j, i) PROVE WrittenAt(j, i)'
  <2>set. SetRun(j, i, "begin", 0)
    BY <1>TakeJob DEF TakeJob, core, setup
  <2>run. run'[j][i] = [pc |-> "begin", n |-> 0]
    BY <2>set, RunAsked DEF Kinds
  <2> QED
    BY <1>0, <1>TakeJob, <2>run DEF TakeJob, core, setup, WrittenAt, Kinds, NoRun, Typed, Runs
<1>OpenPart. ASSUME OpenPart(j, i) PROVE WrittenAt(j, i)'
  <2>n. PICK n \in 0 .. Parts : n = run[j][i].n + 1
    BY <1>OpenPart, BoundsAssumption DEF OpenPart, Typed, Runs
  <2>set. SetRun(j, i, "zip", n) /\ run[j][i].pc = "zip" /\ UNCHANGED calls
    BY <1>OpenPart, <2>n DEF OpenPart, core
  <2>run. run'[j][i] = [pc |-> "zip", n |-> n]
    BY <2>n, <2>set DEF SetRun, Typed, Runs
  <2>disk. disk'[j] = disk[j] \cup {n} /\ run[j][i].n \in Nat
    BY <1>OpenPart, <2>n DEF OpenPart, Typed, Runs
  <2>ready. <<j, i, "ready">> \notin calls
    BY <1>2, <2>set DEF MatchedAt, Waited, Kinds, NoRun
  <2>all. 1 .. n \subseteq disk'[j]
    BY <1>0, <2>n, <2>set, <2>disk DEF WrittenAt
  <2> QED
    BY <2>set, <2>run, <2>ready, <2>all DEF WrittenAt
<1>ReportReady. ASSUME ReportReady(j, i) PROVE WrittenAt(j, i)'
  <2>1. run[j][i] = [pc |-> "zip", n |-> Parts] /\ SetRun(j, i, "ready", 0) /\ UNCHANGED disk
    BY <1>ReportReady DEF ReportReady, Ask
  <2>2. 1 .. Parts \subseteq disk[j]
    BY <1>0, <2>1 DEF WrittenAt
  <2>3. run'[j][i].pc = "ready"
    BY <2>1, RunAsked DEF Kinds
  <2> QED
    BY <1>1, <2>1, <2>2, <2>3 DEF WrittenAt
<1>ZipFails. ASSUME ZipFails(j, i) PROVE WrittenAt(j, i)'
  <2>set. SetRun(j, i, "failed", 0)
    BY <1>ZipFails DEF ZipFails, Ask, bull, setup
  <2>run. run'[j][i] = [pc |-> "failed", n |-> 0]
    BY <2>set, RunAsked DEF Kinds
  <2> QED
    BY <1>0, <1>ZipFails, <2>run
    DEF ZipFails, Ask, bull, setup, WrittenAt, Kinds, NoRun, Typed, Runs
<1>GiveUp. ASSUME GiveUp(j, i) PROVE WrittenAt(j, i)'
  <2>1. CASE run[j][i].pc = "failed"
    <3>set. SetRun(j, i, "clean", 0)
      BY <2>1, <1>GiveUp DEF GiveUp, Ask, setup
    <3>run. run'[j][i] = [pc |-> "clean", n |-> 0]
      BY <3>set, RunAsked DEF Kinds
    <3> QED
      BY <1>0, <2>1, <1>GiveUp, <3>run DEF GiveUp, Ask, setup, WrittenAt, Kinds, NoRun, Typed, Runs
  <2>2. CASE run[j][i].pc # "failed"
    <3>set. SetRun(j, i, "failed", 0)
      BY <2>2, <1>GiveUp DEF GiveUp, Ask, setup
    <3>run. run'[j][i] = [pc |-> "failed", n |-> 0]
      BY <3>set, RunAsked DEF Kinds
    <3> QED
      BY <1>0, <2>2, <1>GiveUp, <3>run DEF GiveUp, Ask, setup, WrittenAt, Kinds, NoRun, Typed, Runs
  <2> QED
    BY <2>1, <2>2
<1>Cleanup. ASSUME Cleanup(j, i) PROVE WrittenAt(j, i)'
  <2>1. run[j][i].pc = "clean" /\ SetRun(j, i, "idle", 0) /\ UNCHANGED calls
    BY <1>Cleanup DEF Cleanup, core
  <2>2. <<j, i, "ready">> \notin calls
    BY <1>2, <2>1 DEF MatchedAt, Waited, Kinds, NoRun
  <2>3. run'[j][i].pc = "idle"
    BY <2>1, RunAsked DEF Kinds
  <2> QED
    BY <2>1, <2>2, <2>3 DEF WrittenAt
<1>Begin. ASSUME Begin(j, i) PROVE WrittenAt(j, i)'
  <2>set. SetRun(j, i, "entries", 0)
    BY <1>Begin DEF Begin, Progress, At, bull, setup
  <2>run. run'[j][i] = [pc |-> "entries", n |-> 0]
    BY <2>set, RunAsked DEF Kinds
  <2> QED
    BY <1>0, <1>Begin, <2>run
    DEF Begin, Progress, At, bull, setup, WrittenAt, Kinds, NoRun, Typed, Runs
<1>CollectFiles. ASSUME CollectFiles(j, i) PROVE WrittenAt(j, i)'
  <2>set. SetRun(j, i, "zip", 0)
    BY <1>CollectFiles DEF CollectFiles, Progress, At, bull, setup
  <2>run. run'[j][i] = [pc |-> "zip", n |-> 0]
    BY <2>set, RunAsked DEF Kinds
  <2> QED
    BY <1>0, <1>CollectFiles, <2>run
    DEF CollectFiles, Progress, At, bull, setup, WrittenAt, Kinds, NoRun, Typed, Runs
<1>NoFiles. ASSUME NoFiles(j, i) PROVE WrittenAt(j, i)'
  <2>set. SetRun(j, i, "idle", 0)
    BY <1>NoFiles DEF NoFiles, At, setup
  <2>run. run'[j][i] = [pc |-> "idle", n |-> 0]
    BY <2>set, RunAsked DEF Kinds
  <2> QED
    BY <1>0, <1>NoFiles, <2>run DEF NoFiles, At, setup, WrittenAt, Kinds, NoRun, Typed, Runs
<1>BeginPart. ASSUME BeginPart(j, i) PROVE WrittenAt(j, i)'
  <2>n. PICK n \in 0 .. Parts : n = run[j][i].n + 1
    BY <1>BeginPart, BoundsAssumption DEF BeginPart, At, Typed, Runs
  <2>set. SetRun(j, i, "zip", n) /\ run[j][i].pc = "zip" /\ UNCHANGED calls
    BY <1>BeginPart, <2>n DEF BeginPart, At, core
  <2>run. run'[j][i] = [pc |-> "zip", n |-> n]
    BY <2>n, <2>set DEF SetRun, Typed, Runs
  <2>disk. disk'[j] = disk[j] \cup {n} /\ run[j][i].n \in Nat
    BY <1>BeginPart, <2>n DEF BeginPart, At, Typed, Runs
  <2>ready. <<j, i, "ready">> \notin calls
    BY <1>2, <2>set DEF MatchedAt, Waited, Kinds, NoRun
  <2>all. 1 .. n \subseteq disk'[j]
    BY <1>0, <2>n, <2>set, <2>disk DEF WrittenAt
  <2> QED
    BY <2>set, <2>run, <2>ready, <2>all DEF WrittenAt
<1>Finish. ASSUME Finish(j, i) PROVE WrittenAt(j, i)'
  <2>set. SetRun(j, i, "idle", 0)
    BY <1>Finish DEF Finish, FinishAt, At, setup
  <2>run. run'[j][i] = [pc |-> "idle", n |-> 0]
    BY <2>set, RunAsked DEF Kinds
  <2> QED
    BY <1>0, <1>Finish, <2>run DEF Finish, FinishAt, At, setup, WrittenAt, Kinds, NoRun, Typed, Runs
<1>Catch. ASSUME Catch(j, i) PROVE WrittenAt(j, i)'
  <2>set. SetRun(j, i, "drop", 0)
    BY <1>Catch DEF Catch, core, bull, setup
  <2>run. run'[j][i] = [pc |-> "drop", n |-> 0]
    BY <2>set, RunAsked DEF Kinds
  <2> QED
    BY <1>0, <1>Catch, <2>run DEF Catch, core, bull, setup, WrittenAt, Kinds, NoRun, Typed, Runs
<1>Drop. ASSUME Drop(j, i) PROVE WrittenAt(j, i)'
  <2>1. owner = "nest" /\ SetRun(j, i, "throw", 0) /\ UNCHANGED calls
    BY <1>Drop DEF Drop, At, core
  <2>2. run'[j][i].pc = "throw"
    BY <2>1, RunAsked DEF Kinds
  <2> QED
    BY <2>1, <2>2 DEF WrittenAt, Ways
<1>Throw. ASSUME Throw(j, i) PROVE WrittenAt(j, i)'
  <2>set. SetRun(j, i, "idle", 0)
    BY <1>Throw DEF Throw, At, setup
  <2>run. run'[j][i] = [pc |-> "idle", n |-> 0]
    BY <2>set, RunAsked DEF Kinds
  <2> QED
    BY <1>0, <1>Throw, <2>run DEF Throw, At, setup, WrittenAt, Kinds, NoRun, Typed, Runs
<1>Collect. ASSUME Collect(j, i) PROVE WrittenAt(j, i)'
  <2>1. CASE run[j][i].pc = "collect"
    <3>set. SetRun(j, i, "zip", 0)
      BY <2>1, <1>Collect DEF Collect, Answer, bull, setup
    <3>run. run'[j][i] = [pc |-> "zip", n |-> 0]
      BY <3>set, RunAsked DEF Kinds
    <3> QED
      BY <1>0, <2>1, <1>Collect, <3>run
      DEF Collect, Answer, bull, setup, WrittenAt, Kinds, NoRun, Typed, Runs
  <2>2. CASE run[j][i].pc # "collect"
    BY <1>0, <2>2, <1>Collect DEF Collect, Answer, bull, setup, WrittenAt, Kinds, NoRun, Typed, Runs
  <2> QED
    BY <2>1, <2>2
<1>MarkReady. ASSUME MarkReady(j, i) PROVE WrittenAt(j, i)'
  <2>1. CASE run[j][i].pc = "ready"
    <3>set. SetRun(j, i, "idle", 0)
      BY <2>1, <1>MarkReady DEF MarkReady, Answer, bull, setup
    <3>run. run'[j][i] = [pc |-> "idle", n |-> 0]
      BY <3>set, RunAsked DEF Kinds
    <3> QED
      BY <1>0, <2>1, <1>MarkReady, <3>run
      DEF MarkReady, Answer, bull, setup, WrittenAt, Kinds, NoRun, Typed, Runs
  <2>2. CASE run[j][i].pc # "ready"
    BY <1>0, <2>2, <1>MarkReady
    DEF MarkReady, Answer, bull, setup, WrittenAt, Kinds, NoRun, Typed, Runs
  <2> QED
    BY <2>1, <2>2
<1>MarkFailedClean. ASSUME MarkFailedClean(j, i) PROVE WrittenAt(j, i)'
  <2>1. /\ <<j, i, "failed">> \in calls /\ UNCHANGED run
        /\ calls' = (calls \ {<<j, i, "failed">>}) \cup {<<j, i, "mark">>}
    BY <1>MarkFailedClean DEF MarkFailedClean
  <2>2. <<j, i, "ready">> \notin calls /\ run[j][i].pc # "zip"
    BY <1>2, <2>1 DEF MatchedAt, Waited, Kinds, NoRun
  <2> QED
    BY <2>1, <2>2 DEF WrittenAt
<1>MarkFailed. ASSUME MarkFailed(j, i) PROVE WrittenAt(j, i)'
  <2>1. CASE run[j][i].pc = "failed"
    <3>set. SetRun(j, i, "clean", 0)
      BY <2>1, <1>MarkFailed DEF MarkFailed, Answer, bull, setup
    <3>run. run'[j][i] = [pc |-> "clean", n |-> 0]
      BY <3>set, RunAsked DEF Kinds
    <3> QED
      BY <1>0, <2>1, <1>MarkFailed, <3>run
      DEF MarkFailed, Answer, bull, setup, WrittenAt, Kinds, NoRun, Typed, Runs
  <2>2. CASE run[j][i].pc # "failed"
    BY <1>0, <2>2, <1>MarkFailed
    DEF MarkFailed, Answer, bull, setup, WrittenAt, Kinds, NoRun, Typed, Runs
  <2> QED
    BY <2>1, <2>2
<1> QED
  BY <1>Take, <1>TakeJob, <1>OpenPart, <1>ReportReady, <1>ZipFails, <1>GiveUp, <1>Cleanup, <1>Begin,
     <1>CollectFiles, <1>NoFiles, <1>BeginPart, <1>Finish, <1>Catch, <1>Drop, <1>Throw, <1>Collect,
     <1>MarkReady, <1>MarkFailedClean, <1>MarkFailed DEF WorkerStep, CallStep

LEMMA WrittenKept ==
  ASSUME IInv, ZipNext, owner # "links"
  PROVE  Written'
<1> USE DEF IInv
<1>Stall. ASSUME NEW j \in Job, Stall(j) PROVE Written'
  BY <1>Stall DEF Stall, core, setup, WrittenAt, Typed, Written
<1>CronPick. ASSUME NEW j \in Job, CronPick(j) PROVE Written'
  BY <1>CronPick DEF CronPick, setup, WrittenAt, Typed, Written
<1>CronRemove. ASSUME CronRemove PROVE Written'
  <2>1. UNCHANGED <<run, calls, overtaken>>
    BY <1>CronRemove DEF CronRemove, bull
  <2>2. \A k \in Job : k # cron.cur => disk'[k] = disk[k]
    BY <1>CronRemove DEF CronRemove, Typed
  <2>3. ASSUME cron.cur \in Job \ overtaken PROVE \A i \in Instance : ~Busy(cron.cur, i)
    BY <2>3, <1>CronRemove DEF CronRemove, CronFits, Over, Quiet, Typed, Crons
  <2>4. ASSUME NEW d \in Job \ overtaken, d = cron.cur, NEW i \in Instance PROVE WrittenAt(d, i)'
    <3>1. run[d][i] = NoRun /\ <<d, i, "ready">> \notin calls
      BY <2>3, <2>4 DEF Busy, Kinds
    <3>2. run'[d][i].pc # "zip" /\ <<d, i, "ready">> \notin calls'
      BY <2>1, <3>1 DEF NoRun
    <3> QED
      BY <3>2 DEF WrittenAt
  <2>5. \A k \in Job \ overtaken, i \in Instance : k # cron.cur => WrittenAt(k, i)'
    BY <2>1, <2>2 DEF Written, WrittenAt
  <2> QED
    BY <2>1, <2>4, <2>5 DEF Written
<1>GoCrash. ASSUME NEW i \in Instance, GoCrash(i) PROVE Written'
  <2>1. UNCHANGED <<calls, disk, overtaken>>
    BY <1>GoCrash DEF GoCrash, core
  <2>2. \A k \in Job, l \in Instance : run'[k][l].pc = "zip" => run'[k][l] = run[k][l]
    BY <1>GoCrash, Crashed DEF NoRun
  <2> QED
    BY <2>1, <2>2 DEF Written, WrittenAt
<1>CoreCrash. ASSUME CoreCrash PROVE Written'
  BY <1>CoreCrash DEF CoreCrash, bull, setup, WrittenAt, Typed, Written
<1>work. ASSUME NEW j \in Job, NEW i \in Instance,
              Take(j, i) \/ TakeJob(j, i) \/ WorkerStep(j, i) \/ CallStep(j, i)
       PROVE  Written'
  <2>1. Frame(j, i) /\ Effect(j, i)
    BY <1>work, WorkFrame
  <2>2. \A k \in Job, l \in Instance : k # j => (WrittenAt(k, l) => WrittenAt(k, l)')
    BY <2>1 DEF Frame, WrittenAt, Kinds
  <2>3. ASSUME j \notin overtaken', NEW l \in Instance, l # i PROVE WrittenAt(j, l)'
    <3>1. ~Busy(j, l)'
      BY <2>1, <2>3, Chosen, FrameBusy DEF Frame
    <3> QED
      BY <3>1 DEF Busy, NoRun, WrittenAt, Kinds
  <2>4. j \notin overtaken' => WrittenAt(j, i)'
    BY <1>work, WrittenHere
  <2>5. overtaken \subseteq overtaken'
    BY <2>1 DEF Frame
  <2> QED
    BY <2>2, <2>3, <2>4, <2>5 DEF Written
<1>same. CASE UNCHANGED <<overtaken, run, disk, calls>>
  BY <1>same DEF WrittenAt, Typed, Written
<1> QED
  BY <1>work, <1>Stall, <1>CronPick, <1>CronRemove, <1>GoCrash, <1>CoreCrash, <1>same
  DEF ZipNext, RequestStep, ReaderStep, CronStep, Clock, CheckJob, CheckSharedJob, CreateJob,
      Dispatch, AddJob, GetsDue, GetsOld, FindStalled, CronStart, CronMark, CronNext, KeyExpires,
      Admit, Count, Uncount, Delete, Expired, Stuck, core, bull, setup

LEMMA CronFitsKept ==
  ASSUME IInv, ZipNext, owner # "links"
  PROVE  CronFits'
<1> USE DEF IInv
<1>CreateJob. ASSUME NEW j \in Job, CreateJob(j) PROVE CronFits'
  <2>1. j \in overtaken \/ status[j] # "ready"
    BY <1>CreateJob DEF CreateJob, Over, Early
  <2>2. UNCHANGED <<cron, overtaken, due>> /\ \A k \in Job : k # j => status'[k] = status[k]
    BY <1>CreateJob DEF CreateJob, bull, Typed
  <2> QED
    BY <2>1, <2>2 DEF CronFits
<1>GetsDue. ASSUME NEW j \in Job, GetsDue(j) PROVE CronFits'
  BY <1>GetsDue DEF GetsDue, bull, setup, Typed, CronFits
<1>Stall. ASSUME NEW j \in Job, Stall(j) PROVE CronFits'
  BY <1>Stall DEF Stall, core, setup, Typed, CronFits
<1>CronStart. ASSUME CronStart PROVE CronFits'
  BY <1>CronStart DEF CronStart, Expired, bull, setup, Typed, CronFits
<1>CronPick. ASSUME NEW j \in Job, CronPick(j) PROVE CronFits'
  BY <1>CronPick DEF CronPick, setup, Typed, CronFits
<1>CronRemove. ASSUME CronRemove PROVE CronFits'
  BY <1>CronRemove DEF CronRemove, bull, setup, Typed, CronFits
<1>CronMark. ASSUME CronMark PROVE CronFits'
  BY <1>CronMark DEF CronMark, bull, setup, Typed, CronFits
<1>CronNext. ASSUME CronNext PROVE CronFits'
  <2>1. UNCHANGED <<overtaken, due, status>> /\ cron.pc = "loop" /\ cron.todo = {}
    BY <1>CronNext DEF CronNext, bull
  <2>2. CASE cron.to = "expired"
    <3>1. cron'.to = "failed" /\ cron'.pc = "loop"
      BY <1>CronNext, <2>2, <2>1 DEF CronNext, Typed, Crons
    <3> QED
      BY <3>1 DEF CronFits
  <2>3. CASE cron.to # "expired"
    <3>1. cron' = NoCron
      BY <1>CronNext, <2>3 DEF CronNext
    <3> QED
      BY <3>1 DEF CronFits, NoCron
  <2> QED
    BY <2>2, <2>3
<1>CoreCrash. ASSUME CoreCrash PROVE CronFits'
  <2>1. cron'.pc = "down" /\ cron'.to = "expired" /\ cron'.todo = {}
    BY <1>CoreCrash DEF CoreCrash, NoCron
  <2> QED
    BY <2>1 DEF CronFits
<1>work. ASSUME NEW j \in Job, NEW i \in Instance,
              Take(j, i) \/ TakeJob(j, i) \/ WorkerStep(j, i) \/ CallStep(j, i)
       PROVE  CronFits'
  <2>1. Frame(j, i) /\ Effect(j, i)
    BY <1>work, WorkFrame
  <2>2. j \notin overtaken => status[j] # "ready"
    BY <2>1, Chosen
  <2> QED
    BY <2>1, <2>2 DEF CronFits, Frame
<1>same. CASE UNCHANGED <<cron, overtaken, due, status>>
  BY <1>same DEF Typed, CronFits
<1> QED
  BY <1>work, <1>CreateJob, <1>GetsDue, <1>Stall, <1>CronStart, <1>CronPick, <1>CronRemove,
     <1>CronMark, <1>CronNext, <1>CoreCrash, <1>same DEF ZipNext, RequestStep, ReaderStep, CronStep,
     Clock, CheckJob, CheckSharedJob, Dispatch, AddJob, GetsOld, FindStalled, Take, TakeJob,
     OpenPart, ReportReady, ZipFails, Cleanup, BeginPart, Catch, Drop, MarkFailedClean, GoCrash,
     KeyExpires, Admit, Count, Uncount, Delete, At, core, bull, setup

-----------------------------------------------------------------------------
LEMMA IInitZip ==
  ASSUME Init
  PROVE  IInv
<1>1. owner \in {"go", "nest", "links"}
  BY SetupAssumption DEF Init
<1>2. NoRun \in Runs /\ NoBull \in Bulls /\ NoCron \in Crons
  BY BoundsAssumption DEF NoRun, Runs, NoBull, Bulls, NoCron, Crons
<1>3. Typed
  BY <1>2 DEF Init, Typed, NoCron
<1>4. calls = {} /\ events = {} /\ due = {} /\ cron = NoCron /\ overtaken = {}
  BY DEF Init
<1>5. /\ \A j \in Job : queue[j] = NoBull /\ status[j] = "none" /\ \A i \in Instance : run[j][i] = NoRun
  BY DEF Init
<1>6. \A j \in Job : Quiet(j) /\ \A i \in Instance : ~Busy(j, i)
  BY <1>4, <1>5 DEF Quiet, Busy, NoBull
<1>7. Ways
  BY <1>1, <1>4, <1>5 DEF Ways, NoBull, NoRun, Kinds
<1>8. NotBegun /\ Over /\ OneInGo /\ OneInNest
  BY <1>4, <1>5, <1>6 DEF NotBegun, Over, OneInGo, OneInNest
<1>9. Matched /\ Written /\ CronFits
  BY <1>4, <1>5 DEF Matched, MatchedAt, Written, WrittenAt, CronFits, NoCron, NoRun
<1> QED
  BY <1>3, <1>7, <1>8, <1>9 DEF IInv

LEMMA IStepZip ==
  ASSUME IInv, [Next]_<<vars, linkVars>>
  PROVE  IInv'
<1>1. CASE UNCHANGED vars
  <2>1. UNCHANGED <<owner, req, status, due, old, calls, cron, events, queue, disk, run, overtaken>>
    BY <1>1 DEF vars, core, setup, bull
  <2>2. Typed' /\ Ways'
    BY <2>1 DEF IInv, Typed, Ways, Early, Quiet, Busy
  <2>3. Over'
    BY <2>1 DEF IInv, Over, Early, Quiet, Busy
  <2>4. NotBegun' /\ OneInGo'
    BY <2>1 DEF IInv, NotBegun, OneInGo, Early, Quiet, Busy
  <2>5. OneInNest'
    BY <2>1 DEF IInv, OneInNest, Early, Quiet, Busy
  <2>6. Matched' /\ Written' /\ CronFits'
    BY <2>1 DEF IInv, Matched, MatchedAt, Written, WrittenAt, CronFits
  <2> QED
    BY <2>2, <2>3, <2>4, <2>5, <2>6 DEF IInv
<1>2. CASE owner # "links" /\ ZipNext
  BY <1>2, TypedKept, WaysKept, NotBegunKept, OverKept, OneInGoKept, OneInNestKept, MatchedKept,
     WrittenKept, CronFitsKept DEF IInv
<1> QED
  BY <1>1, <1>2 DEF Next

\* A ZIP that is offered is whole: the status is only set when every part was written,
\* and whoever removes the parts has the job to himself (zip_worker.go:103-177,
\* download-zip.processor.ts:60-140, 479-560).
THEOREM OfferedWhole == Spec => []OfferedIsWhole
<1>1. Init => IInv
  BY IInitZip
<1>2. IInv /\ [Next]_<<vars, linkVars>> => IInv'
  BY IStepZip
<1>3. IInv => OfferedIsWhole
  BY DEF IInv, Over, Offered, OfferedIsWhole
<1> QED
  BY <1>1, <1>2, <1>3, PTL DEF Spec

\* There are never more lookups under way than permits, nor two of one file, and
\* nobody waits for a permit that is free (client.go:347-355,
\* telegram.service.ts:454-474, 593-609).
THEOREM PermitsHold == Spec => []Permitted
<1>1. Init => LInv
  BY LInvInit DEF Init
<1>2. LInv /\ [Next]_<<vars, linkVars>> => LInv'
  BY LInvStep, LInvSame DEF Next
<1>3. LInv => Permitted
  BY DEF LInv, OneLeads, Full, Permitted, Leading
<1> QED
  BY <1>1, <1>2, <1>3, PTL DEF Spec

=============================================================================
