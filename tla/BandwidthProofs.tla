--------------------------- MODULE BandwidthProofs ---------------------------
(***************************************************************************)
(* What the bandwidth quotas promise, for every number of requests, sizes, *)
(* limits and windows, when no two requests seed one counter or reset one  *)
(* row, none crosses the boundary of a window, and no answer is lost       *)
(* (Calm): a request is judged by what the others hold, the limit of the   *)
(* day is exceeded only by those judged together, and the rows hold what   *)
(* was served.  At the end: under which URLs it is served.                 *)
(*                                                                         *)
(* What the requests hold, or have been served, is a sum over all requests *)
(* in which most count nothing.  Almost every step changes what one of     *)
(* them counts (Moved), and the invariant says how the counter and the     *)
(* rows follow the sums.                                                   *)
(***************************************************************************)
EXTENDS Bandwidth, Links, SumTheorems

Calm == Faults \subseteq {"call", "core", "crash"}

Stages == {"idle", "read", "fetched", "seeded", "streaming", "closed", "ended", "lost", "denied"}

Hashes == [exists : BOOLEAN, used : Int, reset : Nat \cup {None}]
Requests == [stage : Stages, est : Nat, full : BOOLEAN, hs : Hashes,
             fresh : [used : Int, reset : Nat, downloads : Int, bytes : Int], used : Int,
             locked : BOOLEAN, actual : Nat, window : Nat, held : Int, alone : BOOLEAN,
             wipes : BOOLEAN, rolls : BOOLEAN]

TypeOK ==
  /\ subject \in {"user", "guest"} /\ owner \in {"go", "nest"} /\ window \in Nat
  /\ user \in [used : Int, reset : Nat] /\ file \in [downloads : Int, bytes : Int, reset : Nat]
  /\ hash \in Hashes /\ req \in [Request -> Requests] /\ buffer \in SUBSET Request

-----------------------------------------------------------------------------
(* What a request counts, and the sums.                                    *)

HeldBy == [r \in Request |-> IF r \notin Current THEN 0
                             ELSE IF r \in Streaming THEN req[r].est ELSE req[r].actual]
DoubtBy == [r \in Request |-> IF r \in Unsure THEN req[r].est ELSE 0]

\* What the counter may have of a request.  One that was let through without a
\* lock gives back, in the end, what it never took.
HighBy == [r \in Request |-> IF r \notin Unsure THEN HeldBy[r]
                             ELSE IF r \in Streaming THEN 0 ELSE req[r].actual + req[r].est]

AllowedBy == [r \in Request |-> IF r \in Current /\ (~req[r].alone \/ r \in Unsure) THEN req[r].est ELSE 0]

\* The requests that the rows have counted, and those that a restart cut.
Counted == {r \in Current : req[r].stage \in {"closed", "ended"}} \ buffer
Cut == {r \in Current : owner = "nest" /\ req[r].stage = "lost"}

BytesBy == [r \in Request |-> IF r \in Counted THEN req[r].actual ELSE 0]
DownloadsBy == [r \in Request |-> IF r \in Counted /\ Downloaded(r) THEN 1 ELSE 0]
CutBy == [r \in Request |-> IF r \in Cut THEN req[r].est ELSE 0]
CutsBy == [r \in Request |-> IF r \in Cut THEN 1 ELSE 0]

HeldSum == SumFunctionOnSet(HeldBy, Request)
DoubtSum == SumFunctionOnSet(DoubtBy, Request)
HighSum == SumFunctionOnSet(HighBy, Request)
AllowedSum == SumFunctionOnSet(AllowedBy, Request)
BytesSum == SumFunctionOnSet(BytesBy, Request)
DownloadsSum == SumFunctionOnSet(DownloadsBy, Request)
CutSum == SumFunctionOnSet(CutBy, Request)
CutsSum == SumFunctionOnSet(CutsBy, Request)

LEMMA WeightsTyped ==
  ASSUME TypeOK, NEW r \in Request
  PROVE  /\ HeldBy[r] \in Nat /\ DoubtBy[r] \in Nat /\ AllowedBy[r] \in Nat /\ BytesBy[r] \in Nat
         /\ HighBy[r] \in Nat /\ DownloadsBy[r] \in Nat /\ CutBy[r] \in Nat /\ CutsBy[r] \in Nat
<1>1. req[r].est \in Nat /\ req[r].actual \in Nat
  BY DEF TypeOK, Requests
<1> QED
  BY <1>1 DEF HeldBy, DoubtBy, HighBy, AllowedBy, BytesBy, DownloadsBy, CutBy, CutsBy

LEMMA NextWeightsTyped ==
  ASSUME TypeOK', NEW r \in Request
  PROVE  /\ HeldBy'[r] \in Nat /\ DoubtBy'[r] \in Nat /\ AllowedBy'[r] \in Nat /\ BytesBy'[r] \in Nat
         /\ HighBy'[r] \in Nat /\ DownloadsBy'[r] \in Nat /\ CutBy'[r] \in Nat /\ CutsBy'[r] \in Nat
<1>1. req'[r].est \in Nat /\ req'[r].actual \in Nat
  BY DEF TypeOK, Requests
<1> QED
  BY <1>1 DEF HeldBy, DoubtBy, HighBy, AllowedBy, BytesBy, DownloadsBy, CutBy, CutsBy

LEMMA SumsTyped ==
  ASSUME TypeOK
  PROVE  /\ HeldSum \in Nat /\ DoubtSum \in Nat /\ AllowedSum \in Nat /\ BytesSum \in Nat
         /\ HighSum \in Nat /\ DownloadsSum \in Nat /\ CutSum \in Nat /\ CutsSum \in Nat
<1>1. IsFiniteSet(Request)
  BY BandwidthAssumption
<1> QED
  BY <1>1, WeightsTyped, SumNat
  DEF HeldSum, DoubtSum, HighSum, AllowedSum, BytesSum, DownloadsSum, CutSum, CutsSum

\* The sums of the model.
LEMMA SumsOfModel ==
  ASSUME TypeOK
  PROVE  /\ Held = HeldSum /\ Doubt = DoubtSum
         /\ SumFunctionOnSet(Est, {r \in Current : ~req[r].alone} \cup Unsure) = AllowedSum
         /\ SumFunctionOnSet(Actual, Counted) = BytesSum
         /\ SumFunctionOnSet(Est, Cut) = CutSum /\ Cardinality(Cut) = CutsSum
         /\ Cardinality({r \in Counted : Downloaded(r)}) = DownloadsSum
<1>1. IsFiniteSet(Request)
  BY BandwidthAssumption
<1>2. \A r \in Request : Est[r] = req[r].est /\ Actual[r] = req[r].actual /\ Est[r] \in Int /\ Actual[r] \in Int
  BY DEF TypeOK, Requests, Est, Actual
<1>3. Held = HeldSum
  <2> DEFINE f == [r \in Request |-> IF r \in Streaming THEN req[r].est ELSE req[r].actual]
             g == [r \in Request |-> IF r \in Current THEN f[r] ELSE 0]
  <2>1. \A r \in Request : f[r] \in Int /\ HeldBy[r] = g[r]
    BY <1>2 DEF HeldBy, Est, Actual
  <2>2. HeldBy = g
    BY <2>1 DEF HeldBy
  <2>3. Held = SumFunctionOnSet(f, Current) /\ Current \in SUBSET Request
    BY DEF Held, Current
  <2> HIDE DEF f
  <2>4. SumFunctionOnSet(f, Current) = SumFunctionOnSet(g, Request)
    BY <1>1, <2>1, <2>3, SumWithin
  <2> QED
    BY <2>2, <2>3, <2>4 DEF HeldSum
<1>4. ASSUME NEW T \in SUBSET Request
      PROVE  /\ SumFunctionOnSet(Est, T) = SumFunctionOnSet([r \in Request |-> IF r \in T THEN req[r].est ELSE 0], Request)
             /\ SumFunctionOnSet(Actual, T) = SumFunctionOnSet([r \in Request |-> IF r \in T THEN req[r].actual ELSE 0], Request)
  <2>1. /\ [r \in Request |-> IF r \in T THEN req[r].est ELSE 0] = [r \in Request |-> IF r \in T THEN Est[r] ELSE 0]
        /\ [r \in Request |-> IF r \in T THEN req[r].actual ELSE 0] = [r \in Request |-> IF r \in T THEN Actual[r] ELSE 0]
    BY <1>2
  <2>2. \A r \in T : Est[r] \in Int /\ Actual[r] \in Int
    BY <1>2
  <2> QED
    BY <1>1, <2>1, <2>2, SumWithin
<1>5. Doubt = DoubtSum
  BY <1>4 DEF Doubt, DoubtSum, DoubtBy, Unsure, Current
<1>6. SumFunctionOnSet(Est, {r \in Current : ~req[r].alone} \cup Unsure) = AllowedSum
  <2> DEFINE T == {r \in Current : ~req[r].alone} \cup Unsure
  <2>1. T \in SUBSET Request /\ \A r \in Request : r \in T <=> r \in Current /\ (~req[r].alone \/ r \in Unsure)
    BY DEF Unsure, Current
  <2>2. AllowedBy = [r \in Request |-> IF r \in T THEN req[r].est ELSE 0]
    BY <2>1 DEF AllowedBy
  <2> HIDE DEF T
  <2>3. SumFunctionOnSet(Est, T) = AllowedSum
    BY <1>4, <2>1, <2>2 DEF AllowedSum
  <2> QED
    BY <2>3 DEF T
<1>7. SumFunctionOnSet(Actual, Counted) = BytesSum
  BY <1>4 DEF BytesSum, BytesBy, Counted, Current
<1>8. SumFunctionOnSet(Est, Cut) = CutSum
  BY <1>4 DEF CutSum, CutBy, Cut, Current
<1>9. Cardinality(Cut) = CutsSum
  <2>1. Cut \in SUBSET Request
    BY DEF Cut, Current
  <2> QED
    BY <1>1, <2>1, SumCard DEF CutsSum, CutsBy
<1>10. Cardinality({r \in Counted : Downloaded(r)}) = DownloadsSum
  <2> DEFINE T == {r \in Counted : Downloaded(r)}
  <2>1. T \in SUBSET Request
    BY DEF Counted, Current
  <2>2. DownloadsBy = [r \in Request |-> IF r \in T THEN 1 ELSE 0]
    BY DEF DownloadsBy, Counted, Current
  <2> HIDE DEF T
  <2>3. Cardinality(T) = DownloadsSum
    BY <1>1, <2>1, <2>2, SumCard DEF DownloadsSum
  <2> QED
    BY <2>3 DEF T
<1> QED
  BY <1>3, <1>5, <1>6, <1>7, <1>8, <1>9, <1>10

\* A request that no sum tells apart from what it was.
Same(r) ==
  /\ r \in buffer <=> r \in buffer'
  /\ \/ /\ r \notin Current /\ r \notin Current'
     \/ /\ req'[r].stage = req[r].stage /\ req'[r].window = req[r].window /\ req'[r].est = req[r].est
        /\ req'[r].actual = req[r].actual /\ req'[r].full = req[r].full /\ req'[r].locked = req[r].locked
        /\ req'[r].alone = req[r].alone

LEMMA SameWeights ==
  ASSUME window' = window, owner' = owner, NEW r \in Request, Same(r)
  PROVE  /\ HeldBy'[r] = HeldBy[r] /\ DoubtBy'[r] = DoubtBy[r] /\ AllowedBy'[r] = AllowedBy[r]
         /\ BytesBy'[r] = BytesBy[r] /\ DownloadsBy'[r] = DownloadsBy[r]
         /\ HighBy'[r] = HighBy[r] /\ CutBy'[r] = CutBy[r] /\ CutsBy'[r] = CutsBy[r]
BY DEF Same, HeldBy, DoubtBy, HighBy, AllowedBy, BytesBy, DownloadsBy, CutBy, CutsBy, Counted, Cut,
   Downloaded, Current, Streaming, Unsure

\* Most steps change what one request counts.
LEMMA Moved ==
  ASSUME TypeOK, TypeOK', window' = window, owner' = owner, NEW r \in Request,
         \A s \in Request \ {r} : Same(s)
  PROVE  /\ HeldSum' = HeldSum + HeldBy'[r] - HeldBy[r]
         /\ DoubtSum' = DoubtSum + DoubtBy'[r] - DoubtBy[r]
         /\ AllowedSum' = AllowedSum + AllowedBy'[r] - AllowedBy[r]
         /\ BytesSum' = BytesSum + BytesBy'[r] - BytesBy[r]
         /\ DownloadsSum' = DownloadsSum + DownloadsBy'[r] - DownloadsBy[r]
         /\ HighSum' = HighSum + HighBy'[r] - HighBy[r]
         /\ CutSum' = CutSum + CutBy'[r] - CutBy[r]
         /\ CutsSum' = CutsSum + CutsBy'[r] - CutsBy[r]
<1>1. IsFiniteSet(Request)
  BY BandwidthAssumption
<1>2. \A s \in Request : /\ HeldBy[s] \in Nat /\ DoubtBy[s] \in Nat /\ AllowedBy[s] \in Nat /\ BytesBy[s] \in Nat
                         /\ HighBy[s] \in Nat /\ DownloadsBy[s] \in Nat /\ CutBy[s] \in Nat
                         /\ CutsBy[s] \in Nat
  BY WeightsTyped
<1>3. \A s \in Request : /\ HeldBy'[s] \in Nat /\ DoubtBy'[s] \in Nat /\ AllowedBy'[s] \in Nat /\ BytesBy'[s] \in Nat
                         /\ HighBy'[s] \in Nat /\ DownloadsBy'[s] \in Nat /\ CutBy'[s] \in Nat
                         /\ CutsBy'[s] \in Nat
  BY NextWeightsTyped
<1>4. \A s \in Request \ {r} :
        /\ HeldBy'[s] = HeldBy[s] /\ DoubtBy'[s] = DoubtBy[s] /\ AllowedBy'[s] = AllowedBy[s]
        /\ BytesBy'[s] = BytesBy[s] /\ DownloadsBy'[s] = DownloadsBy[s]
        /\ HighBy'[s] = HighBy[s] /\ CutBy'[s] = CutBy[s] /\ CutsBy'[s] = CutsBy[s]
  BY SameWeights
<1>5. ASSUME NEW f, NEW g, \A s \in Request : f[s] \in Int /\ g[s] \in Int /\ (s # r => g[s] = f[s])
      PROVE  SumFunctionOnSet(g, Request) = SumFunctionOnSet(f, Request) + g[r] - f[r]
  BY <1>1, <1>5, SumChange
<1>6. HeldSum' = HeldSum + HeldBy'[r] - HeldBy[r]
  BY <1>2, <1>3, <1>4, <1>5 DEF HeldSum
<1>7. DoubtSum' = DoubtSum + DoubtBy'[r] - DoubtBy[r]
  BY <1>2, <1>3, <1>4, <1>5 DEF DoubtSum
<1>8. AllowedSum' = AllowedSum + AllowedBy'[r] - AllowedBy[r]
  BY <1>2, <1>3, <1>4, <1>5 DEF AllowedSum
<1>9. BytesSum' = BytesSum + BytesBy'[r] - BytesBy[r]
  BY <1>2, <1>3, <1>4, <1>5 DEF BytesSum
<1>10. DownloadsSum' = DownloadsSum + DownloadsBy'[r] - DownloadsBy[r]
  BY <1>2, <1>3, <1>4, <1>5 DEF DownloadsSum
<1>11. CutSum' = CutSum + CutBy'[r] - CutBy[r]
  BY <1>2, <1>3, <1>4, <1>5 DEF CutSum
<1>12. CutsSum' = CutsSum + CutsBy'[r] - CutsBy[r]
  BY <1>2, <1>3, <1>4, <1>5 DEF CutsSum
<1>13. HighSum' = HighSum + HighBy'[r] - HighBy[r]
  BY <1>2, <1>3, <1>4, <1>5 DEF HighSum
<1> QED
  BY <1>6, <1>7, <1>8, <1>9, <1>10, <1>11, <1>12, <1>13
-----------------------------------------------------------------------------
(* The invariant.                                                          *)

\* No more is refunded than was asked for, and no request outlives its window.
Dated ==
  /\ user.reset <= window /\ file.reset <= window
  /\ (hash.exists => hash.reset \in Nat /\ hash.reset <= window)
  /\ hash.exists <=> hash.reset # None
  /\ \A r \in Request :
       /\ req[r].window <= window /\ req[r].actual <= req[r].est
       /\ req[r].stage \in {"streaming", "closed"} => req[r].window = window
       /\ r \in buffer => req[r].stage \in {"closed", "ended"} /\ req[r].window = window

\* The counter of the transfer service is one of this window.
Fresh == hash.exists /\ hash.reset = window

\* The counter and the row follow the sums.
Seeded ==
  /\ ~Fresh => Streaming = {} /\ buffer = {} /\ (subject = "guest" => Current = {})
  /\ Fresh \/ Current # {} => user.reset = window /\ file.reset = window
  /\ Fresh => HeldSum - DoubtSum <= hash.used /\ hash.used <= HighSum
  /\ subject = "guest" => user.used = 0
  /\ subject = "user" /\ user.reset = window => user.used = BytesSum

\* n is right about what r was judged against.
Right(r, n) == req[r].held - DoubtSum <= n /\ n <= req[r].held + DoubtSum

\* What a request has read holds still, or it has the counter to itself.
Reading(r) ==
  /\ req[r].hs.exists <=> req[r].hs.reset # None
  /\ req[r].hs.reset = window => Fresh /\ Right(r, req[r].hs.used)
  /\ req[r].hs.reset # window => ~Fresh /\ req[r].hs = hash /\ Judging = {r} /\ req[r].held = HeldSum

Fetched(r) ==
  /\ req[r].fresh.reset = window /\ user.reset = window /\ file.reset = window
  /\ req[r].hs.reset # window => req[r].fresh.used = user.used

Asking(r) ==
  /\ ~req[r].rolls /\ ~req[r].wipes /\ req[r].stage # "closed"
  /\ req[r].stage \in {"read", "fetched"} => Reading(r)
  /\ req[r].stage = "fetched" => Fetched(r)
  /\ req[r].stage = "seeded" => Fresh /\ Right(r, req[r].used)

Go == Seeded /\ \A r \in Request : Asking(r)

Busy == Judging \cup Streaming

\* Whoever resets the row of the subject is alone with it until he has closed.
Rolling(r) ==
  /\ req[r].stage # "read" /\ Busy = {r} /\ Current \subseteq {r}
  /\ req[r].stage = "seeded" => user.reset < window /\ req[r].used = 0 /\ req[r].held = 0
  /\ req[r].stage # "seeded" => user.reset = window

\* So is whoever resets the row of the file, until he has done it.
Wiping(r) == file.reset < window /\ \A s \in Request \ {r} : s \notin Busy \cup buffer /\ ~req[s].wipes

Serving(r) ==
  /\ req[r].stage # "fetched"
  /\ r \in Busy /\ req[r].rolls => Rolling(r)
  /\ req[r].stage = "seeded" => req[r].used = req[r].held /\ (req[r].rolls \/ user.reset = window)
  /\ req[r].wipes => Wiping(r)
  /\ r \in Busy \cup buffer => req[r].wipes \/ file.reset = window

\* The rows of the subject and of the file are the sums, once they are reset.
Rows ==
  /\ user.reset < window => Current = {} /\ \A r, s \in Judging : r = s
  /\ user.reset = window => user.used = HeldSum
  /\ file.reset < window => Counted = {}

Nest == Rows /\ \A r \in Request : Serving(r)

FileFits ==
  file.reset = window =>
    /\ file.bytes - BytesSum \in 0 .. CutSum
    /\ file.downloads - DownloadsSum \in 0 .. CutsSum

\* Whoever is judged alone sees all that is held.
Lonely ==
  \A r \in Judging : req[r].alone =>
    /\ Judging = {r}
    /\ (owner = "nest" /\ req[r].stage = "read") \/ HeldSum <= req[r].held

Fits == HeldSum <= DailyLimit + AllowedSum

Inv == Dated /\ (owner = "go" => Go) /\ (owner = "nest" => Nest) /\ FileFits /\ Lonely /\ Fits

LEMMA Quiet ==
  ASSUME window' = window, owner' = owner, \A s \in Request : Same(s)
  PROVE  /\ HeldSum' = HeldSum /\ DoubtSum' = DoubtSum /\ AllowedSum' = AllowedSum /\ BytesSum' = BytesSum
         /\ HighSum' = HighSum /\ DownloadsSum' = DownloadsSum /\ CutSum' = CutSum /\ CutsSum' = CutsSum
<1>1. /\ HeldBy' = HeldBy /\ DoubtBy' = DoubtBy /\ AllowedBy' = AllowedBy /\ BytesBy' = BytesBy
      /\ HighBy' = HighBy /\ DownloadsBy' = DownloadsBy /\ CutBy' = CutBy /\ CutsBy' = CutsBy
  <2>1. /\ HeldBy = [s \in Request |-> HeldBy[s]] /\ HeldBy' = [s \in Request |-> HeldBy'[s]]
        /\ DoubtBy = [s \in Request |-> DoubtBy[s]] /\ DoubtBy' = [s \in Request |-> DoubtBy'[s]]
        /\ AllowedBy = [s \in Request |-> AllowedBy[s]] /\ AllowedBy' = [s \in Request |-> AllowedBy'[s]]
        /\ BytesBy = [s \in Request |-> BytesBy[s]] /\ BytesBy' = [s \in Request |-> BytesBy'[s]]
        /\ DownloadsBy = [s \in Request |-> DownloadsBy[s]]
        /\ DownloadsBy' = [s \in Request |-> DownloadsBy'[s]]
        /\ HighBy = [s \in Request |-> HighBy[s]] /\ HighBy' = [s \in Request |-> HighBy'[s]]
        /\ CutBy = [s \in Request |-> CutBy[s]] /\ CutBy' = [s \in Request |-> CutBy'[s]]
        /\ CutsBy = [s \in Request |-> CutsBy[s]] /\ CutsBy' = [s \in Request |-> CutsBy'[s]]
    BY DEF HeldBy, DoubtBy, HighBy, AllowedBy, BytesBy, DownloadsBy, CutBy, CutsBy
  <2>2. \A s \in Request :
          /\ HeldBy'[s] = HeldBy[s] /\ DoubtBy'[s] = DoubtBy[s] /\ AllowedBy'[s] = AllowedBy[s]
          /\ BytesBy'[s] = BytesBy[s] /\ DownloadsBy'[s] = DownloadsBy[s]
          /\ HighBy'[s] = HighBy[s] /\ CutBy'[s] = CutBy[s] /\ CutsBy'[s] = CutsBy[s]
    BY SameWeights
  <2> QED
    BY <2>1, <2>2
<1> QED
  BY <1>1 DEF HeldSum, DoubtSum, HighSum, AllowedSum, BytesSum, DownloadsSum, CutSum, CutsSum

\* The counter has at most what is held, and what is in doubt.
LEMMA HighHeld ==
  ASSUME TypeOK
  PROVE  HighSum <= HeldSum + DoubtSum
<1> DEFINE zero == [s \in Request |-> 0]
<1>1. IsFiniteSet(Request)
  BY BandwidthAssumption
<1>2. \A s \in Request : HighBy[s] \in Int /\ HeldBy[s] \in Int /\ DoubtBy[s] \in Int /\ zero[s] \in Int /\ zero[s] = 0
  BY WeightsTyped
<1>3. \A s \in Request : HighBy[s] + zero[s] <= HeldBy[s] + DoubtBy[s]
  <2> TAKE s \in Request
  <2>1. req[s].est \in Nat /\ req[s].actual \in Nat
    BY DEF TypeOK, Requests
  <2> QED
    BY <2>1 DEF HighBy, HeldBy, DoubtBy, Unsure
<1> HIDE DEF zero
<1>4. HighSum + SumFunctionOnSet(zero, Request) <= HeldSum + DoubtSum
  BY <1>1, <1>2, <1>3, SumCross DEF HighSum, HeldSum, DoubtSum
<1>5. SumFunctionOnSet(zero, Request) = 0
  BY <1>1, <1>2, SumZero
<1> QED
  BY <1>4, <1>5, SumsTyped

LEMMA Stutter ==
  ASSUME Inv, UNCHANGED vars
  PROVE  Inv'
<1>1. \A s \in Request : Same(s)
  BY DEF vars, Same
<1>2. /\ HeldSum' = HeldSum /\ DoubtSum' = DoubtSum /\ AllowedSum' = AllowedSum /\ BytesSum' = BytesSum
      /\ HighSum' = HighSum /\ DownloadsSum' = DownloadsSum /\ CutSum' = CutSum /\ CutsSum' = CutsSum
  BY <1>1, Quiet DEF vars
<1>3. Judging' = Judging /\ Streaming' = Streaming /\ Current' = Current
  BY DEF vars, Judging, Streaming, Current
<1>4. Counted' = Counted
  BY <1>3 DEF vars, Counted
<1>5. Dated'
  BY DEF vars, Inv, Dated
<1>6. Seeded <=> Seeded'
  BY <1>2, <1>3 DEF vars, Seeded, Fresh
<1>7. ASSUME NEW s \in Request PROVE Asking(s) <=> Asking(s)'
  BY <1>2, <1>3 DEF vars, Asking, Fresh, Right, Reading, Fetched
<1>8. owner = "go" => Go'
  BY <1>6, <1>7 DEF vars, Inv, Go
<1>9. owner = "nest" => Nest'
  BY <1>2, <1>3, <1>4 DEF vars, Inv, Nest, Rows, Serving, Rolling, Wiping, Busy
<1>10. FileFits' /\ Lonely' /\ Fits'
  BY <1>2, <1>3 DEF vars, Inv, FileFits, Lonely, Fits
<1> QED
  BY <1>5, <1>8, <1>9, <1>10 DEF vars, Inv

LEMMA StartKeeps ==
  ASSUME Calm, TypeOK, TypeOK', Inv, NEW r \in Request, NEW est \in Size, NEW full \in BOOLEAN, Start(r, est, full)
  PROVE  Inv'
<1> USE DEF TypeOK, Requests, Stages, Asking
<1>1. /\ owner = "go" /\ UNCHANGED <<subject, owner, window, user, file, hash, buffer>>
      /\ req[r].stage = "idle" /\ req'[r].stage = "read" /\ req'[r].hs = hash /\ req'[r].held = HeldSum
      /\ req'[r].actual = 0 /\ req'[r].est = est /\ est \in Nat /\ req'[r].window = 0
      /\ req'[r].alone = (Judging = {})
      /\ ~req'[r].rolls /\ ~req'[r].wipes
  BY BandwidthAssumption, SumsOfModel DEF Start, Judge, Idle
<1>2. \A s \in Request \ {r} : req'[s] = [req[s] EXCEPT !.alone = @ /\ s \notin Judging]
  BY DEF Start, Judge
<1>3. \A s \in Request \ {r} :
        /\ req'[s].stage = req[s].stage /\ req'[s].est = req[s].est /\ req'[s].actual = req[s].actual
        /\ req'[s].full = req[s].full /\ req'[s].window = req[s].window /\ req'[s].locked = req[s].locked
        /\ req'[s].alone = (req[s].alone /\ s \notin Judging) /\ req'[s].hs = req[s].hs
        /\ req'[s].fresh = req[s].fresh
        /\ req'[s].held = req[s].held /\ req'[s].used = req[s].used /\ req'[s].rolls = req[s].rolls
        /\ req'[s].wipes = req[s].wipes
  BY <1>2
<1>4. Judging' = Judging \cup {r} /\ Streaming' = Streaming /\ Current' = Current
  <2>1. Judging' = Judging \cup {r}
    BY <1>1, <1>3 DEF Judging
  <2>2. Streaming' = Streaming
    BY <1>1, <1>3 DEF Streaming
  <2>3. Current' = Current
    BY <1>1, <1>3 DEF Current
  <2> QED
    BY <2>1, <2>2, <2>3
<1>5. \A s \in Request : Same(s)
  BY <1>1, <1>3, <1>4, SMTT(30) DEF Same, Current, Judging
<1>6. /\ HeldSum' = HeldSum /\ DoubtSum' = DoubtSum /\ AllowedSum' = AllowedSum /\ BytesSum' = BytesSum
      /\ HighSum' = HighSum /\ DownloadsSum' = DownloadsSum /\ CutSum' = CutSum /\ CutsSum' = CutsSum
  BY <1>1, <1>5, Quiet
<1>7. /\ HeldSum \in Nat /\ DoubtSum \in Nat /\ HighSum \in Nat /\ AllowedSum \in Nat
  BY SumsTyped
<1>8. Dated'
  BY <1>1, <1>3 DEF Inv, Dated
<1>9. SeedsAlone /\ "race" \notin Faults
  BY DEF Start, Calm
<1>10. Go'
  <2>1. Seeded /\ Dated
    BY <1>1 DEF Inv, Go
  <2>2. Seeded'
    BY <1>1, <1>4, <1>6, <2>1 DEF Seeded, Fresh
  <2>3. Reading(r)'
    <3>1. hash.reset = window => Fresh /\ HeldSum - DoubtSum <= hash.used /\ hash.used <= HeldSum + DoubtSum
      BY <1>7, <2>1, HighHeld, BandwidthAssumption DEF Seeded, Dated, Fresh, Hashes
    <3>2. hash.reset # window => ~Fresh /\ Judging = {}
      BY <1>9 DEF SeedsAlone, Fresh
    <3>3. Fresh' = Fresh
      BY <1>1 DEF Fresh
    <3> QED
      BY <1>1, <1>4, <1>6, <2>1, <3>1, <3>2, <3>3 DEF Dated, Reading, Right
  <2>4. ASSUME NEW s \in Request, s # r, req[s].stage \in {"read", "fetched"} PROVE Reading(s)'
    <3>1. Reading(s) /\ s \in Judging /\ Fresh' = Fresh
      BY <1>1, <2>4 DEF Inv, Go, Judging, Fresh
    <3>2. req[s].hs.reset = window
      BY <1>9, <3>1 DEF SeedsAlone
    <3> QED
      BY <1>1, <1>3, <1>6, <2>4, <3>1, <3>2 DEF Reading, Right
  <2>5. ASSUME NEW s \in Request, s # r, req[s].stage = "fetched" PROVE Fetched(s)'
    BY <1>1, <1>3, <2>5 DEF Inv, Go, Fetched
  <2>6. ASSUME NEW s \in Request, s # r, req[s].stage = "seeded" PROVE (Fresh /\ Right(s, req[s].used))'
    BY <1>1, <1>3, <1>6, <2>6 DEF Inv, Go, Fresh, Right
  <2>7. \A s \in Request : ~req'[s].rolls /\ ~req'[s].wipes /\ req'[s].stage # "closed"
    BY <1>1, <1>3 DEF Inv, Go
  <2> QED
    BY <1>1, <1>3, <2>2, <2>3, <2>4, <2>5, <2>6, <2>7 DEF Go
<1>11. FileFits' /\ Fits'
  BY <1>1, <1>6 DEF Inv, FileFits, Fits
<1>12. Lonely'
  BY <1>1, <1>3, <1>4, <1>6, <1>7 DEF Inv, Lonely, Judging
<1> QED
  BY <1>1, <1>8, <1>10, <1>11, <1>12 DEF Inv
\* Nothing is held, or has been served, in a window in which nothing was let through.
LEMMA NoneCurrent ==
  ASSUME Current = {}
  PROVE  /\ HeldSum = 0 /\ DoubtSum = 0 /\ AllowedSum = 0 /\ BytesSum = 0
         /\ HighSum = 0 /\ DownloadsSum = 0 /\ CutSum = 0 /\ CutsSum = 0
<1>1. IsFiniteSet(Request)
  BY BandwidthAssumption
<1>2. \A s \in Request :
        /\ HeldBy[s] = 0 /\ DoubtBy[s] = 0 /\ AllowedBy[s] = 0 /\ BytesBy[s] = 0
        /\ HighBy[s] = 0 /\ DownloadsBy[s] = 0 /\ CutBy[s] = 0 /\ CutsBy[s] = 0
  BY
  DEF HeldBy, DoubtBy, HighBy, AllowedBy, BytesBy, DownloadsBy, CutBy, CutsBy, Counted, Cut, Unsure
<1> QED
  BY <1>1, <1>2, SumZero
  DEF HeldSum, DoubtSum, HighSum, AllowedSum, BytesSum, DownloadsSum, CutSum, CutsSum

\* What is in doubt was allowed.
LEMMA DoubtAllowed ==
  ASSUME TypeOK
  PROVE  DoubtSum <= AllowedSum
<1>1. IsFiniteSet(Request)
  BY BandwidthAssumption
<1>2. \A s \in Request : DoubtBy[s] \in Int /\ AllowedBy[s] \in Int
  BY WeightsTyped
<1>3. \A s \in Request : DoubtBy[s] <= AllowedBy[s]
  <2> TAKE s \in Request
  <2>1. req[s].est \in Nat
    BY DEF TypeOK, Requests
  <2> QED
    BY <2>1 DEF DoubtBy, HighBy, AllowedBy, Unsure
<1> QED
  BY <1>1, <1>2, <1>3, SumLeq DEF DoubtSum, HighSum, AllowedSum

LEMMA FetchKeeps ==
  ASSUME Calm, TypeOK, TypeOK', Inv, NEW r \in Request, Fetch(r)
  PROVE  Inv'
<1> USE DEF TypeOK, Requests, Stages, Asking
<1>1. /\ owner = "go" /\ UNCHANGED <<subject, owner, window, hash, buffer>>
      /\ user' = Rolled(user) /\ file' = RolledFile /\ req[r].stage = "read"
      /\ req' = [req EXCEPT ![r].stage = "fetched", ![r].fresh = Snapshot]
  BY DEF Fetch
<1>2. /\ req'[r].stage = "fetched" /\ req'[r].fresh = Snapshot /\ req'[r].est = req[r].est
      /\ req'[r].actual = req[r].actual /\ req'[r].window = req[r].window /\ req'[r].alone = req[r].alone
      /\ req'[r].hs = req[r].hs /\ req'[r].held = req[r].held /\ req'[r].rolls = req[r].rolls
      /\ req'[r].wipes = req[r].wipes
      /\ \A s \in Request \ {r} : req'[s] = req[s]
  BY <1>1
<1>3. Judging' = Judging /\ Streaming' = Streaming /\ Current' = Current
  BY <1>1, <1>2 DEF Judging, Streaming, Current
<1>4. \A s \in Request : Same(s)
  BY <1>1, <1>2, <1>3 DEF Same, Current
<1>5. /\ HeldSum' = HeldSum /\ DoubtSum' = DoubtSum /\ AllowedSum' = AllowedSum /\ BytesSum' = BytesSum
      /\ HighSum' = HighSum /\ DownloadsSum' = DownloadsSum /\ CutSum' = CutSum /\ CutsSum' = CutsSum
  BY <1>1, <1>4, Quiet
<1>6. /\ HeldSum \in Nat /\ DoubtSum \in Nat /\ AllowedSum \in Nat /\ BytesSum \in Nat /\ CutSum \in Nat
      /\ HighSum \in Nat /\ DownloadsSum \in Nat /\ CutsSum \in Nat
  BY SumsTyped
<1>7. Dated'
  BY <1>1, <1>2, <1>3 DEF Inv, Dated, Rolled, RolledFile, Elapsed
<1>8. user.reset = window => user' = user
  BY <1>1 DEF Rolled, Elapsed
<1>9. user.reset # window => ~Fresh /\ Current = {} /\ BytesSum = 0
  BY <1>1, NoneCurrent DEF Inv, Go, Seeded
<1>10. file.reset = window => file' = file
  BY <1>1 DEF RolledFile, Elapsed
<1>11. file.reset # window => ~Fresh /\ Current = {} /\ BytesSum = 0 /\ DownloadsSum = 0
  BY <1>1, NoneCurrent DEF Inv, Go, Seeded
<1>12. /\ user.reset # window => Elapsed(user) /\ user.reset \in Nat
       /\ file.reset # window => Elapsed(file)
  <2>1. /\ user.reset \in Nat /\ file.reset \in Nat /\ window \in Nat /\ user.reset <= window
        /\ file.reset <= window
    BY DEF Inv, Dated
  <2> QED
    BY ONLY <2>1 DEF Elapsed
<1>13. /\ user.reset # window => user'.used = 0 /\ user'.reset = window
       /\ file.reset # window => file'.bytes = 0 /\ file'.downloads = 0 /\ file'.reset = window
  BY <1>1, <1>12 DEF Rolled, RolledFile
<1>14. /\ user'.reset = window /\ file'.reset = window /\ req'[r].fresh.reset = window
       /\ req'[r].fresh.used = user'.used
  BY <1>1, <1>2, <1>8, <1>10, <1>13 DEF Snapshot
<1>15. Go'
  <2>1. Seeded'
    BY <1>1, <1>3, <1>5, <1>8, <1>9, <1>13, <1>14 DEF Inv, Go, Seeded, Fresh
  <2>2. \A s \in Request : req[s].stage = "fetched" => Fetched(s)
    BY <1>1 DEF Inv, Go
  <2> QED
    BY <1>1, <1>2, <1>3, <1>5, <1>8, <1>14, <2>1, <2>2 DEF Inv, Go, Reading, Fetched, Right, Fresh
<1>16. FileFits' /\ Fits'
  BY <1>1, <1>5, <1>6, <1>10, <1>11, <1>13 DEF Inv, FileFits, Fits
<1>17. Lonely'
  BY <1>1, <1>2, <1>3, <1>5 DEF Inv, Lonely, Judging
<1> QED
  BY <1>1, <1>7, <1>15, <1>16, <1>17 DEF Inv

\* While there is a counter, what another request has read holds still.
LEMMA Other ==
  ASSUME TypeOK, TypeOK', NEW s \in Request, Asking(s), req'[s] = req[s], window' = window, Fresh, Fresh',
         user.reset = window => user'.reset = window, file.reset = window => file'.reset = window,
         DoubtSum \in Nat, DoubtSum' \in Nat, DoubtSum <= DoubtSum'
  PROVE  Asking(s)'
<1>1. req[s].used \in Int /\ req[s].held \in Int /\ req[s].hs.used \in Int
  BY DEF TypeOK, Requests, Hashes
<1>2. ASSUME NEW n \in Int, Right(s, n) PROVE req[s].held - DoubtSum' <= n /\ n <= req[s].held + DoubtSum'
  BY <1>1, <1>2 DEF Right
<1>3. req[s].stage \in {"read", "fetched"} => Reading(s)'
  BY <1>1, <1>2 DEF Asking, Reading, Right
<1>4. req[s].stage = "fetched" => Fetched(s)'
  BY <1>3 DEF Asking, Fetched, Reading
<1>5. req[s].stage = "seeded" => Right(s, req[s].used)'
  BY <1>1, <1>2 DEF Asking, Right
<1> QED
  BY <1>3, <1>4, <1>5 DEF Asking

LEMMA FailOpenKeeps ==
  ASSUME Calm, TypeOK, TypeOK', Inv, NEW r \in Request, FailOpen(r)
  PROVE  Inv'
<1> USE DEF TypeOK, Requests, Stages, Asking
<1>1. /\ owner = "go" /\ UNCHANGED <<subject, owner, window, user, file, hash, buffer>>
      /\ req[r].stage = "read" /\ hash.exists /\ hash.reset = window
  BY DEF FailOpen, Calm
<1>2. /\ req'[r].stage = "streaming" /\ req'[r].est = req[r].est /\ ~req'[r].locked
      /\ req'[r].actual = 0 /\ req'[r].window = window /\ req'[r].alone = req[r].alone
      /\ req'[r].rolls = req[r].rolls /\ ~req'[r].wipes
      /\ \A s \in Request \ {r} : req'[s] = req[s]
  BY DEF FailOpen, Through, Idle
<1>3. /\ Judging' = Judging \ {r} /\ Streaming' = Streaming \cup {r} /\ Current' = Current \cup {r}
      /\ r \notin Current
  BY <1>1, <1>2 DEF Judging, Streaming, Current
<1>4. r \notin buffer
  BY <1>1 DEF Inv, Dated
<1>5. \A s \in Request \ {r} : Same(s)
  BY <1>1, <1>2 DEF Same
<1>6. /\ HeldBy'[r] = req[r].est /\ HeldBy[r] = 0 /\ DoubtBy'[r] = req[r].est /\ DoubtBy[r] = 0
      /\ HighBy'[r] = 0 /\ HighBy[r] = 0 /\ AllowedBy'[r] = req[r].est /\ AllowedBy[r] = 0 /\ BytesBy'[r] = 0
      /\ BytesBy[r] = 0
      /\ DownloadsBy'[r] = 0 /\ DownloadsBy[r] = 0 /\ CutBy'[r] = 0 /\ CutBy[r] = 0
      /\ CutsBy'[r] = 0 /\ CutsBy[r] = 0
  BY <1>1, <1>2, <1>3 DEF HeldBy, DoubtBy, HighBy, AllowedBy, BytesBy, DownloadsBy, CutBy, CutsBy,
     Counted, Cut, Unsure, Streaming
<1>7. /\ HighSum \in Nat /\ HeldSum \in Nat /\ DoubtSum \in Nat /\ AllowedSum \in Nat /\ BytesSum \in Nat
      /\ CutSum \in Nat
      /\ HighSum \in Nat /\ DownloadsSum \in Nat /\ CutsSum \in Nat /\ req[r].est \in Nat
      /\ hash.used \in Int /\ DailyLimit \in Nat
  BY SumsTyped, BandwidthAssumption DEF Hashes
<1>8. /\ HeldSum' = HeldSum + req[r].est /\ DoubtSum' = DoubtSum + req[r].est
      /\ AllowedSum' = AllowedSum + req[r].est
      /\ BytesSum' = BytesSum /\ HighSum' = HighSum /\ DownloadsSum' = DownloadsSum /\ CutSum' = CutSum
      /\ CutsSum' = CutsSum
  BY <1>1, <1>5, <1>6, <1>7, Moved
<1>9. Dated'
  BY <1>1, <1>2, <1>3 DEF Inv, Dated
<1>10. Go'
  <2>1. Seeded'
    BY <1>1, <1>2, <1>3, <1>7, <1>8 DEF Inv, Go, Seeded, Fresh
  <2>2. ASSUME NEW s \in Request, s # r PROVE Asking(s)'
    BY <1>1, <1>2, <1>7, <1>8, <2>2, Other DEF Inv, Go, Fresh
  <2>3. Asking(r)'
    BY <1>1, <1>2 DEF Inv, Go
  <2> QED
    BY <2>1, <2>2, <2>3 DEF Go
<1>11. FileFits' /\ Fits'
  BY <1>1, <1>7, <1>8 DEF Inv, FileFits, Fits
<1>12. Lonely'
  BY <1>1, <1>2, <1>3, <1>8 DEF Inv, Lonely, Judging
<1> QED
  BY <1>1, <1>9, <1>10, <1>11, <1>12 DEF Inv

LEMMA LockKeeps ==
  ASSUME Calm, TypeOK, TypeOK', Inv, NEW r \in Request, Lock(r)
  PROVE  Inv'
<1> USE DEF TypeOK, Requests, Stages, Asking
<1>1. /\ owner = "go" /\ UNCHANGED <<subject, owner, window, user, file, buffer>>
      /\ req[r].stage = "seeded" /\ DailyAllows(r) /\ hash' = Add(req[r].est)
  BY DEF Lock
<1>2. /\ req'[r].stage = "streaming" /\ req'[r].est = req[r].est /\ req'[r].locked
      /\ req'[r].actual = 0 /\ req'[r].window = window /\ req'[r].alone = req[r].alone
      /\ req'[r].rolls = req[r].rolls /\ ~req'[r].wipes
      /\ \A s \in Request \ {r} : req'[s] = req[s]
  BY DEF Lock, Through, Idle
<1>3. /\ Judging' = Judging \ {r} /\ Streaming' = Streaming \cup {r} /\ Current' = Current \cup {r}
      /\ r \notin Current
  BY <1>1, <1>2 DEF Judging, Streaming, Current
<1>4. r \notin buffer /\ Fresh /\ Right(r, req[r].used) /\ req[r].est \in Nat
  BY <1>1 DEF Inv, Dated, Go
<1>5. hash'.exists /\ hash'.reset = window /\ hash'.used = hash.used + req[r].est
  BY <1>1, <1>4 DEF Add, Fresh, Hashes
<1>6. \A s \in Request \ {r} : Same(s)
  BY <1>1, <1>2 DEF Same
<1>7. /\ HeldBy'[r] = req[r].est /\ HeldBy[r] = 0 /\ DoubtBy'[r] = 0 /\ DoubtBy[r] = 0
      /\ HighBy'[r] = req[r].est /\ HighBy[r] = 0 /\ AllowedBy'[r] = (IF req[r].alone THEN 0 ELSE req[r].est)
      /\ AllowedBy[r] = 0 /\ BytesBy'[r] = 0 /\ BytesBy[r] = 0
      /\ DownloadsBy'[r] = 0 /\ DownloadsBy[r] = 0 /\ CutBy'[r] = 0 /\ CutBy[r] = 0
      /\ CutsBy'[r] = 0 /\ CutsBy[r] = 0
  BY <1>1, <1>2, <1>3
  DEF HeldBy, DoubtBy, HighBy, AllowedBy, BytesBy, DownloadsBy, CutBy, CutsBy, Counted, Cut, Unsure
<1>8. /\ HeldSum \in Nat /\ DoubtSum \in Nat /\ AllowedSum \in Nat /\ BytesSum \in Nat /\ CutSum \in Nat
      /\ HighSum \in Nat /\ DownloadsSum \in Nat /\ CutsSum \in Nat /\ req[r].est \in Nat /\ hash.used \in Int
  BY SumsTyped DEF Hashes
<1>9. /\ HighSum' = HighSum + req[r].est /\ HeldSum' = HeldSum + req[r].est /\ DoubtSum' = DoubtSum
      /\ AllowedSum' = AllowedSum + (IF req[r].alone THEN 0 ELSE req[r].est)
      /\ BytesSum' = BytesSum /\ DownloadsSum' = DownloadsSum /\ CutSum' = CutSum /\ CutsSum' = CutsSum
  BY <1>1, <1>6, <1>7, <1>8, Moved
<1>10. Dated'
  <2>1. hash'.reset # None
    BY <1>5, BandwidthAssumption
  <2>2. \A s \in Request : req'[s].window <= window' /\ req'[s].actual <= req'[s].est
    BY <1>1, <1>2, <1>4 DEF Inv, Dated
  <2> QED
    BY <1>1, <1>2, <1>4, <1>5, <2>1, <2>2 DEF Inv, Dated
<1>11. Go'
  <2>1. Seeded'
    BY <1>1, <1>2, <1>3, <1>4, <1>5, <1>8, <1>9 DEF Inv, Go, Seeded, Fresh
  <2>2. ASSUME NEW s \in Request, s # r PROVE Asking(s)'
    BY <1>1, <1>2, <1>4, <1>5, <1>8, <1>9, <2>2, Other DEF Inv, Go, Fresh
  <2>3. Asking(r)'
    BY <1>1, <1>2 DEF Inv, Go
  <2> QED
    BY <2>1, <2>2, <2>3 DEF Go
<1>12. FileFits'
  BY <1>1, <1>8, <1>9 DEF Inv, FileFits
<1>13. Fits'
  <2>1. DoubtSum <= AllowedSum
    BY DoubtAllowed
  <2>2. req[r].alone => HeldSum <= req[r].held
    BY <1>1 DEF Inv, Lonely, Judging
  <2>3. /\ req[r].used + req[r].est <= DailyLimit /\ req[r].used \in Int /\ req[r].held \in Int
        /\ DailyLimit \in Nat
    BY <1>1, BandwidthAssumption DEF DailyAllows
  <2> QED
    BY <1>4, <1>8, <1>9, <2>1, <2>2, <2>3 DEF Inv, Fits, Right
<1>14. Lonely'
  BY <1>1, <1>2, <1>3, <1>9 DEF Inv, Lonely, Judging
<1> QED
  BY <1>1, <1>10, <1>11, <1>12, <1>13, <1>14 DEF Inv
\* Between requests the row lacks at most what is in doubt.
LEMMA Served ==
  ASSUME TypeOK, Dated, Streaming = {}, buffer = {}
  PROVE  HeldSum <= BytesSum + DoubtSum /\ BytesSum <= HighSum
<1> DEFINE zero == [s \in Request |-> 0]
<1>1. IsFiniteSet(Request)
  BY BandwidthAssumption
<1>2. \A s \in Request : HighBy[s] \in Int /\ HeldBy[s] \in Int /\ BytesBy[s] \in Int /\ DoubtBy[s] \in Int /\ zero[s] \in Int
  BY WeightsTyped
<1>3. \A s \in Request : HeldBy[s] + zero[s] <= BytesBy[s] + DoubtBy[s] /\ BytesBy[s] <= HighBy[s]
  <2> TAKE s \in Request
  <2>1. req[s].est \in Nat /\ req[s].actual \in Nat /\ req[s].actual <= req[s].est
    BY DEF TypeOK, Requests, Dated
  <2> QED
    BY <2>1 DEF HeldBy, HighBy, BytesBy, DoubtBy, Unsure, Counted, Current, Streaming
<1>4. \A s \in Request : zero[s] = 0
  OBVIOUS
<1> HIDE DEF zero
<1>5. HeldSum + SumFunctionOnSet(zero, Request) <= BytesSum + DoubtSum
  BY <1>1, <1>2, <1>3, SumCross DEF HeldSum, BytesSum, DoubtSum
<1>6. SumFunctionOnSet(zero, Request) = 0
  BY <1>1, <1>4, SumZero
<1>7. BytesSum <= HighSum
  BY <1>1, <1>2, <1>3, SumLeq DEF HighSum, BytesSum
<1> QED
  BY <1>5, <1>6, <1>7, SumsTyped

LEMMA SeedKeeps ==
  ASSUME Calm, TypeOK, TypeOK', Inv, NEW r \in Request, owner = "go", Seed(r)
  PROVE  Inv'
<1> USE DEF TypeOK, Requests, Stages, Asking
<1> DEFINE seeds == ~req[r].hs.exists \/ RolledOver(req[r].hs, req[r].fresh)
<1>1. /\ UNCHANGED <<subject, owner, window, user, file, buffer>> /\ req[r].stage = "fetched"
      /\ hash' = [exists |-> TRUE, reset |-> req[r].fresh.reset, used |-> IF seeds THEN req[r].fresh.used ELSE hash.used]
      /\ req' = [req EXCEPT ![r].stage = "seeded", ![r].used = IF seeds THEN req[r].fresh.used ELSE req[r].hs.used]
  BY DEF Seed
<1>2. Reading(r) /\ Fetched(r) /\ Seeded /\ Dated
  BY <1>1 DEF Inv, Go
<1>3. seeds <=> req[r].hs.reset # window
  <2>1. req[r].hs.reset = window => ~seeds
    BY <1>2, BandwidthAssumption DEF Reading, Fetched, RolledOver
  <2>2. CASE req[r].hs.reset # window
    <3>1. req[r].hs = hash /\ (hash.exists => hash.reset \in Nat /\ hash.reset < window /\ hash.reset # None)
      <4>1. req[r].hs = hash /\ hash.reset # window /\ window \in Nat
        BY <1>2, <2>2 DEF Reading
      <4>2. hash.exists => hash.reset \in Nat /\ hash.reset <= window /\ hash.reset # None
        BY <1>2 DEF Dated
      <4> QED
        BY ONLY <4>1, <4>2
    <3> QED
      BY <1>2, <2>2, <3>1 DEF Fetched, RolledOver
  <2> QED
    BY <2>1, <2>2
<1>4. /\ req'[r].stage = "seeded" /\ req'[r].est = req[r].est
      /\ req'[r].used = (IF seeds THEN req[r].fresh.used ELSE req[r].hs.used)
      /\ req'[r].actual = req[r].actual /\ req'[r].window = req[r].window /\ req'[r].alone = req[r].alone
      /\ req'[r].held = req[r].held /\ req'[r].rolls = req[r].rolls /\ req'[r].wipes = req[r].wipes
      /\ \A s \in Request \ {r} : req'[s] = req[s]
      /\ hash'.exists /\ hash'.reset = window /\ hash'.used = (IF seeds THEN req[r].fresh.used ELSE hash.used)
  BY <1>1, <1>2 DEF Fetched
<1> HIDE DEF seeds
<1>5. Judging' = Judging /\ Streaming' = Streaming /\ Current' = Current
  BY <1>1, <1>4 DEF Judging, Streaming, Current
<1>6. \A s \in Request : Same(s)
  BY <1>1, <1>4, <1>5 DEF Same, Current
<1>7. /\ HeldSum' = HeldSum /\ DoubtSum' = DoubtSum /\ AllowedSum' = AllowedSum /\ BytesSum' = BytesSum
      /\ HighSum' = HighSum /\ DownloadsSum' = DownloadsSum /\ CutSum' = CutSum /\ CutsSum' = CutsSum
  BY <1>1, <1>6, Quiet
<1>8. /\ HighSum \in Nat /\ HighSum <= HeldSum + DoubtSum /\ HeldSum \in Nat /\ DoubtSum \in Nat
      /\ AllowedSum \in Nat /\ BytesSum \in Nat
  BY SumsTyped, HighHeld
<1>9. Dated'
  BY <1>1, <1>4, <1>5, BandwidthAssumption DEF Inv, Dated
<1>10. seeds => /\ Judging = {r} /\ req[r].held = HeldSum /\ req[r].fresh.used = user.used
                /\ HeldSum - DoubtSum <= user.used /\ user.used <= HighSum /\ HighSum <= HeldSum + DoubtSum
  <2> SUFFICES ASSUME seeds
               PROVE  /\ Judging = {r} /\ req[r].held = HeldSum /\ req[r].fresh.used = user.used
                      /\ HeldSum - DoubtSum <= user.used /\ user.used <= HighSum
                      /\ HighSum <= HeldSum + DoubtSum
    OBVIOUS
  <2>1. /\ ~Fresh /\ Judging = {r} /\ req[r].held = HeldSum /\ req[r].fresh.used = user.used
        /\ user.reset = window
    BY <1>2, <1>3 DEF Reading, Fetched
  <2>2. Streaming = {} /\ buffer = {} /\ (subject = "guest" => Current = {})
    BY <1>2, <2>1 DEF Seeded
  <2>3. CASE subject = "guest"
    BY <1>2, <2>1, <2>2, <2>3, NoneCurrent DEF Seeded
  <2>4. CASE subject = "user"
    BY <1>2, <1>8, <2>1, <2>2, <2>4, Served DEF Seeded
  <2> QED
    BY <2>1, <2>3, <2>4
<1>11. ~seeds => Fresh /\ Right(r, req[r].hs.used)
  BY <1>2, <1>3 DEF Reading
<1>12. Go'
  <2>1. Seeded'
    BY <1>1, <1>2, <1>4, <1>5, <1>7, <1>8, <1>10, <1>11 DEF Seeded, Fresh, Fetched
  <2>2. Fresh' /\ Right(r, req[r].used)'
    BY <1>1, <1>4, <1>7, <1>8, <1>10, <1>11 DEF Fresh, Right
  <2>3. Asking(r)'
    BY <1>1, <1>4, <2>2 DEF Inv, Go
  <2>4. ASSUME NEW s \in Request, s # r, ~seeds PROVE Asking(s)'
    BY <1>1, <1>4, <1>7, <1>8, <1>11, <2>2, <2>4, Other, SMTT(30) DEF Inv, Go
  <2>5. ASSUME NEW s \in Request, s # r, seeds PROVE Asking(s)'
    <3>1. s \notin Judging
      BY <1>10, <2>5
    <3> QED
      BY <1>1, <1>4, <2>5, <3>1 DEF Inv, Go, Judging
  <2> QED
    BY <2>1, <2>3, <2>4, <2>5 DEF Go
<1>13. FileFits' /\ Fits'
  BY <1>1, <1>7 DEF Inv, FileFits, Fits
<1>14. Lonely'
  BY <1>1, <1>4, <1>5, <1>7 DEF Inv, Lonely, Judging
<1> QED
  BY <1>1, <1>9, <1>12, <1>13, <1>14 DEF Inv

LEMMA DenyKeeps ==
  ASSUME Calm, TypeOK, TypeOK', Inv, NEW r \in Request, Deny(r)
  PROVE  Inv'
<1> USE DEF TypeOK, Requests, Stages, Asking
<1>1. /\ owner = "go" /\ UNCHANGED <<subject, owner, window, user, file, hash, buffer>>
      /\ req[r].stage = "seeded"
  BY DEF Deny
<1>2. /\ req'[r].stage = "denied" /\ req'[r].actual = 0 /\ req'[r].est = 0 /\ req'[r].window = 0
      /\ ~req'[r].rolls /\ ~req'[r].wipes /\ \A s \in Request \ {r} : req'[s] = req[s]
  BY DEF Deny, Refused, Idle
<1>3. Judging' = Judging \ {r} /\ Streaming' = Streaming /\ Current' = Current
  BY <1>1, <1>2 DEF Judging, Streaming, Current
<1>4. \A s \in Request : Same(s)
  BY <1>1, <1>2, <1>3 DEF Same, Current
<1>5. /\ HeldSum' = HeldSum /\ DoubtSum' = DoubtSum /\ AllowedSum' = AllowedSum /\ BytesSum' = BytesSum
      /\ HighSum' = HighSum /\ DownloadsSum' = DownloadsSum /\ CutSum' = CutSum /\ CutsSum' = CutsSum
  BY <1>1, <1>4, Quiet
<1>6. Dated'
  BY <1>1, <1>2, <1>3 DEF Inv, Dated
<1>7. Go'
  <2>1. Seeded'
    BY <1>1, <1>3, <1>5 DEF Inv, Go, Seeded, Fresh
  <2>2. Fresh /\ Fresh' /\ DoubtSum \in Nat
    BY <1>1, SumsTyped DEF Inv, Go, Fresh
  <2>3. ASSUME NEW s \in Request, s # r PROVE Asking(s)'
    BY <1>1, <1>2, <1>5, <2>2, <2>3, Other DEF Inv, Go
  <2>4. Asking(r)'
    BY <1>2
  <2> QED
    BY <2>1, <2>3, <2>4 DEF Go
<1>8. FileFits' /\ Fits'
  BY <1>1, <1>5 DEF Inv, FileFits, Fits
<1>9. Lonely'
  BY <1>1, <1>2, <1>3, <1>5 DEF Inv, Lonely, Judging
<1> QED
  BY <1>1, <1>6, <1>7, <1>8, <1>9 DEF Inv

LEMMA CloseKeeps ==
  ASSUME Calm, TypeOK, TypeOK', Inv, NEW r \in Request, NEW n \in 0 .. req[r].est, Close(r, n)
  PROVE  Inv'
<1> USE DEF TypeOK, Requests, Stages, Asking
<1>1. /\ owner = "go" /\ UNCHANGED <<subject, owner, window, user, file>> /\ req[r].stage = "streaming"
      /\ buffer' = buffer \cup {r} /\ req' = [req EXCEPT ![r].stage = "ended", ![r].actual = n]
      /\ hash' = IF req[r].est - n > 0 THEN Add(-(req[r].est - n)) ELSE hash
  BY DEF Close, Refund
<1>2. /\ req'[r].stage = "ended" /\ req'[r].est = req[r].est /\ req'[r].locked = req[r].locked
      /\ req'[r].actual = n /\ req'[r].window = req[r].window /\ req'[r].alone = req[r].alone
      /\ req'[r].rolls = req[r].rolls /\ req'[r].wipes = req[r].wipes
      /\ \A s \in Request \ {r} : req'[s] = req[s]
  BY <1>1
<1>3. /\ Judging' = Judging /\ Streaming' = Streaming \ {r} /\ r \in Streaming /\ Current' = Current
      /\ r \in Current /\ req[r].window = window
  BY <1>1, <1>2 DEF Inv, Dated, Judging, Streaming, Current
<1>4. Fresh /\ r \notin buffer /\ req[r].est \in Nat /\ n \in Nat /\ n <= req[r].est
  BY <1>1, <1>3 DEF Inv, Dated, Go, Seeded
<1>5. hash'.exists /\ hash'.reset = window /\ hash'.used = hash.used - (req[r].est - n)
  BY <1>1, <1>4 DEF Add, Fresh, Hashes
<1>6. \A s \in Request \ {r} : Same(s)
  BY <1>1, <1>2 DEF Same
<1>7. /\ HeldBy'[r] = n /\ HeldBy[r] = req[r].est /\ DoubtBy'[r] = DoubtBy[r]
      /\ HighBy'[r] \in Nat /\ HighBy[r] \in Nat /\ HighBy'[r] >= HighBy[r] - (req[r].est - n)
      /\ AllowedBy'[r] = AllowedBy[r] /\ BytesBy'[r] = 0 /\ BytesBy[r] = 0
      /\ DownloadsBy'[r] = 0 /\ DownloadsBy[r] = 0 /\ CutBy'[r] = 0 /\ CutBy[r] = 0
      /\ CutsBy'[r] = 0 /\ CutsBy[r] = 0
  BY <1>1, <1>2, <1>3, <1>4 DEF HeldBy, DoubtBy, HighBy, AllowedBy, BytesBy, DownloadsBy, CutBy,
     CutsBy, Counted, Cut, Unsure, Streaming
<1>8. /\ HeldSum \in Nat /\ DoubtSum \in Nat /\ AllowedSum \in Nat /\ BytesSum \in Nat /\ CutSum \in Nat
      /\ HighSum \in Nat /\ DownloadsSum \in Nat /\ CutsSum \in Nat /\ hash.used \in Int /\ DoubtBy[r] \in Nat
      /\ AllowedBy[r] \in Nat
  BY SumsTyped, WeightsTyped DEF Hashes
<1>9. /\ HeldSum' = HeldSum - (req[r].est - n) /\ HighSum' >= HighSum - (req[r].est - n) /\ HighSum' \in Int
      /\ DoubtSum' = DoubtSum /\ AllowedSum' = AllowedSum
      /\ BytesSum' = BytesSum /\ DownloadsSum' = DownloadsSum /\ CutSum' = CutSum /\ CutsSum' = CutsSum
  BY <1>1, <1>4, <1>6, <1>7, <1>8, Moved
<1>10. Dated'
  BY <1>1, <1>2, <1>3, <1>4, <1>5, BandwidthAssumption DEF Inv, Dated
<1>11. Go'
  <2>1. Seeded'
    BY <1>1, <1>2, <1>3, <1>4, <1>5, <1>8, <1>9 DEF Inv, Go, Seeded, Fresh
  <2>2. ASSUME NEW s \in Request, s # r PROVE Asking(s)'
    BY <1>1, <1>2, <1>4, <1>5, <1>8, <1>9, <2>2, Other DEF Inv, Go, Fresh
  <2>3. Asking(r)'
    BY <1>1, <1>2 DEF Inv, Go
  <2> QED
    BY <2>1, <2>2, <2>3 DEF Go
<1>12. FileFits' /\ Fits'
  BY <1>1, <1>4, <1>8, <1>9, BandwidthAssumption DEF Inv, FileFits, Fits
<1>13. Lonely'
  BY <1>1, <1>2, <1>3, <1>4, <1>8, <1>9 DEF Inv, Lonely, Judging
<1> QED
  BY <1>1, <1>10, <1>11, <1>12, <1>13 DEF Inv
LEMMA FlushKeeps ==
  ASSUME Calm, TypeOK, TypeOK', Inv, Flush
  PROVE  Inv'
<1> USE DEF TypeOK
<1>1. owner = "go" /\ buffer # {} /\ UNCHANGED <<subject, owner, window, hash, req>>
  BY DEF Flush
<1>2. Seeded /\ Fresh /\ user.reset = window /\ file.reset = window
  BY <1>1 DEF Inv, Go, Seeded
<1>3. CASE buffer' = buffer /\ UNCHANGED <<user, file>>
  BY <1>1, <1>3, Stutter DEF vars
<1>4. CASE buffer' = {} /\ Reconcile(buffer)
  <2> DEFINE bytes == [s \in Request |-> IF s \in buffer THEN Actual[s] ELSE 0]
             full == {s \in buffer : Downloaded(s)}
             ones == [s \in Request |-> IF s \in full THEN 1 ELSE 0]
  <2>1. IsFiniteSet(Request) /\ \A s \in Request : Actual[s] = req[s].actual /\ Actual[s] \in Nat
    BY BandwidthAssumption DEF Actual, Requests
  <2>2. /\ user'.used = (IF subject = "user" THEN user.used + SumFunctionOnSet(Actual, buffer) ELSE user.used)
        /\ user'.reset = user.reset /\ file'.reset = file.reset
        /\ file'.bytes = file.bytes + SumFunctionOnSet(Actual, buffer)
        /\ file'.downloads = file.downloads + Cardinality(full)
    BY <1>4 DEF Reconcile
  <2>3. SumFunctionOnSet(Actual, buffer) = SumFunctionOnSet(bytes, Request)
    BY <2>1, SumWithin
  <2>4. Cardinality(full) = SumFunctionOnSet(ones, Request)
    BY <2>1, SumCard
  <2>5. \A s \in Request : bytes[s] = (IF s \in buffer THEN req[s].actual ELSE 0) /\ bytes[s] \in Nat
    BY <2>1
  <2>6. \A s \in Request : ones[s] = (IF s \in buffer /\ Downloaded(s) THEN 1 ELSE 0) /\ ones[s] \in Nat
    OBVIOUS
  <2> HIDE DEF bytes, full, ones
  <2>7. Current' = Current /\ Judging' = Judging /\ Streaming' = Streaming /\ Unsure' = Unsure
    BY <1>1 DEF Current, Judging, Streaming, Unsure
  <2>8. \A s \in buffer : s \in Current /\ req[s].stage \in {"closed", "ended"}
    BY DEF Inv, Dated, Current, Streaming
  <2>9. Counted' = Counted \cup buffer /\ Cut' = Cut
    BY <1>1, <1>4, <2>7, <2>8 DEF Counted, Cut
  <2>10. /\ HeldBy' = HeldBy /\ DoubtBy' = DoubtBy /\ HighBy' = HighBy /\ AllowedBy' = AllowedBy
         /\ CutBy' = CutBy /\ CutsBy' = CutsBy
    BY <1>1, <2>7, <2>9 DEF HeldBy, DoubtBy, HighBy, AllowedBy, CutBy, CutsBy
  <2>11. /\ HeldSum' = HeldSum /\ DoubtSum' = DoubtSum /\ HighSum' = HighSum /\ AllowedSum' = AllowedSum
         /\ CutSum' = CutSum /\ CutsSum' = CutsSum
    BY <2>10 DEF HeldSum, DoubtSum, HighSum, AllowedSum, CutSum, CutsSum
  <2>12. \A s \in Request : /\ BytesBy[s] \in Int /\ bytes[s] \in Int /\ BytesBy'[s] = BytesBy[s] + bytes[s]
                            /\ DownloadsBy[s] \in Int /\ ones[s] \in Int
                            /\ DownloadsBy'[s] = DownloadsBy[s] + ones[s]
    <3> TAKE s \in Request
    <3>1. req[s].actual \in Nat
      BY DEF Requests
    <3>2. Downloaded(s)' <=> Downloaded(s)
      BY <1>1 DEF Downloaded
    <3>3. s \in buffer => s \notin Counted
      BY DEF Counted
    <3> QED
      BY <1>1, <2>5, <2>6, <2>9, <3>1, <3>2, <3>3 DEF BytesBy, DownloadsBy
  <2>13. BytesSum' = BytesSum + SumFunctionOnSet(bytes, Request)
    BY <2>1, <2>12, SumPlus DEF BytesSum
  <2>14. DownloadsSum' = DownloadsSum + SumFunctionOnSet(ones, Request)
    BY <2>1, <2>12, SumPlus DEF DownloadsSum
  <2>15. SumFunctionOnSet(bytes, Request) \in Nat /\ SumFunctionOnSet(ones, Request) \in Nat
    BY <2>1, <2>5, <2>6, SumNat
  <2>16. /\ HeldSum \in Nat /\ BytesSum \in Nat /\ HighSum \in Nat /\ DownloadsSum \in Nat /\ CutSum \in Nat
         /\ CutsSum \in Nat
    BY SumsTyped
  <2>17. Dated'
    BY <1>1, <1>4, <2>2, <2>7 DEF Inv, Dated
  <2>18. Go'
    <3>1. Seeded'
      BY <1>1, <1>2, <1>4, <2>2, <2>3, <2>7, <2>11, <2>13, <2>15, <2>16 DEF Seeded, Fresh
    <3>2. ASSUME NEW s \in Request PROVE Asking(s)'
      BY <1>1, <1>2, <2>2, <2>11, SumsTyped, Other DEF Inv, Go, Fresh
    <3> QED
      BY <3>1, <3>2 DEF Go
  <2>19. FileFits' /\ Fits'
    BY <1>1, <2>2, <2>3, <2>4, <2>11, <2>13, <2>14, <2>15, <2>16 DEF Inv, FileFits, Fits
  <2>20. Lonely'
    BY <1>1, <2>7, <2>11 DEF Inv, Lonely
  <2> QED
    BY <1>1, <2>17, <2>18, <2>19, <2>20 DEF Inv
<1> QED
  BY <1>3, <1>4 DEF Flush, Calm, KeepBatch

LEMMA ExpireKeeps ==
  ASSUME Calm, TypeOK, TypeOK', Inv, Expire
  PROVE  Inv'
<1>1. /\ owner = "go" /\ Settled /\ subject = "user" /\ hash' = NoHash
      /\ UNCHANGED <<subject, owner, window, user, file, req, buffer>>
  BY DEF Expire, Calm
<1>2. ~hash'.exists /\ hash'.reset = None /\ ~Fresh'
  BY <1>1 DEF NoHash, Fresh
<1>3. /\ Current' = Current /\ Judging' = Judging /\ Streaming' = Streaming /\ Judging = {} /\ Streaming = {}
      /\ buffer = {}
  BY <1>1 DEF Current, Judging, Streaming, Settled
<1>4. \A s \in Request : Same(s)
  BY <1>1 DEF Same
<1>5. /\ HeldSum' = HeldSum /\ DoubtSum' = DoubtSum /\ AllowedSum' = AllowedSum /\ BytesSum' = BytesSum
      /\ HighSum' = HighSum /\ DownloadsSum' = DownloadsSum /\ CutSum' = CutSum /\ CutsSum' = CutsSum
  BY <1>1, <1>4, Quiet
<1>6. Dated'
  BY <1>1, <1>2, <1>3 DEF Inv, Dated
<1>7. Go'
  <2>1. Seeded'
    BY <1>1, <1>2, <1>3, <1>5 DEF Inv, Go, Seeded
  <2>2. ASSUME NEW s \in Request PROVE Asking(s)'
    <3>1. req'[s] = req[s] /\ s \notin Judging
      BY <1>1, <1>3
    <3> QED
      BY <1>1, <3>1 DEF Inv, Go, Asking, Judging
  <2> QED
    BY <2>1, <2>2 DEF Go
<1>8. FileFits' /\ Fits' /\ Lonely'
  BY <1>1, <1>3, <1>5 DEF Inv, FileFits, Fits, Lonely
<1> QED
  BY <1>1, <1>6, <1>7, <1>8 DEF Inv

LEMMA TickKeeps ==
  ASSUME Calm, TypeOK, TypeOK', Inv, Tick
  PROVE  Inv'
<1> USE DEF TypeOK
<1>1. /\ Settled /\ window' = window + 1 /\ UNCHANGED <<subject, owner, user, file, hash, req, buffer>>
      /\ window \in Nat
  BY DEF Tick, Calm
<1>2. Judging' = {} /\ Streaming' = {} /\ buffer' = {} /\ Judging = {} /\ Streaming = {} /\ \A s \in Request : ~req[s].wipes
  BY <1>1 DEF Judging, Streaming, Settled
<1>3. Current' = {}
  <2>1. \A s \in Request : req'[s].window \in Nat /\ req'[s].window < window'
    BY <1>1 DEF Inv, Dated, Requests
  <2> QED
    BY <2>1 DEF Current
<1>4. /\ HeldSum' = 0 /\ DoubtSum' = 0 /\ AllowedSum' = 0 /\ BytesSum' = 0
      /\ HighSum' = 0 /\ DownloadsSum' = 0 /\ CutSum' = 0 /\ CutsSum' = 0
  <2>1. IsFiniteSet(Request)
    BY BandwidthAssumption
  <2>2. \A s \in Request :
          /\ HeldBy'[s] = 0 /\ DoubtBy'[s] = 0 /\ AllowedBy'[s] = 0 /\ BytesBy'[s] = 0
          /\ HighBy'[s] = 0 /\ DownloadsBy'[s] = 0 /\ CutBy'[s] = 0 /\ CutsBy'[s] = 0
    BY <1>3 DEF HeldBy, DoubtBy, HighBy, AllowedBy, BytesBy, DownloadsBy, CutBy, CutsBy, Counted,
       Cut, Unsure
  <2> QED
    BY <2>1, <2>2, SumZero
    DEF HeldSum, DoubtSum, HighSum, AllowedSum, BytesSum, DownloadsSum, CutSum, CutsSum
<1>5. /\ user.reset \in Nat /\ file.reset \in Nat /\ user'.reset < window' /\ file'.reset < window'
      /\ hash'.exists => hash'.reset \in Nat /\ hash'.reset < window'
  BY <1>1 DEF Inv, Dated
<1>6. Dated'
  <2>1. \A s \in Request : req[s].window \in Nat /\ s \notin Streaming /\ s \notin buffer'
    BY <1>1, <1>2 DEF Requests
  <2>2. \A s \in Request : req'[s] = req[s] /\ req[s].window <= window /\ req[s].actual <= req[s].est
    BY <1>1 DEF Inv, Dated
  <2>3. /\ user'.reset <= window' /\ file'.reset <= window'
        /\ (hash'.exists => hash'.reset \in Nat /\ hash'.reset <= window')
    BY <1>1, <1>5
  <2> QED
    BY <1>1, <2>1, <2>2, <2>3 DEF Inv, Dated, Streaming
<1>7. owner = "go" => Go'
  <2>1. ~Fresh'
    BY <1>5 DEF Fresh
  <2>2. owner = "go" => Seeded'
    BY <1>1, <1>2, <1>3, <1>5, <2>1 DEF Inv, Go, Seeded
  <2>3. ASSUME owner = "go", NEW s \in Request PROVE Asking(s)'
    <3>1. req'[s] = req[s] /\ s \notin Judging
      BY <1>1, <1>2
    <3> QED
      BY <1>1, <2>3, <3>1 DEF Inv, Go, Asking, Judging
  <2> QED
    BY <2>2, <2>3 DEF Go
<1>8. owner = "nest" => Nest'
  BY <1>1, <1>2, <1>3, <1>5 DEF Inv, Nest, Rows, Serving, Busy, Judging, Counted
<1>9. FileFits' /\ Fits' /\ Lonely'
  BY <1>1, <1>2, <1>4, <1>5, BandwidthAssumption DEF FileFits, Fits, Lonely
<1> QED
  BY <1>1, <1>6, <1>7, <1>8, <1>9 DEF Inv

LEMMA CrashKeeps ==
  ASSUME Calm, TypeOK, TypeOK', Inv, Crash
  PROVE  Inv'
<1> USE DEF TypeOK
<1>1. buffer' = {} /\ UNCHANGED <<subject, owner, window, user, file, hash>>
  BY DEF Crash
<1>2. \A s \in Request :
        /\ req[s].est \in Nat /\ req[s].actual \in Nat /\ req[s].actual <= req[s].est
        /\ ~req'[s].wipes
        /\ s \in Judging => req'[s].stage = "denied" /\ req'[s].window = 0 /\ req'[s].actual = 0 /\ req'[s].est = 0
                            /\ ~req'[s].rolls
        /\ s \notin Judging =>
             /\ req'[s].est = req[s].est /\ req'[s].window = req[s].window /\ req'[s].alone = req[s].alone
             /\ req'[s].locked = req[s].locked /\ req'[s].full = req[s].full /\ req'[s].rolls = req[s].rolls
        /\ s \in Streaming \cup buffer =>
             /\ req'[s].stage = "lost" /\ req[s].window = window
             /\ req'[s].actual = IF owner = "nest" /\ s \in Streaming THEN req[s].est ELSE req[s].actual
        /\ s \notin Judging \cup Streaming \cup buffer => req'[s].stage = req[s].stage /\ req'[s].actual = req[s].actual
  <2> TAKE s \in Request
  <2>1. req[s].est \in Nat /\ req[s].actual \in Nat /\ req[s].actual <= req[s].est
    BY DEF Inv, Dated, Requests
  <2>2. s \in Streaming \cup buffer => req[s].window = window /\ s \notin Judging
    BY DEF Inv, Dated, Streaming, Judging
  <2>3. CASE s \in Judging
    <3>1. req'[s] = Refused
      BY <2>2, <2>3 DEF Crash, Judging, Streaming
    <3> QED
      BY ONLY <2>1, <2>2, <2>3, <3>1 DEF Refused, Idle
  <2>4. CASE s \in Streaming \cup buffer
    <3>1. req'[s] = [req[s] EXCEPT !.stage = "lost", !.wipes = FALSE,
                                   !.actual = IF owner = "nest" /\ s \in Streaming THEN req[s].est ELSE @]
      BY <2>2, <2>4 DEF Crash
    <3> QED
      BY <2>1, <2>2, <2>4, <3>1 DEF Requests
  <2>5. CASE s \notin Judging \cup Streaming \cup buffer
    <3>1. req'[s] = [req[s] EXCEPT !.wipes = FALSE]
      BY <2>5 DEF Crash
    <3> QED
      BY <2>1, <2>5, <3>1 DEF Requests
  <2> QED
    BY <2>3, <2>4, <2>5
<1>3. /\ Judging' = {} /\ Streaming' = {} /\ Current' = Current /\ Counted' = Counted \ Streaming
      /\ Unsure' = Unsure \cup ((Streaming \cup buffer) \cap Current)
      /\ Cut' = IF owner = "nest" THEN Cut \cup ((Streaming \cup buffer) \cap Current) ELSE {}
  <2>1. Judging' = {} /\ Streaming' = {}
    BY <1>1, <1>2 DEF Judging, Streaming
  <2>2. Current' = Current
    BY <1>1, <1>2 DEF Current, Judging, Streaming, Inv, Dated
  <2>3. Counted' = Counted \ Streaming
    BY <1>1, <1>2, <2>2 DEF Counted, Current, Judging, Streaming
  <2>4. Unsure' = Unsure \cup ((Streaming \cup buffer) \cap Current)
    BY <1>1, <1>2, <2>2 DEF Unsure, Current, Judging, Streaming
  <2>5. Cut' = IF owner = "nest" THEN Cut \cup ((Streaming \cup buffer) \cap Current) ELSE {}
    BY <1>1, <1>2, <2>2 DEF Cut, Current, Judging, Streaming
  <2> QED
    BY <2>1, <2>2, <2>3, <2>4, <2>5
<1>4. \A s \in Request :
        /\ HeldBy'[s] <= HeldBy[s] /\ (owner = "nest" => HeldBy'[s] = HeldBy[s])
        /\ HeldBy'[s] + DoubtBy[s] <= HeldBy[s] + DoubtBy'[s]
        /\ HighBy[s] <= HighBy'[s]
        /\ AllowedBy[s] <= AllowedBy'[s]
  <2> TAKE s \in Request
  <2>1. s \in Current => s \notin Judging
    BY DEF Current, Judging
  <2>2. CASE s \notin Current
    BY <1>3, <2>2 DEF HeldBy, DoubtBy, HighBy, AllowedBy, Unsure
  <2>3. CASE s \in Current
    <3>1. /\ HeldBy[s] = (IF s \in Streaming THEN req[s].est ELSE req[s].actual)
          /\ HeldBy'[s] = req'[s].actual
          /\ DoubtBy[s] = (IF s \in Unsure THEN req[s].est ELSE 0)
          /\ DoubtBy'[s] = (IF s \in Unsure' THEN req'[s].est ELSE 0)
          /\ HighBy[s] = (IF s \notin Unsure THEN HeldBy[s] ELSE IF s \in Streaming THEN 0 ELSE req[s].actual + req[s].est)
          /\ HighBy'[s] = (IF s \notin Unsure' THEN HeldBy'[s] ELSE req'[s].actual + req'[s].est)
      BY <1>3, <2>3 DEF HeldBy, DoubtBy, HighBy
    <3>2. /\ req'[s].est = req[s].est /\ req[s].est \in Nat /\ req[s].actual \in Nat
          /\ req[s].actual <= req[s].est
          /\ req'[s].actual = IF owner = "nest" /\ s \in Streaming THEN req[s].est ELSE req[s].actual
      BY <1>2, <2>1, <2>3
    <3>3. s \in Unsure' <=> s \in Unsure \/ s \in Streaming \/ s \in buffer
      BY <1>3, <2>3
    <3>4. HeldBy'[s] <= HeldBy[s] /\ (owner = "nest" => HeldBy'[s] = HeldBy[s])
      BY <3>1, <3>2
    <3>5. HeldBy'[s] + DoubtBy[s] <= HeldBy[s] + DoubtBy'[s]
      <4>1. DoubtBy[s] <= DoubtBy'[s] /\ DoubtBy[s] \in Nat /\ DoubtBy'[s] \in Nat
        BY <3>1, <3>2, <3>3
      <4>2. HeldBy[s] \in Nat /\ HeldBy'[s] \in Nat
        BY <3>1, <3>2
      <4> QED
        BY <3>4, <4>1, <4>2
    <3>6. HighBy[s] <= HighBy'[s]
      <4>1. CASE s \in Unsure
        BY <3>1, <3>2, <3>3, <4>1
      <4>2. CASE s \notin Unsure /\ s \in Unsure'
        BY <3>1, <3>2, <4>2
      <4>3. CASE s \notin Unsure /\ s \notin Unsure'
        BY <3>1, <3>2, <3>3, <4>3
      <4> QED
        BY <3>3, <4>1, <4>2, <4>3
    <3>7. AllowedBy[s] <= AllowedBy'[s]
      <4>1. req'[s].alone = req[s].alone
        BY <1>2, <2>1, <2>3
      <4> QED
        BY <1>3, <3>2, <3>3, <4>1 DEF AllowedBy
    <3> QED
      BY <3>4, <3>5, <3>6, <3>7
  <2> QED
    BY <2>2, <2>3
<1>5. \A s \in Request :
        /\ BytesBy'[s] <= BytesBy[s] /\ (owner = "go" => BytesBy'[s] = BytesBy[s])
        /\ BytesBy[s] + CutBy[s] <= BytesBy'[s] + CutBy'[s]
        /\ DownloadsBy'[s] <= DownloadsBy[s] /\ DownloadsBy[s] + CutsBy[s] <= DownloadsBy'[s] + CutsBy'[s]
  <2> TAKE s \in Request
  <2>1. s \in Counted => s \in Current /\ s \notin Judging \cup buffer /\ (s \notin Cut) /\ (owner = "go" => s \notin Streaming)
    <3>1. owner = "go" => req[s].stage # "closed"
      BY DEF Inv, Go, Asking
    <3> QED
      BY <3>1 DEF Counted, Current, Judging, Cut, Streaming
  <2>2. s \in Counted' => (Downloaded(s)' <=> Downloaded(s)) /\ req'[s].actual = req[s].actual /\ s \in Counted
    BY <1>1, <1>2, <1>3, <2>1 DEF Downloaded
  <2>3. s \in Cut => s \in Cut' /\ req'[s].est = req[s].est
    BY <1>1, <1>2, <1>3 DEF Cut, Current, Judging
  <2>4. s \in Counted /\ s \notin Counted' => s \in Cut' /\ req'[s].est = req[s].est
    BY <1>1, <1>2, <1>3, <2>1 DEF Streaming
  <2>5. req[s].est \in Nat /\ req[s].actual \in Nat /\ req[s].actual <= req[s].est /\ req'[s].est \in Nat
    BY <1>2 DEF Requests
  <2>6. owner = "go" => (s \in Counted' <=> s \in Counted)
    BY <1>3, <2>1
  <2> QED
    BY <2>1, <2>2, <2>3, <2>4, <2>5, <2>6 DEF BytesBy, CutBy, DownloadsBy, CutsBy
<1>6. IsFiniteSet(Request) /\ \A s \in Request :
        /\ HeldBy[s] \in Int /\ DoubtBy[s] \in Int /\ AllowedBy[s] \in Int /\ BytesBy[s] \in Int
        /\ DownloadsBy[s] \in Int /\ CutBy[s] \in Int /\ CutsBy[s] \in Int /\ HighBy[s] \in Int
        /\ HighBy'[s] \in Int
        /\ HeldBy'[s] \in Int /\ DoubtBy'[s] \in Int /\ AllowedBy'[s] \in Int /\ BytesBy'[s] \in Int
        /\ DownloadsBy'[s] \in Int /\ CutBy'[s] \in Int /\ CutsBy'[s] \in Int
  BY BandwidthAssumption, WeightsTyped, NextWeightsTyped
<1>7. /\ HeldSum' <= HeldSum /\ AllowedSum <= AllowedSum' /\ BytesSum' <= BytesSum
      /\ DownloadsSum' <= DownloadsSum
  BY <1>4, <1>5, <1>6, SumLeq DEF HeldSum, AllowedSum, BytesSum, DownloadsSum
<1>8. owner = "nest" => HeldSum' = HeldSum
  BY <1>4, <1>6, SumSame DEF HeldSum
<1>9. owner = "go" => BytesSum' = BytesSum
  BY <1>5, <1>6, SumSame DEF BytesSum
<1>10. HeldSum' + DoubtSum <= HeldSum + DoubtSum'
  BY <1>4, <1>6, SumCross DEF HeldSum, DoubtSum
<1>11. HighSum <= HighSum'
  BY <1>4, <1>6, SumLeq DEF HighSum
<1>12. BytesSum + CutSum <= BytesSum' + CutSum'
  BY <1>5, <1>6, SumCross DEF BytesSum, CutSum
<1>13. DownloadsSum + CutsSum <= DownloadsSum' + CutsSum'
  BY <1>5, <1>6, SumCross DEF DownloadsSum, CutsSum
<1>14. /\ HeldSum \in Nat /\ DoubtSum \in Nat /\ AllowedSum \in Nat /\ BytesSum \in Nat
       /\ HighSum \in Nat /\ DownloadsSum \in Nat /\ CutSum \in Nat /\ CutsSum \in Nat
  BY SumsTyped
<1>15. /\ HeldSum' \in Nat /\ DoubtSum' \in Nat /\ AllowedSum' \in Nat /\ BytesSum' \in Nat
       /\ HighSum' \in Nat /\ DownloadsSum' \in Nat /\ CutSum' \in Nat /\ CutsSum' \in Nat
  BY <1>6, NextWeightsTyped, SumNat
  DEF HeldSum, DoubtSum, HighSum, AllowedSum, BytesSum, DownloadsSum, CutSum, CutsSum
<1>16. Dated'
  BY <1>1, <1>2, <1>3 DEF Inv, Dated, Requests
<1>17. owner = "go" => Go'
  <2>1. owner = "go" => Seeded'
    <3> SUFFICES ASSUME owner = "go" PROVE Seeded'
      OBVIOUS
    <3>1. Seeded /\ Fresh' = Fresh /\ hash.used \in Int
      BY <1>1 DEF Inv, Go, Fresh, Hashes
    <3>2. Fresh => HeldSum' - DoubtSum' <= hash'.used /\ hash'.used <= HighSum'
      <4>1. Fresh => HeldSum - DoubtSum <= hash.used /\ hash.used <= HighSum
        BY <3>1 DEF Seeded
      <4> QED
        <5>1. hash' = hash
          BY <1>1
        <5>2. \A a, b, c, d, n \in Int : a + d <= c + b /\ c - d <= n => a - b <= n
          OBVIOUS
        <5>3. \A a, b, n \in Int : n <= a /\ a <= b => n <= b
          OBVIOUS
        <5>4. /\ HeldSum \in Int /\ DoubtSum \in Int /\ HighSum \in Int
              /\ HeldSum' \in Int /\ DoubtSum' \in Int /\ HighSum' \in Int
          BY ONLY <1>14, <1>15
        <5> QED
          BY ONLY <1>10, <1>11, <3>1, <4>1, <5>1, <5>2, <5>3, <5>4, Zenon
    <3> QED
      BY <1>1, <1>3, <1>9, <3>1, <3>2 DEF Seeded
  <2>2. ASSUME owner = "go", NEW s \in Request PROVE Asking(s)'
    <3>1. s \in Judging \/ s \in Streaming \cup buffer \/ s \notin Judging \cup Streaming \cup buffer
      OBVIOUS
    <3>2. ~req[s].rolls /\ req[s].stage # "closed"
      BY <2>2 DEF Inv, Go, Asking
    <3>3. ~req'[s].rolls /\ ~req'[s].wipes /\ req'[s].stage # "closed"
      BY <1>2, <3>1, <3>2
    <3>4. s \notin Judging'
      BY <1>3
    <3> QED
      BY <3>3, <3>4 DEF Asking, Judging
  <2> QED
    BY <1>1, <2>1, <2>2 DEF Go
<1>18. owner = "nest" => Nest'
  BY <1>1, <1>2, <1>3, <1>8 DEF Inv, Nest, Rows, Serving, Busy, Judging
<1>19. FileFits'
  <2>1. file.bytes \in Int /\ file.downloads \in Int /\ file' = file /\ window' = window
    BY <1>1
  <2>2. \A a, b, c, d, n \in Int : b <= a /\ a + c <= b + d /\ n - a \in 0 .. c => n - b \in 0 .. d
    OBVIOUS
  <2>3. /\ BytesSum \in Int /\ DownloadsSum \in Int /\ CutSum \in Int /\ CutsSum \in Int
        /\ BytesSum' \in Int /\ DownloadsSum' \in Int /\ CutSum' \in Int /\ CutsSum' \in Int
    BY ONLY <1>14, <1>15
  <2>4. FileFits
    BY DEF Inv
  <2> QED
    BY ONLY <1>7, <1>12, <1>13, <2>1, <2>2, <2>3, <2>4, Zenon DEF FileFits
<1>20. Fits' /\ Lonely'
  <2>1. Fits /\ DailyLimit \in Nat
    BY BandwidthAssumption DEF Inv
  <2>2. \A a, b, c, d \in Int : b <= a /\ c <= d /\ a <= DailyLimit + c => b <= DailyLimit + d
    BY <2>1
  <2>3. HeldSum \in Int /\ AllowedSum \in Int /\ HeldSum' \in Int /\ AllowedSum' \in Int
    BY ONLY <1>14, <1>15
  <2>4. Fits'
    BY ONLY <1>7, <2>1, <2>2, <2>3, Zenon DEF Fits
  <2>5. Lonely'
    BY ONLY <1>3 DEF Lonely
  <2> QED
    BY <2>4, <2>5
<1> QED
  BY <1>1, <1>16, <1>17, <1>18, <1>19, <1>20 DEF Inv
LEMMA InterceptKeeps ==
  ASSUME Calm, TypeOK, TypeOK', Inv, NEW r \in Request, NEW est \in Size, NEW full \in BOOLEAN, Intercept(r, est, full)
  PROVE  Inv'
<1> USE DEF TypeOK, Requests, Stages
<1>1. /\ owner = "nest" /\ UNCHANGED <<subject, owner, window, user, file, hash, buffer>>
      /\ req[r].stage = "idle" /\ RollsAlone /\ "race" \notin Faults
  BY DEF Intercept, Calm
<1>2. /\ req'[r].stage \in {"read", "denied"} /\ req'[r].actual = 0 /\ req'[r].est \in Nat
      /\ req'[r].window = 0
      /\ ~req'[r].rolls /\ req'[r].wipes = (Elapsed(file) /\ req'[r].stage = "read")
      /\ req'[r].stage = "read" => req'[r].alone = (Judging = {})
  <2>1. Judge(r, Refused) \/ Judge(r, [Idle EXCEPT !.stage = "read", !.est = est, !.full = full, !.alone = Judging = {},
                                                   !.wipes = Elapsed(file)])
    BY DEF Intercept
  <2>2. CASE Judge(r, Refused)
    BY <2>2 DEF Judge, Refused, Idle
  <2>3. CASE Judge(r, [Idle EXCEPT !.stage = "read", !.est = est, !.full = full, !.alone = Judging = {}, !.wipes = Elapsed(file)])
    BY <2>3, BandwidthAssumption DEF Judge, Idle
  <2> QED
    BY <2>1, <2>2, <2>3
<1>3. \A s \in Request \ {r} :
        /\ req'[s].stage = req[s].stage /\ req'[s].est = req[s].est /\ req'[s].actual = req[s].actual
        /\ req'[s].full = req[s].full /\ req'[s].window = req[s].window /\ req'[s].locked = req[s].locked
        /\ req'[s].alone = (req[s].alone /\ s \notin Judging)
        /\ req'[s].held = req[s].held /\ req'[s].used = req[s].used /\ req'[s].rolls = req[s].rolls
        /\ req'[s].wipes = req[s].wipes
  <2>1. \A s \in Request \ {r} : req'[s] = [req[s] EXCEPT !.alone = @ /\ s \notin Judging]
    <3>1. ASSUME NEW x, Judge(r, x) PROVE \A s \in Request \ {r} : req'[s] = [req[s] EXCEPT !.alone = @ /\ s \notin Judging]
      BY <3>1 DEF Judge
    <3>2. \E x : Judge(r, x)
      BY DEF Intercept
    <3> QED
      BY <3>1, <3>2
  <2> QED
    BY <2>1
<1>4. /\ Judging' = (IF req'[r].stage = "read" THEN Judging \cup {r} ELSE Judging) /\ Streaming' = Streaming
      /\ Current' = Current
  <2>1. Judging' = (IF req'[r].stage = "read" THEN Judging \cup {r} ELSE Judging)
    BY <1>1, <1>2, <1>3 DEF Judging
  <2>2. Streaming' = Streaming
    BY <1>1, <1>2, <1>3 DEF Streaming
  <2>3. Current' = Current
    BY <1>1, <1>2, <1>3 DEF Current
  <2> QED
    BY <2>1, <2>2, <2>3
<1>5. \A s \in Request : Same(s)
  BY <1>1, <1>2, <1>3, <1>4 DEF Same, Current, Judging
<1>6. /\ HeldSum' = HeldSum /\ DoubtSum' = DoubtSum /\ AllowedSum' = AllowedSum /\ BytesSum' = BytesSum
      /\ HighSum' = HighSum /\ DownloadsSum' = DownloadsSum /\ CutSum' = CutSum /\ CutsSum' = CutsSum
  BY <1>1, <1>5, Quiet
<1>7. Dated'
  BY <1>1, <1>2, <1>3 DEF Inv, Dated
<1>8. Counted' = Counted
  <2>1. r \notin Counted /\ r \notin Counted'
    BY <1>1, <1>2 DEF Counted
  <2>2. \A s \in Request \ {r} : s \in Counted' <=> s \in Counted
    BY <1>1, <1>3, <1>4 DEF Counted
  <2>3. Counted \subseteq Request /\ Counted' \subseteq Request
    BY DEF Counted, Current
  <2> QED
    BY ONLY <2>1, <2>2, <2>3
<1>9. /\ \A s \in Request : ~req[s].wipes /\ ~(req[s].rolls /\ s \in Busy)
      /\ user.reset < window \/ file.reset < window => Judging = {}
  BY <1>1 DEF RollsAlone, Outdated, Elapsed, Busy
<1>10. file.reset < window => Streaming = {} /\ buffer = {}
  <2>1. \A s \in Streaming \cup buffer : file.reset = window
    BY <1>1, <1>9 DEF Inv, Nest, Serving, Busy, Streaming
  <2> QED
    BY <2>1
<1>11. Nest'
  <2>1. Rows'
    BY <1>1, <1>4, <1>6, <1>8, <1>9 DEF Inv, Nest, Rows
  <2>2. ASSUME NEW s \in Request, s # r PROVE Serving(s)'
    <3>1. Serving(s) /\ ~req'[s].wipes /\ (s \in Busy' => s \in Busy) /\ ~(req'[s].rolls /\ s \in Busy)
      BY <1>1, <1>3, <1>4, <1>9, <2>2 DEF Inv, Nest, Busy
    <3> QED
      BY <1>1, <1>3, <1>9, <2>2, <3>1 DEF Serving
  <2>3. Serving(r)'
    <3>1. r \notin buffer /\ r \notin Streaming
      BY <1>1 DEF Inv, Dated, Streaming
    <3>2. req'[r].wipes => Wiping(r)'
      <4>1. req'[r].wipes => file.reset < window /\ Busy' \subseteq {r} /\ buffer' = {} /\ file' = file /\ window' = window
        BY <1>1, <1>2, <1>4, <1>9, <1>10 DEF Busy, Elapsed
      <4> QED
        BY <1>3, <1>9, <4>1 DEF Wiping
    <3>3. r \in Busy' => req'[r].wipes \/ file'.reset = window'
      <4>1. file.reset \in Nat /\ window \in Nat /\ file.reset <= window /\ file' = file /\ window' = window
        BY <1>1 DEF Inv, Dated
      <4>2. r \in Busy' => req'[r].stage = "read"
        BY <1>1, <1>4, <3>1 DEF Busy, Judging
      <4>3. ~(file.reset < window) => file.reset = window
        BY ONLY <4>1
      <4>4. r \in Busy' => (req'[r].wipes <=> file.reset < window)
        BY ONLY <1>2, <4>2 DEF Elapsed
      <4> QED
        BY ONLY <4>1, <4>3, <4>4
    <3> QED
      BY <1>1, <1>2, <3>1, <3>2, <3>3 DEF Serving
  <2> QED
    BY <2>1, <2>2, <2>3 DEF Nest
<1>12. FileFits' /\ Fits'
  BY <1>1, <1>6 DEF Inv, FileFits, Fits
<1>13. Lonely'
  <2>1. ASSUME NEW s \in Judging', req'[s].alone PROVE Judging' = {s} /\ req'[s].stage = "read"
    <3>1. CASE s = r
      BY <1>1, <1>2, <1>4, <2>1, <3>1 DEF Judging
    <3>2. CASE s # r
      BY <1>3, <1>4, <2>1, <3>2 DEF Judging
    <3> QED
      BY <3>1, <3>2
  <2> QED
    BY <1>1, <2>1 DEF Lonely
<1> QED
  BY <1>1, <1>7, <1>11, <1>12, <1>13 DEF Inv

\* A row in an old window has counted nothing of this one.
LEMMA NoneCounted ==
  ASSUME Counted = {}
  PROVE  BytesSum = 0 /\ DownloadsSum = 0
<1>1. IsFiniteSet(Request)
  BY BandwidthAssumption
<1>2. \A s \in Request : BytesBy[s] = 0 /\ DownloadsBy[s] = 0
  BY DEF BytesBy, DownloadsBy
<1> QED
  BY <1>1, <1>2, SumZero DEF BytesSum, DownloadsSum

LEMMA WipeKeeps ==
  ASSUME Calm, TypeOK, TypeOK', Inv, NEW r \in Request, Wipe(r)
  PROVE  Inv'
<1> USE DEF TypeOK, Requests, Stages
<1>1. /\ UNCHANGED <<subject, owner, window, user, hash, buffer>> /\ req[r].wipes
      /\ file' = [downloads |-> 0, bytes |-> 0, reset |-> window] /\ req' = [req EXCEPT ![r].wipes = FALSE]
  BY DEF Wipe
<1>2. owner = "nest"
  BY <1>1 DEF Inv, Go, Asking
<1>3. /\ req'[r].stage = req[r].stage /\ req'[r].est = req[r].est /\ req'[r].actual = req[r].actual
      /\ req'[r].full = req[r].full /\ req'[r].window = req[r].window /\ req'[r].locked = req[r].locked
      /\ req'[r].alone = req[r].alone /\ req'[r].held = req[r].held /\ req'[r].used = req[r].used
      /\ req'[r].rolls = req[r].rolls /\ ~req'[r].wipes /\ \A s \in Request \ {r} : req'[s] = req[s]
  BY <1>1
<1>4. Judging' = Judging /\ Streaming' = Streaming /\ Current' = Current
  BY <1>1, <1>3 DEF Judging, Streaming, Current
<1>5. \A s \in Request : Same(s)
  BY <1>1, <1>3, <1>4 DEF Same
<1>6. /\ HeldSum' = HeldSum /\ DoubtSum' = DoubtSum /\ AllowedSum' = AllowedSum /\ BytesSum' = BytesSum
      /\ HighSum' = HighSum /\ DownloadsSum' = DownloadsSum /\ CutSum' = CutSum /\ CutsSum' = CutsSum
  BY <1>1, <1>5, Quiet
<1>7. Counted' = Counted
  BY <1>1, <1>3, <1>4 DEF Counted
<1>8. Dated'
  BY <1>1, <1>3 DEF Inv, Dated
<1>9. /\ Wiping(r) /\ file.reset < window /\ Counted = {} /\ file'.reset = window /\ file'.bytes = 0
      /\ file'.downloads = 0
  BY <1>1, <1>2 DEF Inv, Nest, Rows, Serving, Wiping
<1>10. Nest'
  <2>1. Rows'
    BY <1>1, <1>2, <1>4, <1>6, <1>7, <1>9 DEF Inv, Nest, Rows
  <2>2. ASSUME NEW s \in Request PROVE Serving(s)'
    <3>1. /\ Serving(s) /\ ~req'[s].wipes /\ Busy' = Busy /\ req'[s].stage = req[s].stage
          /\ req'[s].rolls = req[s].rolls
          /\ req'[s].used = req[s].used /\ req'[s].held = req[s].held
      BY <1>2, <1>3, <1>4, <1>9 DEF Inv, Nest, Busy, Wiping
    <3>2. Rolling(s) => Rolling(s)'
      BY <1>1, <1>4, <3>1 DEF Rolling
    <3> QED
      BY <1>1, <1>9, <3>1, <3>2 DEF Serving
  <2> QED
    BY <2>1, <2>2 DEF Nest
<1>11. FileFits'
  <2>1. BytesSum' = 0 /\ DownloadsSum' = 0 /\ CutSum' \in Nat /\ CutsSum' \in Nat
    BY <1>6, <1>9, NoneCounted, SumsTyped
  <2> QED
    BY <1>9, <2>1 DEF FileFits
<1>12. Fits' /\ Lonely'
  BY <1>1, <1>3, <1>4, <1>6 DEF Inv, Fits, Lonely
<1> QED
  BY <1>1, <1>2, <1>8, <1>10, <1>11, <1>12 DEF Inv

LEMMA ReadUsageKeeps ==
  ASSUME Calm, TypeOK, TypeOK', Inv, NEW r \in Request, ReadUsage(r)
  PROVE  Inv'
<1> USE DEF TypeOK, Requests, Stages
<1>1. /\ owner = "nest" /\ UNCHANGED <<subject, owner, window, user, file, hash, buffer>>
      /\ req[r].stage = "read"
      /\ req' = [req EXCEPT ![r].stage = "seeded", ![r].used = IF Elapsed(user) THEN 0 ELSE user.used,
                            ![r].rolls = Elapsed(user), ![r].held = HeldSum]
  BY SumsOfModel DEF ReadUsage
<1>2. /\ req'[r].stage = "seeded" /\ req'[r].est = req[r].est /\ req'[r].actual = req[r].actual
      /\ req'[r].window = req[r].window /\ req'[r].alone = req[r].alone /\ req'[r].held = HeldSum
      /\ req'[r].used = (IF user.reset < window THEN 0 ELSE user.used)
      /\ req'[r].rolls = (user.reset < window) /\ req'[r].wipes = req[r].wipes
      /\ \A s \in Request \ {r} : req'[s] = req[s]
  BY <1>1 DEF Elapsed
<1>3. Judging' = Judging /\ Streaming' = Streaming /\ Current' = Current /\ r \in Judging /\ Busy' = Busy
  <2>1. Judging' = Judging /\ r \in Judging
    BY <1>1, <1>2 DEF Judging
  <2>2. Streaming' = Streaming
    BY <1>1, <1>2 DEF Streaming
  <2>3. Current' = Current
    BY <1>1, <1>2 DEF Current
  <2> QED
    BY <2>1, <2>2, <2>3 DEF Busy
<1>4. \A s \in Request : Same(s)
  BY <1>1, <1>2, <1>3 DEF Same, Current
<1>5. /\ HeldSum' = HeldSum /\ DoubtSum' = DoubtSum /\ AllowedSum' = AllowedSum /\ BytesSum' = BytesSum
      /\ HighSum' = HighSum /\ DownloadsSum' = DownloadsSum /\ CutSum' = CutSum /\ CutsSum' = CutsSum
  BY <1>1, <1>4, Quiet
<1>6. Counted' = Counted
  <2>1. r \notin Counted /\ r \notin Counted'
    BY <1>1, <1>2 DEF Counted
  <2>2. \A s \in Request \ {r} : s \in Counted' <=> s \in Counted
    BY <1>1, <1>2, <1>3 DEF Counted
  <2>3. Counted \subseteq Request /\ Counted' \subseteq Request
    BY DEF Counted, Current
  <2> QED
    BY ONLY <2>1, <2>2, <2>3
<1>7. Dated'
  <2>1. ASSUME NEW s \in Request
        PROVE  /\ req'[s].window <= window /\ req'[s].actual <= req'[s].est
               /\ req'[s].stage \in {"streaming", "closed"} => req'[s].window = window
               /\ s \in buffer => req'[s].stage \in {"closed", "ended"} /\ req'[s].window = window
    <3>1. CASE s = r
      BY <1>1, <1>2, <3>1 DEF Inv, Dated
    <3>2. CASE s # r
      <4>1. req'[s] = req[s]
        BY <1>2, <3>2
      <4> QED
        BY <4>1 DEF Inv, Dated
    <3> QED
      BY <3>1, <3>2
  <2>2. /\ user.reset <= window /\ file.reset <= window
        /\ (hash.exists => hash.reset \in Nat /\ hash.reset <= window)
        /\ hash.exists <=> hash.reset # None
    BY DEF Inv, Dated
  <2> QED
    BY ONLY <1>1, <2>1, <2>2 DEF Dated
<1>8. user.reset < window => Current = {} /\ HeldSum = 0 /\ Busy = {r}
  <2>1. user.reset < window => Current = {} /\ Judging = {r}
    BY <1>1, <1>3 DEF Inv, Nest, Rows
  <2>2. Current = {} => Streaming = {}
    BY DEF Inv, Dated, Streaming, Current
  <2> QED
    BY <2>1, <2>2, NoneCurrent DEF Busy
<1>9. user.reset \in Nat /\ window \in Nat /\ user.reset <= window
  BY DEF Inv, Dated
<1>10. Nest'
  <2>1. Rows'
    BY <1>1, <1>3, <1>5, <1>6 DEF Inv, Nest, Rows
  <2>2. ASSUME NEW s \in Request, s # r PROVE Serving(s)'
    <3>1. Serving(s) /\ req'[s] = req[s] /\ r \in Busy
      BY <1>1, <1>2, <1>3, <2>2 DEF Inv, Nest, Busy
    <3>2. ~(s \in Busy /\ req[s].rolls) /\ ~req[s].wipes
      BY <2>2, <3>1 DEF Serving, Rolling, Wiping
    <3> QED
      BY <1>1, <1>3, <3>1, <3>2 DEF Serving
  <2>3. Serving(r)'
    <3>1. Serving(r) /\ r \in Busy
      BY <1>1, <1>3 DEF Inv, Nest, Busy
    <3>2. user.reset < window => Rolling(r)'
      BY <1>1, <1>2, <1>3, <1>8 DEF Rolling
    <3>3. req'[r].used = req'[r].held /\ (req'[r].rolls \/ user'.reset = window')
      BY <1>1, <1>2, <1>8, <1>9, SMTT(30) DEF Inv, Nest, Rows
    <3>4. req'[r].wipes => Wiping(r)'
      BY <1>1, <1>2, <1>3, <3>1 DEF Serving, Wiping
    <3>5. req'[r].wipes \/ file'.reset = window'
      BY <1>1, <1>2, <3>1 DEF Serving
    <3> QED
      BY <1>2, <3>2, <3>3, <3>4, <3>5 DEF Serving
  <2> QED
    BY <2>1, <2>2, <2>3 DEF Nest
<1>11. FileFits' /\ Fits'
  BY <1>1, <1>5 DEF Inv, FileFits, Fits
<1>12. Lonely'
  <2>1. HeldSum \in Nat
    BY SumsTyped
  <2>2. Lonely
    BY DEF Inv
  <2>3. ASSUME NEW s \in Judging, req'[s].alone PROVE Judging' = {s} /\ HeldSum' <= req'[s].held
    <3>1. s = r
      BY <1>2, <1>3, <2>2, <2>3 DEF Lonely, Judging
    <3> QED
      BY <1>2, <1>3, <1>5, <2>1, <2>2, <2>3, <3>1 DEF Lonely
  <2> QED
    BY <1>3, <2>3 DEF Lonely
<1> QED
  BY <1>1, <1>7, <1>10, <1>11, <1>12 DEF Inv
LEMMA LockRowKeeps ==
  ASSUME Calm, TypeOK, TypeOK', Inv, NEW r \in Request, LockRow(r)
  PROVE  Inv'
<1> USE DEF TypeOK, Requests, Stages
<1>1. /\ owner = "nest" /\ UNCHANGED <<subject, owner, window, file, buffer>> /\ req[r].stage = "seeded"
      /\ DailyAllows(r) /\ user' = LockedRow(r)
      /\ hash' = IF subject = "user" THEN [exists |-> TRUE, used |-> req[r].used + req[r].est, reset |-> user'.reset] ELSE hash
  BY DEF LockRow
<1>2. /\ req'[r].stage = "streaming" /\ req'[r].est = req[r].est /\ req'[r].locked
      /\ req'[r].actual = 0 /\ req'[r].window = window /\ req'[r].alone = req[r].alone
      /\ req'[r].rolls = req[r].rolls /\ req'[r].wipes = req[r].wipes
      /\ \A s \in Request \ {r} : req'[s] = req[s]
  BY DEF LockRow, Through, Idle
<1>3. /\ Judging' = Judging \ {r} /\ r \in Judging /\ Streaming' = Streaming \cup {r}
      /\ Current' = Current \cup {r}
      /\ r \notin Current /\ Busy' = Busy
  <2>1. Judging' = Judging \ {r} /\ r \in Judging
    BY <1>1, <1>2 DEF Judging
  <2>2. Streaming' = Streaming \cup {r}
    BY <1>1, <1>2 DEF Streaming
  <2>3. Current' = Current \cup {r} /\ r \notin Current
    BY <1>1, <1>2 DEF Current
  <2> QED
    BY <2>1, <2>2, <2>3 DEF Busy
<1>4. /\ Serving(r) /\ req[r].used = req[r].held /\ (req[r].rolls \/ user.reset = window)
      /\ req[r].rolls => Rolling(r) /\ user.reset < window /\ Current = {}
      /\ r \notin buffer /\ req[r].est \in Nat /\ user.used \in Int
  <2>1. Serving(r) /\ r \in Busy
    BY <1>1, <1>3 DEF Inv, Nest, Busy
  <2> QED
    BY <1>1, <1>3, <2>1 DEF Inv, Dated, Serving, Rolling
<1>5. user'.reset = window /\ user'.used = (IF req[r].rolls THEN req[r].est ELSE user.used + req[r].est)
  BY <1>1, <1>4 DEF LockedRow
<1>6. \A s \in Request \ {r} : Same(s)
  BY <1>1, <1>2 DEF Same
<1>7. /\ HeldBy'[r] = req[r].est /\ HeldBy[r] = 0 /\ DoubtBy'[r] = 0 /\ DoubtBy[r] = 0
      /\ AllowedBy'[r] = (IF req[r].alone THEN 0 ELSE req[r].est) /\ AllowedBy[r] = 0 /\ BytesBy'[r] = 0
      /\ BytesBy[r] = 0
      /\ DownloadsBy'[r] = 0 /\ DownloadsBy[r] = 0 /\ CutBy'[r] = 0 /\ CutBy[r] = 0
      /\ CutsBy'[r] = 0 /\ CutsBy[r] = 0
  BY <1>1, <1>2, <1>3
  DEF HeldBy, DoubtBy, AllowedBy, BytesBy, DownloadsBy, CutBy, CutsBy, Counted, Cut, Unsure
<1>8. /\ HeldSum \in Nat /\ DoubtSum \in Nat /\ AllowedSum \in Nat /\ BytesSum \in Nat /\ CutSum \in Nat
      /\ DownloadsSum \in Nat /\ CutsSum \in Nat
  BY SumsTyped
<1>9. /\ HeldSum' = HeldSum + req[r].est /\ DoubtSum' = DoubtSum
      /\ AllowedSum' = AllowedSum + (IF req[r].alone THEN 0 ELSE req[r].est)
      /\ BytesSum' = BytesSum /\ DownloadsSum' = DownloadsSum /\ CutSum' = CutSum /\ CutsSum' = CutsSum
  BY <1>1, <1>4, <1>6, <1>7, <1>8, Moved
<1>10. Dated'
  <2>1. hash'.exists => hash'.reset \in Nat /\ hash'.reset <= window'
    BY <1>1, <1>5 DEF Inv, Dated
  <2>2. hash'.exists <=> hash'.reset # None
    BY <1>1, <1>5, BandwidthAssumption DEF Inv, Dated
  <2>3. \A s \in Request : req'[s].window <= window' /\ req'[s].actual <= req'[s].est
    BY <1>1, <1>2, <1>4 DEF Inv, Dated
  <2> QED
    BY <1>1, <1>2, <1>4, <1>5, <2>1, <2>2, <2>3 DEF Inv, Dated
<1>11. Nest'
  <2>1. Rows'
    <3>1. user'.used = HeldSum'
      <4>1. CASE req[r].rolls
        BY <1>4, <1>5, <1>9, <4>1, NoneCurrent
      <4>2. CASE ~req[r].rolls
        <5>1. user.used = HeldSum
          BY <1>1, <1>4, <4>2 DEF Inv, Nest, Rows
        <5> QED
          BY <1>5, <1>9, <4>2, <5>1
      <4> QED
        BY <4>1, <4>2
    <3>2. Counted' = Counted
      <4>1. r \notin Counted /\ r \notin Counted'
        BY <1>1, <1>2 DEF Counted
      <4>2. \A s \in Request \ {r} : s \in Counted' <=> s \in Counted
        BY <1>1, <1>2, <1>3 DEF Counted
      <4>3. Counted \subseteq Request /\ Counted' \subseteq Request
        BY DEF Counted, Current
      <4> QED
        BY ONLY <4>1, <4>2, <4>3
    <3> QED
      BY <1>1, <1>5, <3>1, <3>2 DEF Inv, Nest, Rows
  <2>2. ASSUME NEW s \in Request, s # r PROVE Serving(s)'
    <3>1. Serving(s) /\ req'[s] = req[s] /\ r \in Busy
      BY <1>1, <1>2, <1>3, <2>2 DEF Inv, Nest, Busy
    <3>2. ~(s \in Busy /\ req[s].rolls) /\ ~req[s].wipes
      BY <2>2, <3>1 DEF Serving, Rolling, Wiping
    <3> QED
      BY <1>1, <1>3, <1>5, <3>1, <3>2 DEF Serving
  <2>3. Serving(r)'
    <3>1. req'[r].rolls => Rolling(r)'
      BY <1>1, <1>2, <1>3, <1>4, <1>5 DEF Rolling
    <3>2. req'[r].wipes => Wiping(r)'
      BY <1>1, <1>2, <1>3, <1>4 DEF Serving, Wiping
    <3>3. req'[r].wipes \/ file'.reset = window'
      BY <1>1, <1>2, <1>3, <1>4 DEF Serving, Busy
    <3> QED
      BY <1>2, <3>1, <3>2, <3>3 DEF Serving
  <2> QED
    BY <2>1, <2>2, <2>3 DEF Nest
<1>12. FileFits'
  BY <1>1, <1>8, <1>9 DEF Inv, FileFits
<1>13. Fits'
  <2>1. req[r].alone => HeldSum <= req[r].held
    BY <1>1, <1>3 DEF Inv, Lonely
  <2>2. req[r].used + req[r].est <= DailyLimit /\ req[r].used \in Int /\ DailyLimit \in Nat
    BY <1>1, BandwidthAssumption DEF DailyAllows
  <2>3. CASE req[r].alone
    BY <1>4, <1>8, <1>9, <2>1, <2>2, <2>3 DEF Fits
  <2>4. CASE ~req[r].alone
    BY <1>4, <1>8, <1>9, <2>2, <2>4 DEF Inv, Fits
  <2> QED
    BY <2>3, <2>4
<1>14. Lonely'
  <2>1. ASSUME NEW s \in Judging', req'[s].alone PROVE FALSE
    <3>1. s \in Judging /\ s # r /\ req'[s] = req[s]
      BY <1>2, <1>3, <2>1 DEF Judging
    <3> QED
      BY <1>3, <2>1, <3>1 DEF Inv, Lonely
  <2> QED
    BY <2>1 DEF Lonely
<1> QED
  BY <1>1, <1>10, <1>11, <1>12, <1>13, <1>14 DEF Inv

LEMMA DenyRowKeeps ==
  ASSUME Calm, TypeOK, TypeOK', Inv, NEW r \in Request, DenyRow(r)
  PROVE  Inv'
<1> USE DEF TypeOK, Requests, Stages
<1>1. /\ owner = "nest" /\ UNCHANGED <<subject, owner, window, user, file, hash, buffer>>
      /\ req[r].stage = "seeded"
  BY DEF DenyRow
<1>2. /\ req'[r].stage = "denied" /\ req'[r].actual = 0 /\ req'[r].est = 0 /\ req'[r].window = 0
      /\ ~req'[r].rolls /\ req'[r].wipes = req[r].wipes /\ \A s \in Request \ {r} : req'[s] = req[s]
  BY DEF DenyRow, Refused, Idle
<1>3. /\ Judging' = Judging \ {r} /\ r \in Judging /\ Streaming' = Streaming /\ Current' = Current
      /\ Busy' = Busy \ {r} /\ r \in Busy
  <2>1. Judging' = Judging \ {r} /\ r \in Judging
    BY <1>1, <1>2 DEF Judging
  <2>2. Streaming' = Streaming /\ r \notin Streaming
    BY <1>1, <1>2, SMTT(30) DEF Streaming
  <2>3. Current' = Current
    BY <1>1, <1>2, ZenonT(60) DEF Current
  <2> QED
    BY <2>1, <2>2, <2>3 DEF Busy
<1>4. \A s \in Request : Same(s)
  BY <1>1, <1>2, <1>3 DEF Same, Current
<1>5. /\ HeldSum' = HeldSum /\ DoubtSum' = DoubtSum /\ AllowedSum' = AllowedSum /\ BytesSum' = BytesSum
      /\ HighSum' = HighSum /\ DownloadsSum' = DownloadsSum /\ CutSum' = CutSum /\ CutsSum' = CutsSum
  BY <1>1, <1>4, Quiet
<1>6. Counted' = Counted
  <2>1. r \notin Counted /\ r \notin Counted'
    BY <1>1, <1>2 DEF Counted
  <2>2. \A s \in Request \ {r} : s \in Counted' <=> s \in Counted
    BY <1>1, <1>2, <1>3 DEF Counted
  <2>3. Counted \subseteq Request /\ Counted' \subseteq Request
    BY DEF Counted, Current
  <2> QED
    BY ONLY <2>1, <2>2, <2>3
<1>7. Dated'
  BY <1>1, <1>2 DEF Inv, Dated
<1>8. Nest'
  <2>1. Rows'
    BY <1>1, <1>3, <1>5, <1>6 DEF Inv, Nest, Rows
  <2>2. ASSUME NEW s \in Request, s # r PROVE Serving(s)'
    <3>1. Serving(s) /\ req'[s] = req[s]
      BY <1>1, <1>2, <2>2 DEF Inv, Nest
    <3>2. ~(s \in Busy /\ req[s].rolls) /\ ~req[s].wipes
      BY <1>3, <2>2, <3>1 DEF Serving, Rolling, Wiping
    <3> QED
      BY <1>1, <1>3, <3>1, <3>2 DEF Serving
  <2>3. Serving(r)'
    <3>1. r \notin buffer
      BY <1>1 DEF Inv, Dated
    <3>2. req'[r].wipes => Wiping(r)'
      BY <1>1, <1>2, <1>3 DEF Inv, Nest, Serving, Wiping
    <3> QED
      BY <1>1, <1>2, <1>3, <3>1, <3>2 DEF Serving
  <2> QED
    BY <2>1, <2>2, <2>3 DEF Nest
<1>9. FileFits' /\ Fits'
  BY <1>1, <1>5 DEF Inv, FileFits, Fits
<1>10. Lonely'
  <2>1. ASSUME NEW s \in Judging', req'[s].alone PROVE FALSE
    <3>1. s \in Judging /\ s # r /\ req'[s] = req[s]
      BY <1>2, <1>3, <2>1 DEF Judging
    <3> QED
      BY <1>3, <2>1, <3>1 DEF Inv, Lonely
  <2> QED
    BY <2>1 DEF Lonely
<1> QED
  BY <1>1, <1>7, <1>8, <1>9, <1>10 DEF Inv

LEMMA CloseRowKeeps ==
  ASSUME Calm, TypeOK, TypeOK', Inv, NEW r \in Request, NEW n \in 0 .. req[r].est, CloseRow(r, n)
  PROVE  Inv'
<1> USE DEF TypeOK, Requests, Stages
<1>1. /\ owner = "nest" /\ UNCHANGED <<subject, owner, window, user, file, hash>>
      /\ req[r].stage = "streaming"
      /\ buffer' = buffer \cup {r} /\ req' = [req EXCEPT ![r].stage = "closed", ![r].actual = n]
  BY DEF CloseRow
<1>2. /\ req'[r].stage = "closed" /\ req'[r].est = req[r].est /\ req'[r].locked = req[r].locked
      /\ req'[r].actual = n /\ req'[r].window = req[r].window /\ req'[r].alone = req[r].alone
      /\ req'[r].rolls = req[r].rolls /\ req'[r].wipes = req[r].wipes
      /\ \A s \in Request \ {r} : req'[s] = req[s]
  BY <1>1
<1>3. /\ Judging' = Judging /\ Streaming' = Streaming /\ r \in Streaming /\ Current' = Current
      /\ r \in Current /\ req[r].window = window /\ Busy' = Busy
  <2>1. Judging' = Judging
    BY <1>1, <1>2 DEF Judging
  <2>2. Streaming' = Streaming /\ r \in Streaming
    BY <1>1, <1>2 DEF Streaming
  <2>3. Current' = Current /\ r \in Current /\ req[r].window = window
    BY <1>1, <1>2 DEF Inv, Dated, Current
  <2> QED
    BY <2>1, <2>2, <2>3 DEF Busy
<1>4. n \in Nat /\ n <= req[r].est /\ r \notin buffer
  BY <1>1 DEF Inv, Dated
<1>5. \A s \in Request \ {r} : Same(s)
  BY <1>1, <1>2 DEF Same
<1>6. /\ HeldBy'[r] = HeldBy[r] /\ DoubtBy'[r] = DoubtBy[r]
      /\ AllowedBy'[r] = AllowedBy[r] /\ BytesBy'[r] = 0 /\ BytesBy[r] = 0
      /\ DownloadsBy'[r] = 0 /\ DownloadsBy[r] = 0 /\ CutBy'[r] = 0 /\ CutBy[r] = 0
      /\ CutsBy'[r] = 0 /\ CutsBy[r] = 0
  BY <1>1, <1>2, <1>3
  DEF HeldBy, DoubtBy, AllowedBy, BytesBy, DownloadsBy, CutBy, CutsBy, Counted, Cut, Unsure
<1>7. /\ HeldSum \in Nat /\ DoubtSum \in Nat /\ AllowedSum \in Nat /\ BytesSum \in Nat /\ CutSum \in Nat
      /\ DownloadsSum \in Nat /\ CutsSum \in Nat /\ HeldBy[r] \in Nat /\ DoubtBy[r] \in Nat
      /\ AllowedBy[r] \in Nat
  BY SumsTyped, WeightsTyped
<1>8. /\ HeldSum' = HeldSum /\ DoubtSum' = DoubtSum /\ AllowedSum' = AllowedSum
      /\ BytesSum' = BytesSum /\ DownloadsSum' = DownloadsSum /\ CutSum' = CutSum /\ CutsSum' = CutsSum
  BY <1>1, <1>5, <1>6, <1>7, Moved
<1>9. Dated'
  BY <1>1, <1>2, <1>3, <1>4 DEF Inv, Dated
<1>10. Nest'
  <2>1. Counted' = Counted
    <3>1. r \notin Counted /\ r \notin Counted'
      BY <1>1, <1>2 DEF Counted
    <3>2. \A s \in Request \ {r} : s \in Counted' <=> s \in Counted
      BY <1>1, <1>2, <1>3 DEF Counted
    <3>3. Counted \subseteq Request /\ Counted' \subseteq Request
      BY DEF Counted, Current
    <3> QED
      BY ONLY <3>1, <3>2, <3>3
  <2>2. Rows'
    BY <1>1, <1>3, <1>8, <2>1 DEF Inv, Nest, Rows
  <2>3. ASSUME NEW s \in Request, s # r PROVE Serving(s)'
    <3>1. Serving(s) /\ req'[s] = req[s] /\ r \in Busy
      BY <1>1, <1>2, <1>3, <2>3 DEF Inv, Nest, Busy
    <3>2. ~(s \in Busy /\ req[s].rolls) /\ ~req[s].wipes
      BY <2>3, <3>1 DEF Serving, Rolling, Wiping
    <3> QED
      BY <1>1, <1>3, <2>3, <3>1, <3>2 DEF Serving
  <2>4. Serving(r)'
    <3>1. Serving(r) /\ r \in Busy
      BY <1>1, <1>3 DEF Inv, Nest, Busy
    <3>2. req'[r].rolls => Rolling(r)'
      BY <1>1, <1>2, <1>3, <3>1 DEF Serving, Rolling
    <3>3. req'[r].wipes => Wiping(r)'
      BY <1>1, <1>2, <1>3, <3>1 DEF Serving, Wiping
    <3>4. req'[r].wipes \/ file'.reset = window'
      BY <1>1, <1>2, <3>1 DEF Serving
    <3> QED
      BY <1>2, <3>2, <3>3, <3>4 DEF Serving
  <2> QED
    BY <2>2, <2>3, <2>4 DEF Nest
<1>11. FileFits' /\ Fits'
  BY <1>1, <1>8 DEF Inv, FileFits, Fits
<1>12. Lonely'
  <2>1. \A s \in Judging : req'[s] = req[s]
    BY <1>1, <1>2 DEF Judging
  <2>2. Lonely
    BY DEF Inv
  <2> QED
    BY ONLY <1>1, <1>3, <1>8, <2>1, <2>2 DEF Lonely
<1> QED
  BY <1>1, <1>9, <1>10, <1>11, <1>12 DEF Inv

LEMMA RefundRowKeeps ==
  ASSUME Calm, TypeOK, TypeOK', Inv, NEW r \in Request, RefundRow(r)
  PROVE  Inv'
<1> USE DEF TypeOK, Requests, Stages
<1> DEFINE refund == req[r].est - req[r].actual
<1>1. /\ UNCHANGED <<subject, owner, window, file, hash, buffer>> /\ req[r].stage = "closed"
      /\ req' = [req EXCEPT ![r].stage = "ended"]
      /\ user' = CASE refund > 0 /\ req[r].rolls -> [user EXCEPT !.used = req[r].est - refund]
                   [] refund > 0 /\ ~req[r].rolls -> [user EXCEPT !.used = @ - refund]
                   [] OTHER -> user
  BY DEF RefundRow, Refund
<1>2. owner = "nest"
  BY <1>1 DEF Inv, Go, Asking
<1>3. /\ req'[r].stage = "ended" /\ req'[r].est = req[r].est /\ req'[r].locked = req[r].locked
      /\ req'[r].actual = req[r].actual /\ req'[r].window = req[r].window /\ req'[r].alone = req[r].alone
      /\ req'[r].rolls = req[r].rolls /\ req'[r].wipes = req[r].wipes /\ req'[r].full = req[r].full
      /\ \A s \in Request \ {r} : req'[s] = req[s]
  BY <1>1
<1>4. /\ Judging' = Judging /\ Streaming' = Streaming \ {r} /\ r \in Streaming /\ r \notin Judging
      /\ Current' = Current
      /\ r \in Current /\ req[r].window = window /\ Busy' = Busy \ {r} /\ r \in Busy
  <2>1. Judging' = Judging /\ r \notin Judging
    BY <1>1, <1>3 DEF Judging
  <2>2. Streaming' = Streaming \ {r} /\ r \in Streaming
    BY <1>1, <1>3 DEF Streaming
  <2>3. Current' = Current /\ r \in Current /\ req[r].window = window
    BY <1>1, <1>3 DEF Inv, Dated, Current
  <2> QED
    BY <2>1, <2>2, <2>3 DEF Busy
<1>5. /\ req[r].est \in Nat /\ req[r].actual \in Nat /\ req[r].actual <= req[r].est /\ user.used \in Int
      /\ user.reset = window /\ user.used = HeldSum
  <2>1. user.reset = window
    <3>1. user.reset \in Nat /\ window \in Nat /\ user.reset <= window
      BY DEF Inv, Dated
    <3>2. ~(user.reset < window)
      BY <1>2, <1>4 DEF Inv, Nest, Rows
    <3> QED
      BY ONLY <3>1, <3>2
  <2> QED
    BY <1>2, <2>1 DEF Inv, Dated, Nest, Rows
<1>6. /\ HeldBy'[r] = req[r].actual /\ HeldBy[r] = req[r].est /\ DoubtBy'[r] = DoubtBy[r]
      /\ AllowedBy'[r] = AllowedBy[r] /\ BytesBy'[r] = BytesBy[r]
      /\ DownloadsBy'[r] = DownloadsBy[r] /\ CutBy'[r] = 0 /\ CutBy[r] = 0
      /\ CutsBy'[r] = 0 /\ CutsBy[r] = 0
  <2>1. Downloaded(r)' <=> Downloaded(r)
    BY <1>1, <1>3 DEF Downloaded
  <2> QED
    BY <1>1, <1>3, <1>4, <2>1
    DEF HeldBy, DoubtBy, AllowedBy, BytesBy, DownloadsBy, CutBy, CutsBy, Counted, Cut, Unsure
<1>7. \A s \in Request \ {r} : Same(s)
  BY <1>1, <1>3 DEF Same
<1>8. /\ HeldSum \in Nat /\ DoubtSum \in Nat /\ AllowedSum \in Nat /\ BytesSum \in Nat /\ CutSum \in Nat
      /\ DownloadsSum \in Nat /\ CutsSum \in Nat /\ DoubtBy[r] \in Nat /\ AllowedBy[r] \in Nat
      /\ BytesBy[r] \in Nat
      /\ DownloadsBy[r] \in Nat
  BY SumsTyped, WeightsTyped
<1>9. /\ HeldSum' = HeldSum - refund /\ DoubtSum' = DoubtSum /\ AllowedSum' = AllowedSum
      /\ BytesSum' = BytesSum /\ DownloadsSum' = DownloadsSum /\ CutSum' = CutSum /\ CutsSum' = CutsSum
  BY <1>1, <1>5, <1>6, <1>7, <1>8, Moved
<1>10. user'.reset = user.reset /\ user'.used = HeldSum'
  <2>1. CASE refund > 0 /\ req[r].rolls
    <3>1. Current \subseteq {r}
      BY <1>2, <1>4, <2>1 DEF Inv, Nest, Serving, Rolling
    <3>2. \A s \in Request : s # r => HeldBy[s] = 0
      BY <3>1 DEF HeldBy
    <3>3. HeldSum = req[r].est
      BY <1>5, <1>6, <3>2, SumOne, BandwidthAssumption DEF HeldSum
    <3>4. user' = [user EXCEPT !.used = req[r].est - refund]
      BY <1>1, <2>1
    <3> QED
      BY <1>5, <1>9, <3>3, <3>4
  <2>2. CASE refund > 0 /\ ~req[r].rolls
    <3>1. user' = [user EXCEPT !.used = @ - refund]
      BY <1>1, <2>2
    <3> QED
      BY <1>5, <1>9, <3>1
  <2>3. CASE ~(refund > 0)
    <3>1. user' = user
      BY <1>1, <2>3
    <3>2. refund = 0
      <4>1. req[r].est \in Nat /\ req[r].actual \in Nat /\ req[r].actual <= req[r].est
        BY <1>5
      <4> QED
        BY ONLY <2>3, <4>1 DEF refund
    <3> QED
      BY <1>5, <1>8, <1>9, <3>1, <3>2
  <2> QED
    BY <2>1, <2>2, <2>3
<1> HIDE DEF refund
<1>11. Counted' = Counted
  <2>1. r \in Counted' <=> r \in Counted
    BY <1>1, <1>3, <1>4 DEF Counted
  <2>2. \A s \in Request \ {r} : s \in Counted' <=> s \in Counted
    BY <1>1, <1>3, <1>4 DEF Counted
  <2>3. Counted \subseteq Request /\ Counted' \subseteq Request
    BY DEF Counted, Current
  <2> QED
    BY ONLY <2>1, <2>2, <2>3
<1>12. Dated'
  BY <1>1, <1>3, <1>4, <1>10 DEF Inv, Dated
<1>13. Nest'
  <2>1. Rows'
    BY <1>1, <1>2, <1>4, <1>5, <1>10, <1>11 DEF Inv, Nest, Rows
  <2>2. ASSUME NEW s \in Request, s # r PROVE Serving(s)'
    <3>1. Serving(s) /\ req'[s] = req[s]
      BY <1>2, <1>3, <2>2 DEF Inv, Nest
    <3>2. ~(s \in Busy /\ req[s].rolls) /\ ~req[s].wipes
      BY <1>4, <2>2, <3>1 DEF Serving, Rolling, Wiping
    <3> QED
      BY <1>1, <1>4, <1>10, <3>1, <3>2 DEF Serving
  <2>3. Serving(r)'
    <3>1. Serving(r)
      BY <1>2 DEF Inv, Nest
    <3>2. req'[r].wipes => Wiping(r)'
      BY <1>1, <1>3, <1>4, <3>1 DEF Serving, Wiping
    <3>3. req'[r].wipes \/ file'.reset = window'
      BY <1>1, <1>3, <1>4, <3>1 DEF Serving
    <3> QED
      BY <1>3, <1>4, <3>2, <3>3 DEF Serving
  <2> QED
    BY <2>1, <2>2, <2>3 DEF Nest
<1>14. FileFits'
  BY <1>1, <1>9 DEF Inv, FileFits
<1>15. HeldSum' <= HeldSum /\ HeldSum' \in Int
  BY <1>5, <1>8, <1>9 DEF refund
<1>16. Fits'
  BY <1>8, <1>9, <1>15, BandwidthAssumption DEF Inv, Fits
<1>17. Lonely'
  <2>1. \A s \in Judging : req'[s] = req[s] /\ req[s].held \in Int
    BY <1>1, <1>3 DEF Judging
  <2> QED
    BY <1>1, <1>4, <1>8, <1>15, <2>1 DEF Inv, Lonely
<1> QED
  BY <1>1, <1>2, <1>12, <1>13, <1>14, <1>16, <1>17 DEF Inv

LEMMA CountFileKeeps ==
  ASSUME Calm, TypeOK, TypeOK', Inv, NEW r \in Request, CountFile(r)
  PROVE  Inv'
<1> USE DEF TypeOK, Requests, Stages
<1>1. /\ owner = "nest" /\ UNCHANGED <<subject, owner, window, user, hash, req>> /\ r \in buffer
      /\ ~req[r].wipes
      /\ file' = [file EXCEPT !.bytes = @ + req[r].actual, !.downloads = @ + IF Downloaded(r) THEN 1 ELSE 0]
      /\ buffer' = buffer \ {r}
  BY DEF CountFile, Calm
<1>2. Judging' = Judging /\ Streaming' = Streaming /\ Current' = Current /\ Busy' = Busy
  BY <1>1 DEF Judging, Streaming, Current, Busy
<1>3. r \in Current /\ req[r].stage \in {"closed", "ended"} /\ req[r].actual \in Nat
  BY <1>1 DEF Inv, Dated, Current
<1>4. Serving(r) /\ file.reset = window
  BY <1>1 DEF Inv, Nest, Serving
<1>5. \A s \in Request \ {r} : Same(s)
  BY <1>1 DEF Same
<1>6. /\ HeldBy'[r] = HeldBy[r] /\ DoubtBy'[r] = DoubtBy[r] /\ AllowedBy'[r] = AllowedBy[r]
      /\ BytesBy'[r] = req[r].actual /\ BytesBy[r] = 0
      /\ DownloadsBy'[r] = (IF Downloaded(r) THEN 1 ELSE 0) /\ DownloadsBy[r] = 0
      /\ CutBy'[r] = CutBy[r] /\ CutsBy'[r] = CutsBy[r]
  <2>1. Downloaded(r)' <=> Downloaded(r)
    BY <1>1 DEF Downloaded
  <2> QED
    BY <1>1, <1>2, <1>3, <2>1
    DEF HeldBy, DoubtBy, AllowedBy, BytesBy, DownloadsBy, CutBy, CutsBy, Counted, Cut, Unsure
<1>7. /\ HeldSum \in Nat /\ DoubtSum \in Nat /\ AllowedSum \in Nat /\ BytesSum \in Nat /\ CutSum \in Nat
      /\ DownloadsSum \in Nat /\ CutsSum \in Nat /\ HeldBy[r] \in Nat /\ DoubtBy[r] \in Nat
      /\ AllowedBy[r] \in Nat
      /\ CutBy[r] \in Nat /\ CutsBy[r] \in Nat
  BY SumsTyped, WeightsTyped
<1>8. /\ HeldSum' = HeldSum /\ DoubtSum' = DoubtSum /\ AllowedSum' = AllowedSum
      /\ BytesSum' = BytesSum + req[r].actual
      /\ DownloadsSum' = DownloadsSum + (IF Downloaded(r) THEN 1 ELSE 0)
      /\ CutSum' = CutSum /\ CutsSum' = CutsSum
  BY <1>1, <1>3, <1>5, <1>6, <1>7, Moved
<1>9. /\ file'.reset = file.reset /\ file'.bytes = file.bytes + req[r].actual
      /\ file'.downloads = file.downloads + (IF Downloaded(r) THEN 1 ELSE 0) /\ file.bytes \in Int
      /\ file.downloads \in Int
  BY <1>1
<1>10. Dated'
  BY <1>1, <1>9 DEF Inv, Dated
<1>11. Nest'
  <2>1. Rows'
    BY <1>1, <1>2, <1>4, <1>8, <1>9 DEF Inv, Nest, Rows
  <2>2. ASSUME NEW s \in Request PROVE Serving(s)'
    <3>1. Serving(s) /\ req'[s] = req[s]
      BY <1>1 DEF Inv, Nest
    <3>2. Rolling(s) => Rolling(s)'
      BY <1>1, <1>2 DEF Rolling
    <3>3. ~req[s].wipes
      BY <1>1, <1>4, <3>1 DEF Serving, Wiping
    <3> QED
      BY <1>1, <1>2, <1>4, <1>9, <3>1, <3>2, <3>3 DEF Serving
  <2> QED
    BY <2>1, <2>2 DEF Nest
<1>12. FileFits'
  <2>1. FileFits
    BY DEF Inv
  <2> QED
    BY ONLY <1>1, <1>3, <1>4, <1>7, <1>8, <1>9, <2>1 DEF FileFits
<1>13. Fits' /\ Lonely'
  BY <1>1, <1>2, <1>8 DEF Inv, Fits, Lonely
<1> QED
  BY <1>1, <1>10, <1>11, <1>12, <1>13 DEF Inv

-----------------------------------------------------------------------------
(* Type correctness.                                                       *)

\* One field of a request changes at a time.
LEMMA Updated ==
  ASSUME NEW x \in Requests
  PROVE  /\ \A s \in Stages : [x EXCEPT !.stage = s] \in Requests
         /\ \A b \in BOOLEAN : /\ [x EXCEPT !.full = b] \in Requests /\ [x EXCEPT !.alone = b] \in Requests
                               /\ [x EXCEPT !.wipes = b] \in Requests /\ [x EXCEPT !.rolls = b] \in Requests
                               /\ [x EXCEPT !.locked = b] \in Requests
         /\ \A n \in Nat : /\ [x EXCEPT !.est = n] \in Requests /\ [x EXCEPT !.actual = n] \in Requests
                           /\ [x EXCEPT !.window = n] \in Requests
         /\ \A n \in Int : [x EXCEPT !.used = n] \in Requests /\ [x EXCEPT !.held = n] \in Requests
         /\ \A h \in Hashes : [x EXCEPT !.hs = h] \in Requests
BY DEF Requests

\* What a request or a row may become.
LEMMA RequestsTyped ==
  ASSUME TypeOK
  PROVE  /\ Idle \in Requests /\ Refused \in Requests /\ NoHash \in Hashes
         /\ \A r \in Request : req[r] \in Requests /\ Through(r, TRUE) \in Requests /\ Through(r, FALSE) \in Requests
         /\ Rolled(user) \in [used : Int, reset : Nat]
         /\ RolledFile \in [downloads : Int, bytes : Int, reset : Nat]
         /\ Snapshot \in [used : Int, reset : Nat, downloads : Int, bytes : Int]
         /\ \A n \in Int : Add(n) \in Hashes
<1>1. NoHash \in Hashes /\ NoAnswer \in [used : Int, reset : Nat, downloads : Int, bytes : Int]
  BY DEF NoHash, NoAnswer, Hashes
<1>2. Idle \in Requests
  <2>1. "idle" \in Stages
    BY DEF Stages
  <2> QED
    BY <1>1, <2>1 DEF Idle, Requests
<1>3. Refused \in Requests
  <2>1. "denied" \in Stages
    BY DEF Stages
  <2> QED
    BY <1>2, <2>1, Updated DEF Refused
<1>4. \A r \in Request : req[r] \in Requests /\ req[r].est \in Nat /\ req[r].full \in BOOLEAN /\ req[r].alone \in BOOLEAN
                         /\ req[r].rolls \in BOOLEAN
  BY DEF TypeOK, Requests
<1>5. ASSUME NEW r \in Request, NEW b \in BOOLEAN PROVE Through(r, b) \in Requests
  <2>1. window \in Nat /\ "streaming" \in Stages
    BY DEF TypeOK, Stages
  <2> QED
    BY <1>2, <1>4, <2>1 DEF Through, Requests
<1>6. /\ Rolled(user) \in [used : Int, reset : Nat]
      /\ RolledFile \in [downloads : Int, bytes : Int, reset : Nat]
  BY DEF TypeOK, Rolled, RolledFile
<1>7. Snapshot \in [used : Int, reset : Nat, downloads : Int, bytes : Int]
  BY <1>6 DEF Snapshot
<1>8. ASSUME NEW n \in Int PROVE Add(n) \in Hashes
  <2>1. hash.used + n \in Int
    BY DEF TypeOK, Hashes
  <2> QED
    BY <2>1 DEF TypeOK, Add, Hashes
<1> QED
  BY <1>1, <1>2, <1>3, <1>4, <1>5, <1>6, <1>7, <1>8

LEMMA JudgeTyped ==
  ASSUME TypeOK, NEW r \in Request, NEW x \in Requests, Judge(r, x)
  PROVE  req' \in [Request -> Requests]
<1>1. ASSUME NEW s \in Request PROVE [req[s] EXCEPT !.alone = @ /\ s \notin Judging] \in Requests
  <2>1. req[s] \in Requests /\ (req[s].alone /\ s \notin Judging) \in BOOLEAN
    BY DEF TypeOK, Requests
  <2> QED
    BY <2>1, Updated
<1> QED
  BY <1>1 DEF Judge

LEMMA TypedStep ==
  ASSUME TypeOK, [Next]_vars
  PROVE  TypeOK'
<1> DEFINE Row == [used : Int, reset : Nat]
           FileRow == [downloads : Int, bytes : Int, reset : Nat]
<1>1. /\ subject \in {"user", "guest"} /\ owner \in {"go", "nest"} /\ window \in Nat /\ user \in Row
      /\ file \in FileRow
      /\ hash \in Hashes /\ req \in [Request -> Requests] /\ buffer \in SUBSET Request
      /\ \A r \in Request : /\ req[r] \in Requests /\ req[r].est \in Nat /\ req[r].actual \in Nat
                            /\ req[r].hs \in Hashes /\ req[r].used \in Int
                            /\ req[r].fresh \in [used : Int, reset : Nat, downloads : Int, bytes : Int]
  BY DEF TypeOK, Requests
<1>2. HeldSum \in Nat /\ Held = HeldSum
  BY SumsTyped, SumsOfModel
<1>3. ASSUME NEW r \in Request, NEW est \in Size, NEW full \in BOOLEAN, Start(r, est, full) PROVE TypeOK'
  <2> DEFINE x == [Idle EXCEPT !.stage = "read", !.est = est, !.full = full, !.hs = hash, !.held = Held, !.alone = Judging = {}]
  <2>1. x \in Requests
    <3>1. /\ Idle \in Requests /\ "read" \in Stages /\ est \in Nat /\ Held \in Int /\ hash \in Hashes
          /\ (Judging = {}) \in BOOLEAN
      BY <1>1, <1>2, RequestsTyped, BandwidthAssumption DEF Stages
    <3> QED
      BY <3>1 DEF Requests
  <2>2. Judge(r, x) /\ UNCHANGED <<subject, owner, window, user, file, hash, buffer>>
    BY <1>3 DEF Start
  <2> HIDE DEF x
  <2>3. req' \in [Request -> Requests]
    BY <2>1, <2>2, JudgeTyped
  <2> QED
    BY <1>1, <2>2, <2>3 DEF TypeOK
<1>4. ASSUME NEW r \in Request, Fetch(r) PROVE TypeOK'
  <2>1. /\ user' = Rolled(user) /\ file' = RolledFile /\ UNCHANGED <<subject, owner, window, hash, buffer>>
        /\ req' = [req EXCEPT ![r].stage = "fetched", ![r].fresh = Snapshot]
    BY <1>4 DEF Fetch
  <2>2. req' \in [Request -> Requests]
    <3>1. /\ req[r] \in Requests /\ "fetched" \in Stages
          /\ Snapshot \in [used : Int, reset : Nat, downloads : Int, bytes : Int]
      BY <1>1, RequestsTyped DEF Stages
    <3>2. [req[r] EXCEPT !.stage = "fetched", !.fresh = Snapshot] \in Requests
      BY <3>1 DEF Requests
    <3> QED
      BY <1>1, <2>1, <3>2
  <2> QED
    BY <1>1, <2>1, <2>2, RequestsTyped DEF TypeOK
<1>5. ASSUME NEW r \in Request, NEW x \in Requests, req' = [req EXCEPT ![r] = x],
             UNCHANGED <<subject, owner, window, user, file, buffer>>, hash' \in Hashes PROVE TypeOK'
  BY <1>1, <1>5 DEF TypeOK
<1>6. ASSUME NEW r \in Request, FailOpen(r) PROVE TypeOK'
  BY <1>1, <1>5, <1>6, RequestsTyped DEF FailOpen
<1>7. ASSUME NEW r \in Request, Seed(r) PROVE TypeOK'
  <2>1. hash' \in Hashes
    BY <1>1, <1>7 DEF Seed, Hashes
  <2>2. /\ UNCHANGED <<subject, owner, window, user, file, buffer>>
        /\ \E n \in Int : req' = [req EXCEPT ![r] = [@ EXCEPT !.stage = "seeded", !.used = n]]
    BY <1>1, <1>7 DEF Seed, Hashes
  <2>3. \A n \in Int : [req[r] EXCEPT !.stage = "seeded", !.used = n] \in Requests
    <3>1. req[r] \in Requests /\ "seeded" \in Stages
      BY <1>1 DEF Stages
    <3> QED
      BY <3>1 DEF Requests
  <2> QED
    BY <1>5, <2>1, <2>2, <2>3
<1>8. ASSUME NEW r \in Request, Lock(r) PROVE TypeOK'
  <2>1. Add(req[r].est) \in Hashes /\ Through(r, TRUE) \in Requests
    <3>1. req[r].est \in Int
      BY <1>1
    <3> QED
      BY <3>1, RequestsTyped
  <2> QED
    BY <1>5, <1>8, <2>1 DEF Lock
<1>9. ASSUME NEW r \in Request, Deny(r) PROVE TypeOK'
  BY <1>1, <1>5, <1>9, RequestsTyped DEF Deny
<1>10. ASSUME NEW r \in Request, NEW est \in Size, NEW full \in BOOLEAN, Intercept(r, est, full) PROVE TypeOK'
  <2> DEFINE x == [Idle EXCEPT !.stage = "read", !.est = est, !.full = full, !.alone = Judging = {}, !.wipes = Elapsed(file)]
  <2>1. x \in Requests
    <3>1. /\ Idle \in Requests /\ "read" \in Stages /\ est \in Nat /\ (Judging = {}) \in BOOLEAN
          /\ Elapsed(file) \in BOOLEAN
      BY RequestsTyped, BandwidthAssumption DEF Stages, Elapsed
    <3> QED
      BY <3>1 DEF Requests
  <2>2. (Judge(r, x) \/ Judge(r, Refused)) /\ UNCHANGED <<subject, owner, window, user, file, hash, buffer>>
    BY <1>10 DEF Intercept
  <2> HIDE DEF x
  <2>3. req' \in [Request -> Requests]
    BY <2>1, <2>2, RequestsTyped, JudgeTyped
  <2> QED
    BY <1>1, <2>2, <2>3 DEF TypeOK
<1>11. ASSUME NEW r \in Request, Wipe(r) PROVE TypeOK'
  <2>1. req' \in [Request -> Requests]
    <3>1. [req[r] EXCEPT !.wipes = FALSE] \in Requests
      BY <1>1, Updated
    <3> QED
      BY <1>1, <1>11, <3>1 DEF Wipe
  <2>2. file' \in FileRow
    BY <1>1, <1>11 DEF Wipe
  <2> QED
    BY <1>1, <1>11, <2>1, <2>2 DEF Wipe, TypeOK
<1>12. ASSUME NEW r \in Request, ReadUsage(r) PROVE TypeOK'
  <2> DEFINE x == [req[r] EXCEPT !.stage = "seeded", !.used = IF Elapsed(user) THEN 0 ELSE user.used,
                                 !.rolls = Elapsed(user), !.held = Held]
  <2>1. x \in Requests
    <3>1. /\ req[r] \in Requests /\ "seeded" \in Stages /\ (IF Elapsed(user) THEN 0 ELSE user.used) \in Int
          /\ Elapsed(user) \in BOOLEAN /\ Held \in Int
      BY <1>1, <1>2 DEF Stages, Elapsed
    <3> QED
      BY <3>1 DEF Requests
  <2>2. req' = [req EXCEPT ![r] = x] /\ UNCHANGED <<subject, owner, window, user, file, hash, buffer>>
    BY <1>1, <1>12 DEF ReadUsage
  <2> HIDE DEF x
  <2> QED
    BY <1>1, <1>5, <2>1, <2>2
<1>13. ASSUME NEW r \in Request, LockRow(r) PROVE TypeOK'
  <2>1. user' \in Row
    BY <1>1, <1>13 DEF LockRow, LockedRow
  <2>2. hash' \in Hashes
    BY <1>1, <1>13, <2>1 DEF LockRow, Hashes
  <2>3. req' \in [Request -> Requests]
    <3>1. \A x \in Requests : [x EXCEPT !.wipes = req[r].wipes] \in Requests
      BY <1>1 DEF Requests
    <3> QED
      BY <1>1, <1>13, <3>1, RequestsTyped DEF LockRow
  <2> QED
    BY <1>1, <1>13, <2>1, <2>2, <2>3 DEF LockRow, TypeOK
<1>14. ASSUME NEW r \in Request, DenyRow(r) PROVE TypeOK'
  <2>1. [Refused EXCEPT !.wipes = req[r].wipes] \in Requests
    BY <1>1, RequestsTyped DEF Requests
  <2> QED
    BY <1>1, <1>5, <1>14, <2>1 DEF DenyRow
<1>15. ASSUME NEW r \in Request, RefundRow(r) PROVE TypeOK'
  <2>1. user' \in Row
    BY <1>1, <1>15 DEF RefundRow, Refund
  <2>2. req' \in [Request -> Requests]
    BY <1>1, <1>15 DEF RefundRow, Requests, Stages
  <2> QED
    BY <1>1, <1>15, <2>1, <2>2 DEF RefundRow, TypeOK
<1>16. ASSUME NEW r \in Request, CountFile(r) PROVE TypeOK'
  <2>1. file' \in FileRow
    <3>1. file.bytes + req[r].actual \in Int /\ file.downloads + (IF Downloaded(r) THEN 1 ELSE 0) \in Int
      BY <1>1
    <3> QED
      BY <1>1, <1>16, <3>1 DEF CountFile
  <2> QED
    BY <1>1, <1>16, <2>1 DEF CountFile, TypeOK
<1>17. ASSUME NEW r \in Request, NEW n \in 0 .. req[r].est, Close(r, n) PROVE TypeOK'
  <2>1. hash' \in Hashes
    <3>1. -Refund(r, n) \in Int
      BY <1>1 DEF Refund
    <3> QED
      BY <1>1, <1>17, <3>1, RequestsTyped DEF Close
  <2>2. req' \in [Request -> Requests]
    <3>1. req[r] \in Requests /\ "ended" \in Stages /\ n \in Nat
      BY <1>1 DEF Stages
    <3>2. [req[r] EXCEPT !.stage = "ended", !.actual = n] \in Requests
      BY <3>1 DEF Requests
    <3> QED
      BY <1>1, <1>17, <3>2 DEF Close
  <2> QED
    BY <1>1, <1>17, <2>1, <2>2 DEF Close, TypeOK
<1>18. ASSUME NEW r \in Request, NEW n \in 0 .. req[r].est, CloseRow(r, n) PROVE TypeOK'
  <2>1. req' \in [Request -> Requests]
    <3>1. req[r] \in Requests /\ "closed" \in Stages /\ n \in Nat
      BY <1>1 DEF Stages
    <3>2. [req[r] EXCEPT !.stage = "closed", !.actual = n] \in Requests
      BY <3>1 DEF Requests
    <3> QED
      BY <1>1, <1>18, <3>2 DEF CloseRow
  <2> QED
    BY <1>1, <1>18, <2>1 DEF CloseRow, TypeOK
<1>19. CASE Flush
  <2>1. SumFunctionOnSet(Actual, buffer) \in Int
    <3>1. IsFiniteSet(buffer) /\ \A r \in buffer : Actual[r] \in Int
      <4>1. IsFiniteSet(buffer)
        BY <1>1, FS_Subset, BandwidthAssumption
      <4>2. \A r \in Request : Actual[r] = req[r].actual
        BY DEF Actual
      <4> QED
        BY <1>1, <4>1, <4>2
    <3> QED
      BY <3>1, SumInt
  <2>2. Cardinality({r \in buffer : Downloaded(r)}) \in Int
    <3>1. {r \in buffer : Downloaded(r)} \in SUBSET Request
      BY <1>1
    <3>2. IsFiniteSet({r \in buffer : Downloaded(r)})
      BY <3>1, FS_Subset, BandwidthAssumption
    <3> QED
      BY <3>2, FS_CardinalityType
  <2>3. user' \in Row /\ file' \in FileRow
    <3>1. CASE Reconcile(buffer)
      <4>1. /\ user.used + SumFunctionOnSet(Actual, buffer) \in Int
            /\ file.bytes + SumFunctionOnSet(Actual, buffer) \in Int
            /\ file.downloads + Cardinality({r \in buffer : Downloaded(r)}) \in Int
        BY <1>1, <2>1, <2>2
      <4> QED
        BY <1>1, <3>1, <4>1 DEF Reconcile
    <3>2. CASE UNCHANGED <<user, file>>
      BY <1>1, <3>2
    <3> QED
      BY <1>19, <3>1, <3>2 DEF Flush
  <2> QED
    BY <1>1, <1>19, <2>3 DEF Flush, KeepBatch, TypeOK
<1>20. CASE Crash
  <2>1. req' \in [Request -> Requests]
    <3>1. ASSUME NEW r \in Request, NEW a \in {req[r].est, req[r].actual}
          PROVE  [req[r] EXCEPT !.stage = "lost", !.wipes = FALSE, !.actual = a] \in Requests
      <4>1. req[r] \in Requests /\ "lost" \in Stages /\ a \in Nat
        BY <1>1 DEF Stages
      <4> QED
        BY <4>1 DEF Requests
    <3>2. \A r \in Request : [req[r] EXCEPT !.wipes = FALSE] \in Requests
      BY <1>1, Updated
    <3>3. req' = [r \in Request |->
               CASE r \in Judging -> Refused
                 [] r \in Streaming \cup buffer ->
                      [req[r] EXCEPT !.stage = "lost", !.wipes = FALSE,
                                     !.actual = IF owner = "nest" /\ r \in Streaming THEN req[r].est ELSE req[r].actual]
                 [] OTHER -> [req[r] EXCEPT !.wipes = FALSE]]
      BY <1>1, <1>20 DEF Crash, Requests
    <3>4. Refused \in Requests
      BY RequestsTyped
    <3> QED
      BY ONLY <3>1, <3>2, <3>3, <3>4
  <2> QED
    BY <1>1, <1>20, <2>1 DEF Crash, TypeOK
<1>21. CASE Expire
  BY <1>1, <1>21, RequestsTyped DEF Expire, TypeOK
<1>22. CASE Tick
  BY <1>1, <1>22 DEF Tick, TypeOK
<1>23. CASE UNCHANGED vars
  BY <1>1, <1>23 DEF vars, TypeOK
<1> QED
  BY <1>3, <1>4, <1>6, <1>7, <1>8, <1>9, <1>10, <1>11, <1>12, <1>13, <1>14, <1>15, <1>16, <1>17,
     <1>18, <1>19, <1>20, <1>21, <1>22, <1>23 DEF Next

-----------------------------------------------------------------------------
(* The theorems.                                                           *)

\* Nobody has asked for anything yet.
LEMMA Initially ==
  ASSUME Init
  PROVE  TypeOK /\ Inv
<1>1. /\ subject \in {"user", "guest"} /\ owner \in {"go", "nest"} /\ window = 0
      /\ user = [used |-> 0, reset |-> 0] /\ file = [downloads |-> 0, bytes |-> 0, reset |-> 0]
      /\ hash = NoHash /\ req = [r \in Request |-> Idle] /\ buffer = {}
  BY BandwidthAssumption DEF Init
<1>2. Idle \in Requests /\ NoHash \in Hashes
  BY DEF Idle, NoHash, NoAnswer, Requests, Hashes, Stages
<1>3. TypeOK
  BY <1>1, <1>2 DEF TypeOK
<1>4. \A r \in Request : /\ req[r].stage = "idle" /\ req[r].window = 0 /\ req[r].actual = 0 /\ req[r].est = 0
                         /\ ~req[r].rolls /\ ~req[r].wipes
  BY <1>1 DEF Idle
<1>5. Judging = {} /\ Streaming = {} /\ Current = {} /\ Counted = {} /\ Busy = {}
  BY <1>1, <1>4 DEF Judging, Streaming, Current, Counted, Busy
<1>6. /\ HeldSum = 0 /\ BytesSum = 0 /\ DownloadsSum = 0 /\ CutSum \in Nat /\ CutsSum \in Nat
      /\ AllowedSum \in Nat
  BY <1>3, <1>5, NoneCurrent, SumsTyped
<1>7. Dated
  BY <1>1, <1>4 DEF NoHash, Dated
<1>8. Go
  BY <1>1, <1>4, <1>5, <1>6 DEF NoHash, Go, Seeded, Fresh, Asking
<1>9. Nest
  BY <1>1, <1>4, <1>5, <1>6 DEF Nest, Rows, Serving
<1>10. FileFits
  BY <1>1, <1>6 DEF FileFits
<1>11. Lonely /\ Fits
  BY <1>5, <1>6, BandwidthAssumption DEF Lonely, Fits
<1> QED
  BY <1>3, <1>7, <1>8, <1>9, <1>10, <1>11 DEF Inv

LEMMA InvStep ==
  ASSUME Calm, TypeOK, Inv, [Next]_vars
  PROVE  Inv'
<1>1. TypeOK'
  BY TypedStep
<1>2. ASSUME NEW r \in Request, NEW est \in Size, NEW full \in BOOLEAN, Start(r, est, full) PROVE Inv'
  BY <1>1, <1>2, StartKeeps
<1>3. ASSUME NEW r \in Request, Fetch(r) PROVE Inv'
  BY <1>1, <1>3, FetchKeeps
<1>4. ASSUME NEW r \in Request, FailOpen(r) PROVE Inv'
  BY <1>1, <1>4, FailOpenKeeps
<1>5. ASSUME NEW r \in Request, Seed(r) PROVE Inv'
  <2>1. owner = "go"
    BY <1>5 DEF TypeOK, Seed, Inv, Nest, Serving
  <2> QED
    BY <1>1, <1>5, <2>1, SeedKeeps
<1>6. ASSUME NEW r \in Request, Lock(r) PROVE Inv'
  BY <1>1, <1>6, LockKeeps
<1>7. ASSUME NEW r \in Request, Deny(r) PROVE Inv'
  BY <1>1, <1>7, DenyKeeps
<1>8. ASSUME NEW r \in Request, NEW est \in Size, NEW full \in BOOLEAN, Intercept(r, est, full) PROVE Inv'
  BY <1>1, <1>8, InterceptKeeps
<1>9. ASSUME NEW r \in Request, Wipe(r) PROVE Inv'
  BY <1>1, <1>9, WipeKeeps
<1>10. ASSUME NEW r \in Request, ReadUsage(r) PROVE Inv'
  BY <1>1, <1>10, ReadUsageKeeps
<1>11. ASSUME NEW r \in Request, LockRow(r) PROVE Inv'
  BY <1>1, <1>11, LockRowKeeps
<1>12. ASSUME NEW r \in Request, DenyRow(r) PROVE Inv'
  BY <1>1, <1>12, DenyRowKeeps
<1>13. ASSUME NEW r \in Request, RefundRow(r) PROVE Inv'
  BY <1>1, <1>13, RefundRowKeeps
<1>14. ASSUME NEW r \in Request, CountFile(r) PROVE Inv'
  BY <1>1, <1>14, CountFileKeeps
<1>15. ASSUME NEW r \in Request, NEW n \in 0 .. req[r].est, Close(r, n) PROVE Inv'
  BY <1>1, <1>15, CloseKeeps
<1>16. ASSUME NEW r \in Request, NEW n \in 0 .. req[r].est, CloseRow(r, n) PROVE Inv'
  BY <1>1, <1>16, CloseRowKeeps
<1>17. CASE Flush
  BY <1>1, <1>17, FlushKeeps
<1>18. CASE Crash
  BY <1>1, <1>18, CrashKeeps
<1>19. CASE Expire
  BY <1>1, <1>19, ExpireKeeps
<1>20. CASE Tick
  BY <1>1, <1>20, TickKeeps
<1>21. CASE UNCHANGED vars
  BY <1>21, Stutter
<1> QED
  BY <1>2, <1>3, <1>4, <1>5, <1>6, <1>7, <1>8, <1>9, <1>10, <1>11, <1>12, <1>13, <1>14, <1>15,
     <1>16, <1>17, <1>18, <1>19, <1>20, <1>21 DEF Next

\* The rows, the counter and the requests are what the code may store, whatever
\* races, restarts and lost answers there are.
THEOREM TypeCorrect == Spec => []TypeOK
<1>1. Init => TypeOK
  BY Initially
<1>2. TypeOK /\ [Next]_vars => TypeOK'
  BY TypedStep
<1> QED
  BY <1>1, <1>2, PTL DEF Spec

LEMMA Invariant == ASSUME Calm PROVE Spec => []Inv
<1>1. Init => Inv
  BY Initially
<1>2. TypeOK /\ Inv /\ [Next]_vars => Inv'
  BY InvStep
<1> QED
  BY <1>1, <1>2, TypeCorrect, PTL DEF Spec

\* What a request is judged by is wrong at most by the requests that an outage of
\* the core let through or a restart cut: the counter may expire, and the window
\* roll over, between requests (reconcileHash).
THEOREM RequestsJudged == ASSUME Calm PROVE Spec => []Judged
<1>1. TypeOK /\ Inv => Judged
  <2> SUFFICES ASSUME TypeOK, Inv, NEW r \in Request, req[r].stage = "seeded"
               PROVE  req[r].held - DoubtSum <= req[r].used /\ req[r].used <= req[r].held + DoubtSum
    BY SumsOfModel DEF Judged
  <2>1. CASE owner = "go"
    BY <2>1 DEF Inv, Go, Asking, Right
  <2>2. CASE owner = "nest"
    <3>1. req[r].used = req[r].held
      BY <2>2 DEF Inv, Nest, Serving
    <3>2. req[r].held \in Int /\ DoubtSum \in Nat
      BY SumsTyped DEF TypeOK, Requests
    <3> QED
      BY ONLY <3>1, <3>2
  <2> QED
    BY <2>1, <2>2 DEF TypeOK
<1> QED
  BY <1>1, TypeCorrect, Invariant, PTL

\* The limit of the day is exceeded at most by the requests that were judged
\* together, and by those that an outage let through: no refund, no flush and no
\* restart gives back more than was taken.
THEOREM DailyLimitKept == ASSUME Calm PROVE Spec => []DailyFits
<1>1. TypeOK /\ Inv => DailyFits
  BY SumsOfModel DEF Inv, Fits, DailyFits
<1> QED
  BY <1>1, TypeCorrect, Invariant, PTL

\* The rows of the core hold what was served in their window and counted, the row
\* of a core that enforces the quotas what is locked, too.
THEOREM ServedIsCharged == ASSUME Calm PROVE Spec => []Charged
<1>1. TypeOK /\ Inv => Charged
  <2> SUFFICES ASSUME TypeOK, Inv PROVE Charged
    OBVIOUS
  <2> DEFINE ended == {r \in Current : req[r].stage = "ended"} \ buffer
             counted == IF owner = "nest" THEN {r \in Current : req[r].stage \in {"closed", "ended"}} \ buffer ELSE ended
             cut == {r \in Current : owner = "nest" /\ req[r].stage = "lost"}
  <2>1. owner = "go" => ended = Counted
    BY DEF Inv, Go, Asking, Counted, Current
  <2>2. counted = Counted /\ cut = Cut
    <3>1. owner \in {"go", "nest"}
      BY DEF TypeOK
    <3> QED
      BY <2>1, <3>1 DEF Counted, Cut
  <2> HIDE DEF ended, counted, cut
  <2>3. subject = "user" /\ owner = "go" /\ user.reset = window => user.used = SumFunctionOnSet(Actual, ended)
    BY <2>1, SumsOfModel DEF Inv, Go, Seeded
  <2>4. owner = "nest" /\ user.reset = window => user.used = Held
    BY SumsOfModel DEF Inv, Nest, Rows
  <2>5. /\ SumFunctionOnSet(Est, cut) = CutSum /\ Cardinality(cut) = CutsSum
        /\ SumFunctionOnSet(Actual, counted) = BytesSum
        /\ Cardinality({r \in counted : Downloaded(r)}) = DownloadsSum
    BY <2>2, SumsOfModel
  <2>6. file.reset = window =>
          /\ file.bytes - SumFunctionOnSet(Actual, counted) \in 0 .. SumFunctionOnSet(Est, cut)
          /\ file.downloads - Cardinality({r \in counted : Downloaded(r)}) \in 0 .. Cardinality(cut)
    BY <2>5 DEF Inv, FileFits
  <2> QED
    BY <2>3, <2>4, <2>6 DEF Charged, ended, counted, cut
<1> QED
  BY <1>1, TypeCorrect, Invariant, PTL

-----------------------------------------------------------------------------
(***************************************************************************)
(* The URLs a download is served under (TransferLinks), for every number   *)
(* of files, tokens, requests and settings.  What a request has looked up, *)
(* what a copy of the CDN is good for and when a link ends is said of each *)
(* by itself (AskFits, CopyFits, LinkFits).  That a purge evicts for good  *)
(* needs two things more: the tokens that a delete takes are of no file    *)
(* but those it removes (Bearer, DeletionFits), so that nothing evicted is *)
(* looked up again; and what was looked up before is known to be late      *)
(* (LateAsk, LateCopy).                                                    *)
(***************************************************************************)

\* What the variables range over.
Url == [kind : {"share", "link", "public", "own"}, of : Nat, more : Nat]

FileRow == [place : {"absent", "active", "trashed", "gone"}, token : Nat, keyed : BOOLEAN]
AskRow ==
  [pc : {"idle", "guard", "asked", "found", "answered", "failed"}, url : Url, head : BOOLEAN,
   had : Nat, file : Nat, code : {0, 200, 304}, age : Nat, at : Nat, late : BOOLEAN]
CopyRow == [file : Nat, age : Nat, until : Nat, since : Nat, late : BOOLEAN]
DeletionRow ==
  [pc : {"idle", "read", "removed", "purge"}, files : SUBSET File, tokens : SUBSET Nat,
   todo : SUBSET Url, failed : BOOLEAN]
LinkRow == [file : File, exp : Nat, at : Nat, window : Nat]
Seeable == [config : Configs, at : Nat, edits : Nat]

LinksTyped ==
  /\ now \in Nat /\ issued \in Nat /\ public \in BOOLEAN
  /\ files \in [File -> FileRow]
  /\ sharing \in [file : Nat, token : Nat]
  /\ config \in Configs /\ former \in Seeable
  /\ links \subseteq LinkRow
  /\ \A u \in DOMAIN cdn : cdn[u] \in CopyRow
  /\ ask \in [Reqs -> AskRow]
  /\ deletion \in DeletionRow
  /\ cleared \in [tokens : SUBSET Nat, files : SUBSET File]

\* The expiry of a link is a multiple of the window, as many seconds late as the window has at most.
LEMMA QuantizedFits ==
  ASSUME NEW e \in Nat, NEW w \in Nat
  PROVE  /\ Links!Quantized(e, w) \in Nat /\ e <= Links!Quantized(e, w)
         /\ Links!Quantized(e, w) <= e + (IF w = 0 THEN 0 ELSE w - 1)
         /\ w # 0 => \E n \in Nat : Links!Quantized(e, w) = n * w
<1>1. CASE w = 0  BY <1>1 DEF Links!Quantized
<1>2. CASE w # 0
  <2> DEFINE n == (e + w - 1) \div w
  <2>1. e + w - 1 \in Nat /\ w \in Nat \ {0}  BY <1>2
  <2>2. n \in Nat /\ n * w <= e + w - 1 /\ e + w - 1 < n * w + w  BY <2>1
  <2>3. Links!Quantized(e, w) = n * w  BY <1>2 DEF Links!Quantized
  <2> HIDE DEF n
  <2>4. n * w \in Nat  BY <2>1, <2>2
  <2>5. e <= n * w  BY <1>2, <2>2, <2>4
  <2> QED BY <1>2, <2>2, <2>3, <2>4, <2>5
<1> QED BY <1>1, <1>2

\* Of two multiples the larger one is larger by the window.
LEMMA Multiples ==
  ASSUME NEW w \in Nat, NEW m \in Nat, NEW n \in Nat, m * w < n * w
  PROVE  m * w + w <= n * w
<1>1. m < n
  <2>1. ASSUME n <= m PROVE FALSE
    <3>1. PICK d \in Nat : m = n + d  BY <2>1
    <3>2. m * w = n * w + d * w /\ d * w \in Nat /\ n * w \in Nat  BY <3>1
    <3> QED BY <3>2
  <2> QED BY <2>1
<1>2. PICK d \in Nat : n = m + 1 + d  BY <1>1
<1>3. n * w = m * w + w + d * w /\ d * w \in Nat /\ m * w \in Nat  BY <1>2
<1> QED BY <1>3

LEMMA UrlTyped ==
  ASSUME Links!LinksFit, LinksTyped, NEW u \in Links!Urls PROVE u \in Url
<1>1. \/ \E n \in 1 .. issued, r \in Routes : u = Links!Share(n, r)
      \/ \E f \in File : u = Links!Own(f)
      \/ \E l \in links : u = Links!Link(l.file, l.exp)
      \/ u = Links!PublicPath
  BY DEF Links!Urls
<1>2. ASSUME NEW n \in 1 .. issued, NEW r \in Routes PROVE Links!Share(n, r) \in Url
  BY DEF Links!LinksFit, LinksTyped, Links!Share, Url
<1>3. ASSUME NEW f \in File PROVE Links!Own(f) \in Url
  BY DEF Links!LinksFit, Links!Own, Url
<1>4. ASSUME NEW l \in links PROVE Links!Link(l.file, l.exp) \in Url
  <2>1. l.file \in Nat /\ l.exp \in Nat  BY DEF LinksTyped, LinkRow, Links!LinksFit
  <2> QED BY <2>1 DEF Links!Link, Url
<1>5. Links!PublicPath \in Url  BY DEF Links!PublicPath, Url
<1> QED BY <1>1, <1>2, <1>3, <1>4, <1>5

\* What the CDN may be told about the age of an answer.
LEMMA AgeFits ==
  ASSUME Links!LinksFit, NEW c \in Configs, NEW u
  PROVE  /\ Links!MaxAge(u, c) \in Nat
         /\ Links!MaxAge(u, c) <= MaxTtl \/ Links!MaxAge(u, c) = Links!Unstorable
         /\ (Links!Signed(u) /\ Links!Mode(u, c) # "disabled") => Links!MaxAge(u, c) <= MaxTtl
         /\ ~Links!Signed(u) => Links!MaxAge(u, c) = Links!Unstorable
<1>1. {DefaultTtl, MinTtl, MaxTtl, MaxTime} \subseteq Nat /\ DefaultTtl <= MaxTtl /\ MinTtl <= MaxTtl
      /\ c.ttl \in Nat
  BY DEF Links!LinksFit
<1>2. Links!Clamped(c.ttl) \in Nat /\ Links!Clamped(c.ttl) <= MaxTtl
  BY <1>1 DEF Links!Clamped
<1> QED BY <1>1, <1>2 DEF Links!MaxAge, Links!Unstorable

LEMMA LinksTypedInit ==
  ASSUME Links!LinksFit, Links!Init PROVE LinksTyped
<1>1. PICK s \in Setups : s = setup /\ s.given \in Nat
  BY DEF Links!Init, Links!LinksFit
<1>2. files \in [File -> FileRow]
  BY <1>1 DEF Links!Init, FileRow
<1>3. Links!Idle \in AskRow
  BY DEF Links!Idle, Links!PublicPath, AskRow, Url
<1>4. Links!NoDeletion \in DeletionRow
  BY DEF Links!NoDeletion, DeletionRow
<1>5. \A u \in DOMAIN cdn : cdn[u] \in CopyRow
  BY DEF Links!Init
<1> QED BY <1>1, <1>2, <1>3, <1>4, <1>5 DEF Links!Init, LinksTyped, Links!NoShare, Seeable

\* The owner and the admin keep the types.
LEMMA OwnerTyped ==
  ASSUME Links!LinksFit, LinksTyped, Links!User \/ Links!ShareUpdate \/ Links!Admin PROVE LinksTyped'
<1> USE DEF LinksTyped
<1>1. ASSUME NEW f \in File, Links!Put(f) PROVE LinksTyped'
  <2>1. files' \in [File -> FileRow]
    BY <1>1, ZenonT(60) DEF Links!Put, FileRow
  <2> QED BY <1>1, <2>1 DEF Links!Put
<1>2. ASSUME NEW f \in File, Links!Trash(f) PROVE LinksTyped'
  BY <1>2 DEF Links!Trash, FileRow
<1>3. ASSUME NEW f \in File, Links!Restore(f) PROVE LinksTyped'
  <2>1. files' \in [File -> FileRow]
    <3> DEFINE free == \A g \in File : ~(Links!Active(g) /\ files[g].keyed)
    <3>1. files' = [files EXCEPT ![f].place = "active", ![f].keyed = @ /\ free]
      BY <1>3 DEF Links!Restore
    <3> HIDE DEF free
    <3>2. files[f] \in FileRow  OBVIOUS
    <3>3. (files[f].keyed /\ free) \in BOOLEAN  OBVIOUS
    <3> QED BY <3>1, <3>2, <3>3 DEF FileRow
  <2> QED BY <1>3, <2>1 DEF Links!Restore
<1>4. ASSUME NEW f \in File, Links!ShareCheck(f) PROVE LinksTyped'
  <2>1. files[f].token \in Nat /\ f \in Nat  BY DEF FileRow, Links!LinksFit
  <2> QED BY <1>4, <2>1 DEF Links!ShareCheck
<1>5. CASE Links!ShareUpdate
  <2>1. files' \in [File -> FileRow]
    BY <1>5, ZenonT(60) DEF Links!ShareUpdate, FileRow
  <2> QED BY <1>5, <2>1 DEF Links!ShareUpdate, Links!NoShare
<1>6. ASSUME NEW f \in File, Links!Unshare(f) PROVE LinksTyped'
  BY <1>6 DEF Links!Unshare, FileRow
<1>7. ASSUME NEW f \in File, NEW c \in Links!Seen, Links!Mint(f, c) PROVE LinksTyped'
  <2>1. c \in Configs  BY DEF Links!Seen, Seeable
  <2>2. Links!Window(c) \in Nat  BY <2>1 DEF Links!Window, Links!LinksFit
  <2>3. Links!Expiry(c) \in Nat
    <3>1. now + LinkTtl \in Nat  BY DEF Links!LinksFit
    <3> QED BY <2>2, <3>1, QuantizedFits DEF Links!Expiry
  <2>4. links' \subseteq LinkRow
    BY <1>7, <2>2, <2>3 DEF Links!Mint, LinkRow
  <2> QED BY <1>7, <2>4 DEF Links!Mint
<1>8. ASSUME NEW c \in Configs, Links!Configure(c) PROVE LinksTyped'
  BY <1>8 DEF Links!Configure, Seeable
<1>9. CASE Links!SetPublic
  BY <1>9 DEF Links!SetPublic, Seeable
<1> QED BY <1>1, <1>2, <1>3, <1>4, <1>5, <1>6, <1>7, <1>8, <1>9 DEF Links!User, Links!Admin

\* What the CDN stores under a URL.
LEMMA StoredFits ==
  ASSUME NEW r \in Reqs, NEW f, NEW age, cdn' = Links!Stored(r, f, age)
  PROVE  /\ DOMAIN cdn' = DOMAIN cdn \cup {ask[r].url}
         /\ cdn'[ask[r].url] =
              [file |-> f, age |-> age, until |-> now + age, since |-> ask[r].at, late |-> ask[r].late]
         /\ \A u \in DOMAIN cdn : u # ask[r].url => cdn'[u] = cdn[u]
BY DEF Links!Stored

LEMMA DroppedFits ==
  ASSUME NEW S
  PROVE  DOMAIN Links!Dropped(S) = DOMAIN cdn \ S /\ \A u \in DOMAIN cdn \ S : Links!Dropped(S)[u] = cdn[u]
BY DEF Links!Dropped

\* What becomes of the copies when an answer arrives.
LEMMA Delivers ==
  ASSUME LinksTyped, NEW r \in Reqs, Links!Deliver(r)
  PROVE  \/ cdn' = cdn
         \/ cdn' = Links!Dropped({ask[r].url})
         \/ /\ ask[r].pc = "answered" /\ ask[r].code = 304 /\ ask[r].head
            /\ ask[r].url \in DOMAIN cdn
            /\ cdn' = Links!Stored(r, ask[r].had, cdn[ask[r].url].age)
         \/ /\ ask[r].pc = "answered" /\ ask[r].code = 304 /\ ~ask[r].head
            /\ cdn' = Links!Stored(r, ask[r].had, ask[r].age)
         \/ /\ ask[r].pc = "answered" /\ ask[r].code # 304 /\ ask[r].age # Links!Unstorable /\ ~ask[r].head
            /\ cdn' = Links!Stored(r, ask[r].file, ask[r].age)
<1> DEFINE kept == ask[r].had # 0 /\ Links!Copy(ask[r].url).file = ask[r].had
<1>1. kept => ask[r].url \in DOMAIN cdn
  BY DEF Links!Copy, Links!NoCopy
<1>2. ask[r].head \in BOOLEAN  BY DEF LinksTyped, AskRow
<1> HIDE DEF kept
<1>3. CASE cdn' = IF ask[r].head THEN cdn ELSE Links!Dropped({ask[r].url})
  BY <1>3, Zenon
<1>4. CASE /\ ask[r].pc = "answered" /\ (ask[r].head \/ ask[r].code = 304)
           /\ cdn' = IF ask[r].code = 304 /\ kept
                     THEN Links!Stored(r, ask[r].had, IF ask[r].head THEN cdn[ask[r].url].age ELSE ask[r].age)
                     ELSE cdn
  BY <1>1, <1>2, <1>4
<1>5. CASE /\ ask[r].pc = "answered" /\ ~ask[r].head /\ ask[r].code # 304
           /\ cdn' = IF ask[r].age = Links!Unstorable THEN Links!Dropped({ask[r].url})
                     ELSE Links!Stored(r, ask[r].file, ask[r].age)
  BY <1>5, Zenon
<1>6. \/ cdn' = IF ask[r].head THEN cdn ELSE Links!Dropped({ask[r].url})
      \/ /\ ask[r].pc = "answered" /\ (ask[r].head \/ ask[r].code = 304)
         /\ cdn' = IF ask[r].code = 304 /\ kept
                   THEN Links!Stored(r, ask[r].had, IF ask[r].head THEN cdn[ask[r].url].age ELSE ask[r].age)
                   ELSE cdn
      \/ /\ ask[r].pc = "answered" /\ ~ask[r].head /\ ask[r].code # 304
         /\ cdn' = IF ask[r].age = Links!Unstorable THEN Links!Dropped({ask[r].url})
                   ELSE Links!Stored(r, ask[r].file, ask[r].age)
  BY Zenon DEF Links!Deliver, kept
<1> QED BY <1>3, <1>4, <1>5, <1>6

\* The requests keep the types.
LEMMA ServeTyped ==
  ASSUME Links!LinksFit, LinksTyped, Links!Serve PROVE LinksTyped'
<1> USE DEF LinksTyped
<1>0. ask \in [Reqs -> AskRow] /\ \A u \in DOMAIN cdn : cdn[u] \in CopyRow
  OBVIOUS
<1>1. ASSUME NEW r \in Reqs, NEW u \in Links!Urls, NEW head \in BOOLEAN, Links!Ask(r, u, head)
      PROVE  LinksTyped'
  <2>1. u \in Url  BY UrlTyped
  <2>2. Links!Copy(u).file \in Nat
    BY DEF Links!Copy, Links!NoCopy, CopyRow
  <2>3. ask' = [ask EXCEPT ![r] = [Links!Idle EXCEPT !.pc = IF u.kind = "public" THEN "guard" ELSE "asked",
               !.url = u, !.head = head, !.had = Links!Copy(u).file, !.at = now]]
    BY <1>1 DEF Links!Ask
  <2>4. ask' \in [Reqs -> AskRow]
    BY <2>1, <2>2, <2>3, ZenonT(60) DEF Links!Idle, AskRow
  <2> QED BY <1>1, <2>4 DEF Links!Ask
<1>2. ASSUME NEW r \in Reqs, Links!Guard(r) PROVE LinksTyped'
  BY <1>2 DEF Links!Guard, AskRow
<1>3. ASSUME NEW r \in Reqs, Links!LookUp(r) PROVE LinksTyped'
  <2>1. ask' \in [Reqs -> AskRow]
    <3>1. ASSUME NEW f \in File, ask' = [ask EXCEPT ![r].pc = "found", ![r].file = f]
          PROVE  ask' \in [Reqs -> AskRow]
      <4>1. f \in Nat  BY DEF Links!LinksFit
      <4> HIDE DEF LinksTyped
      <4>2. ask[r] \in AskRow  BY <1>0
      <4>3. [ask[r] EXCEPT !.pc = "found", !.file = f] \in AskRow  BY <4>1, <4>2 DEF AskRow
      <4> QED BY <1>0, <3>1, <4>3
    <3>2. ASSUME ask' = [ask EXCEPT ![r].pc = "failed"] PROVE ask' \in [Reqs -> AskRow]
      BY <3>2 DEF AskRow
    <3> QED BY <1>3, <3>1, <3>2 DEF Links!LookUp
  <2> QED BY <1>3, <2>1 DEF Links!LookUp
<1>4. ASSUME NEW r \in Reqs, NEW c \in Links!Seen, Links!Answer(r, c) PROVE LinksTyped'
  <2>1. c \in Configs  BY DEF Links!Seen, Seeable
  <2>2. Links!MaxAge(ask[r].url, c) \in Nat  BY <2>1, AgeFits
  <2> DEFINE same == /\ Links!Mode(ask[r].url, c) # "disabled"
                     /\ Links!Signed(ask[r].url) /\ Links!Matches(ask[r].had, ask[r].file)
             code == IF same THEN 304 ELSE 200
  <2>3. ask' = [ask EXCEPT ![r].pc = "answered", ![r].age = Links!MaxAge(ask[r].url, c), ![r].code = code]
    BY <1>4 DEF Links!Answer
  <2>4. ask' \in [Reqs -> AskRow]
    <3>1. code \in {0, 200, 304}  OBVIOUS
    <3> HIDE DEF LinksTyped, code
    <3>2. ask[r] \in AskRow  BY <1>0
    <3>3. [ask[r] EXCEPT !.pc = "answered", !.age = Links!MaxAge(ask[r].url, c), !.code = code] \in AskRow
      BY <2>2, <3>1, <3>2, ZenonT(60) DEF AskRow
    <3> QED BY <1>0, <2>3, <3>3
  <2> QED BY <1>4, <2>4 DEF Links!Answer
<1>5. ASSUME NEW r \in Reqs, Links!AnswerHead(r) PROVE LinksTyped'
  <2> DEFINE code == IF Links!Matches(ask[r].had, ask[r].file) THEN 304 ELSE 200
  <2>1. ask' = [ask EXCEPT ![r].pc = "answered", ![r].code = code]
    BY <1>5 DEF Links!AnswerHead
  <2>2. ask' \in [Reqs -> AskRow]
    <3>1. code \in {0, 200, 304}  OBVIOUS
    <3> HIDE DEF LinksTyped, code
    <3>2. ask[r] \in AskRow  BY <1>0
    <3>3. [ask[r] EXCEPT !.pc = "answered", !.code = code] \in AskRow
      BY <3>1, <3>2, ZenonT(60) DEF AskRow
    <3> QED BY <1>0, <2>1, <3>3
  <2> QED BY <1>5, <2>2 DEF Links!AnswerHead
<1>6. ASSUME NEW r \in Reqs, Links!Deliver(r) PROVE LinksTyped'
  <2>1. ask' \in [Reqs -> AskRow]
    BY <1>6 DEF Links!Deliver, Links!Idle, Links!PublicPath, AskRow, Url
  <2>2. ask[r] \in AskRow  OBVIOUS
  <2>3. ASSUME NEW f \in Nat, NEW age \in Nat, cdn' = Links!Stored(r, f, age), NEW u \in DOMAIN cdn'
        PROVE  cdn'[u] \in CopyRow
    <3>9. now \in Nat  OBVIOUS
    <3> HIDE DEF LinksTyped
    <3>0. /\ DOMAIN cdn' = DOMAIN cdn \cup {ask[r].url}
          /\ cdn'[ask[r].url] =
               [file |-> f, age |-> age, until |-> now + age, since |-> ask[r].at, late |-> ask[r].late]
          /\ \A v \in DOMAIN cdn : v # ask[r].url => cdn'[v] = cdn[v]
      BY <2>3, StoredFits, Zenon
    <3>1. CASE u = ask[r].url
      <4>1. cdn'[u] = [file |-> f, age |-> age, until |-> now + age, since |-> ask[r].at, late |-> ask[r].late]
        BY <3>0, <3>1
      <4>2. ask[r].at \in Nat /\ ask[r].late \in BOOLEAN /\ now + age \in Nat  BY <2>2, <2>3, <3>9 DEF AskRow
      <4> QED BY <4>1, <4>2 DEF CopyRow
    <3>2. CASE u # ask[r].url
      <4>1. u \in DOMAIN cdn  BY <2>3, <3>0, <3>2
      <4>2. cdn'[u] = cdn[u]  BY <3>0, <3>2, <4>1
      <4> QED BY <1>0, <4>1, <4>2
    <3> QED BY <3>1, <3>2
  <2>4. ask[r].had \in Nat /\ ask[r].file \in Nat /\ ask[r].age \in Nat  BY <2>2 DEF AskRow
  <2>5. ask[r].url \in DOMAIN cdn => cdn[ask[r].url].age \in Nat  BY DEF CopyRow
  <2>6. \A u \in DOMAIN cdn' : cdn'[u] \in CopyRow
    <3>1. CASE cdn' = cdn  BY <1>0, <3>1
    <3>2. CASE cdn' = Links!Dropped({ask[r].url})
      <4> HIDE DEF LinksTyped
      <4> QED BY <1>0, <3>2, DroppedFits
    <3>3. CASE ask[r].url \in DOMAIN cdn /\ cdn' = Links!Stored(r, ask[r].had, cdn[ask[r].url].age)
      BY <2>3, <2>4, <2>5, <3>3
    <3>4. CASE cdn' = Links!Stored(r, ask[r].had, ask[r].age)  BY <2>3, <2>4, <3>4
    <3>5. CASE cdn' = Links!Stored(r, ask[r].file, ask[r].age)  BY <2>3, <2>4, <3>5
    <3>6. \/ cdn' = cdn \/ cdn' = Links!Dropped({ask[r].url})
          \/ ask[r].url \in DOMAIN cdn /\ cdn' = Links!Stored(r, ask[r].had, cdn[ask[r].url].age)
          \/ cdn' = Links!Stored(r, ask[r].had, ask[r].age)
          \/ cdn' = Links!Stored(r, ask[r].file, ask[r].age)
      <4>1. LinksTyped  OBVIOUS
      <4> HIDE DEF LinksTyped
      <4> QED BY <1>6, <4>1, Delivers
    <3> HIDE DEF LinksTyped
    <3> QED BY <3>1, <3>2, <3>3, <3>4, <3>5, <3>6
  <2> QED BY <1>6, <2>1, <2>6 DEF Links!Deliver
<1> QED BY <1>1, <1>2, <1>3, <1>4, <1>5, <1>6 DEF Links!Serve

\* A delete and the clock keep the types.
LEMMA DeleteTypes ==
  ASSUME Links!LinksFit, LinksTyped, Links!Delete \/ Links!Tick PROVE LinksTyped'
<1> USE DEF LinksTyped
<1>1. ASSUME NEW S \in SUBSET File, Links!DeleteRead(S) PROVE LinksTyped'
  <2>1. {files[f].token : f \in S} \ {0} \subseteq Nat  BY DEF FileRow
  <2>2. deletion' = [Links!NoDeletion EXCEPT !.pc = "read", !.files = S,
                                            !.tokens = {files[f].token : f \in S} \ {0}]
    BY <1>1 DEF Links!DeleteRead
  <2>3. deletion' \in DeletionRow
    BY <2>1, <2>2 DEF Links!NoDeletion, DeletionRow
  <2> QED BY <1>1, <2>3 DEF Links!DeleteRead
<1>2. CASE Links!DeleteRows
  <2>1. files' \in [File -> FileRow]  BY <1>2 DEF Links!DeleteRows, FileRow
  <2>2. deletion' \in DeletionRow  BY <1>2 DEF Links!DeleteRows, DeletionRow
  <2> QED BY <1>2, <2>1, <2>2 DEF Links!DeleteRows
<1>3. CASE Links!Purge
  <2>1. Links!NoDeletion \in DeletionRow  BY DEF Links!NoDeletion, DeletionRow
  <2>2. Links!Keyed(deletion.files) \subseteq File  BY DEF Links!Keyed, DeletionRow
  <2>3. \A t \in deletion.tokens : Links!RoutesOf(t) \subseteq Url
    BY DEF Links!RoutesOf, Links!Share, Url, DeletionRow
  <2>4. Links!PublicPath \in Url  BY DEF Links!PublicPath, Url
  <2> DEFINE todo == (UNION {Links!RoutesOf(t) : t \in deletion.tokens})
                       \cup (IF Links!Keyed(deletion.files) # {} THEN {Links!PublicPath} ELSE {})
  <2>5. todo \in SUBSET Url
    <3> HIDE DEF LinksTyped
    <3>1. ASSUME NEW u \in todo PROVE u \in Url
      <4>1. CASE u \in (UNION {Links!RoutesOf(t) : t \in deletion.tokens})
        <5>1. PICK t \in deletion.tokens : u \in Links!RoutesOf(t)  BY <4>1
        <5> QED BY <2>3, <5>1
      <4>2. CASE u \in (IF Links!Keyed(deletion.files) # {} THEN {Links!PublicPath} ELSE {})
        BY <2>4, <4>2
      <4> QED BY <3>1, <4>1, <4>2
    <3> QED BY <3>1
  <2>6. \/ deletion' = Links!NoDeletion
        \/ deletion' = [deletion EXCEPT !.pc = "purge", !.files = Links!Keyed(deletion.files), !.todo = todo]
    BY <1>3 DEF Links!Purge
  <2> HIDE DEF todo
  <2>7. deletion' \in DeletionRow
    BY <2>1, <2>2, <2>5, <2>6 DEF DeletionRow
  <2> QED BY <1>3, <2>7 DEF Links!Purge
<1>4. CASE Links!PurgeEnds
  <2>1. Links!NoDeletion \in DeletionRow  BY DEF Links!NoDeletion, DeletionRow
  <2> QED BY <1>4, <2>1 DEF Links!PurgeEnds, DeletionRow
<1>5. ASSUME NEW B, NEW ok \in BOOLEAN, Links!PurgeBatch(B, ok) PROVE LinksTyped'
  <2>1. deletion' \in DeletionRow
    <3>1. deletion' = [deletion EXCEPT !.todo = @ \ B, !.failed = @ \/ ~ok]
      BY <1>5 DEF Links!PurgeBatch
    <3>2. (deletion.failed \/ ~ok) \in BOOLEAN /\ deletion.todo \ B \in SUBSET Url  BY DEF DeletionRow
    <3> QED BY <3>1, <3>2 DEF DeletionRow
  <2>2. ask' \in [Reqs -> AskRow]
    <3>1. CASE ask' = ask  BY <3>1
    <3>2. CASE ask' = [r \in Reqs |-> IF ask[r].pc # "idle" /\ ask[r].url \in B
                                      THEN [ask[r] EXCEPT !.late = TRUE] ELSE ask[r]]
      <4>2. \A r \in Reqs : ask[r] \in AskRow  OBVIOUS
      <4> HIDE DEF LinksTyped
      <4>1. ASSUME NEW r \in Reqs PROVE [ask[r] EXCEPT !.late = TRUE] \in AskRow
        <5>1. ask[r] \in AskRow  BY <4>2
        <5> QED BY <5>1 DEF AskRow
      <4> QED BY <3>2, <4>1, <4>2
    <3> QED BY <1>5, <3>1, <3>2 DEF Links!PurgeBatch
  <2>3. \A u \in DOMAIN cdn' : cdn'[u] \in CopyRow
    <3>1. cdn' = cdn \/ cdn' = Links!Dropped(B)  BY <1>5 DEF Links!PurgeBatch
    <3>2. \A u \in DOMAIN cdn : cdn[u] \in CopyRow  OBVIOUS
    <3> HIDE DEF LinksTyped
    <3>3. CASE cdn' = cdn  BY <3>2, <3>3
    <3>4. CASE cdn' = Links!Dropped(B)
      <4>1. DOMAIN cdn' = DOMAIN cdn \ B /\ \A u \in DOMAIN cdn \ B : cdn'[u] = cdn[u]
        BY <3>4, DroppedFits, Zenon
      <4> QED BY <3>2, <4>1
    <3> QED BY <3>1, <3>3, <3>4
  <2> QED BY <1>5, <2>1, <2>2, <2>3 DEF Links!PurgeBatch
<1>6. CASE Links!Tick
  <2>1. former' \in Seeable  BY <1>6 DEF Links!Tick, Seeable
  <2>2. \A u \in DOMAIN cdn' : cdn'[u] \in CopyRow
    BY <1>6 DEF Links!Tick, CopyRow
  <2>3. now' \in Nat
    <3>1. now \in Nat /\ now' = now + 1  BY <1>6 DEF Links!Tick
    <3> HIDE DEF LinksTyped
    <3> QED BY <3>1
  <2> QED BY <1>6, <2>1, <2>2, <2>3 DEF Links!Tick
<1> QED BY <1>1, <1>2, <1>3, <1>4, <1>5, <1>6 DEF Links!Delete

LEMMA LinksTypedNext ==
  ASSUME Links!LinksFit, LinksTyped, Links!Next PROVE LinksTyped'
BY OwnerTyped, ServeTyped, DeleteTypes DEF Links!Next

-----------------------------------------------------------------------------
(* Answers and links.                                                       *)

Formed(u) ==
  /\ u.kind = "share" => \E n \in Nat, k \in 1 .. 3 : u = Links!Share(n, k)
  /\ u.kind = "public" => u = Links!PublicPath

\* What a request knows is of its time, and what it answers is allowed.
AskFits(r) ==
  ask[r].pc # "idle" =>
    /\ Formed(ask[r].url) /\ (ask[r].head => ask[r].url.kind = "public")
    /\ ask[r].at <= now /\ now <= ask[r].at + Flight
    /\ ask[r].pc \in {"found", "answered"} => ask[r].file \in saw[r]
    /\ ask[r].pc = "answered" =>
         /\ ask[r].code = 304 => /\ ask[r].had = ask[r].file /\ Links!Signed(ask[r].url)
                                 /\ ~ask[r].head => ask[r].age <= MaxTtl
         /\ ~ask[r].head => /\ ask[r].age <= MaxTtl \/ ask[r].age = Links!Unstorable
                            /\ ~Links!Signed(ask[r].url) => ask[r].age = Links!Unstorable

CopyFits(u) ==
  /\ Formed(u) /\ Links!Signed(u)
  /\ cdn[u].age <= MaxTtl /\ cdn[u].until <= cdn[u].since + Flight + MaxTtl

LinkFits(l) ==
  /\ l.at + LinkTtl <= l.exp
  /\ l.exp <= l.at + LinkTtl + (IF l.window = 0 THEN 0 ELSE l.window - 1)
  /\ l.window # 0 => \E n \in Nat : l.exp = n * l.window

\* The URLs that are asked for.
LEMMA UrlsFormed ==
  ASSUME Links!LinksFit, LinksTyped, NEW u \in Links!Urls PROVE Formed(u)
<1>1. \/ \E n \in 1 .. issued, r \in Routes : u = Links!Share(n, r)
      \/ \E f \in File : u = Links!Own(f)
      \/ \E l \in links : u = Links!Link(l.file, l.exp)
      \/ u = Links!PublicPath
  BY DEF Links!Urls
<1>2. ASSUME NEW n \in 1 .. issued, NEW r \in Routes, u = Links!Share(n, r) PROVE Formed(u)
  <2>1. n \in Nat /\ r \in 1 .. 3  BY DEF Links!LinksFit, LinksTyped
  <2>2. u.kind = "share"  BY <1>2 DEF Links!Share
  <2> QED BY <1>2, <2>1, <2>2 DEF Formed
<1>3. ASSUME NEW f \in File, u = Links!Own(f) PROVE Formed(u)
  BY <1>3 DEF Formed, Links!Own
<1>4. ASSUME NEW l \in links, u = Links!Link(l.file, l.exp) PROVE Formed(u)
  BY <1>4 DEF Formed, Links!Link
<1>5. ASSUME u = Links!PublicPath PROVE Formed(u)
  BY <1>5 DEF Formed, Links!PublicPath
<1> QED BY <1>1, <1>2, <1>3, <1>4, <1>5

\* Whoever is asked does not change what the others know.
LEMMA AskKept ==
  ASSUME LinksTyped, NEW r \in Reqs, AskFits(r), now' = now,
         ask'[r].pc # "idle" => saw[r] \subseteq saw'[r],
         \/ ask'[r] = ask[r]
         \/ ask'[r] = [ask[r] EXCEPT !.late = TRUE]
  PROVE  AskFits(r)'
<1>1. ask[r] \in AskRow  BY DEF LinksTyped
<1>2. /\ ask'[r].pc = ask[r].pc /\ ask'[r].url = ask[r].url /\ ask'[r].head = ask[r].head
      /\ ask'[r].had = ask[r].had /\ ask'[r].file = ask[r].file /\ ask'[r].code = ask[r].code
      /\ ask'[r].age = ask[r].age /\ ask'[r].at = ask[r].at
  BY <1>1 DEF AskRow
<1> QED BY <1>2 DEF AskFits

\* A request sees what its URL names from the moment it is made.
LEMMA Sees ==
  ASSUME Links!Next, NEW r \in Reqs, ask'[r].pc # "idle"
  PROVE  /\ saw[r] \subseteq saw'[r]
         /\ \A f \in File : (/\ Links!Names(ask[r].url, f) /\ ask'[r].url = ask[r].url
                             /\ UNCHANGED <<now, files, public>>) => f \in saw'[r]
<1>1. saw'[r] = saw[r] \cup {f \in File : Links!Names(ask[r].url, f)}'
  BY DEF Links!Next
<1>2. ASSUME NEW f \in File, Links!Names(ask[r].url, f), ask'[r].url = ask[r].url, UNCHANGED <<now, files, public>>
      PROVE  f \in saw'[r]
  <2>1. f \in {g \in File : Links!Names(ask[r].url, g)}'
    BY <1>2 DEF Links!Names, Links!Active
  <2> QED BY <1>1, <2>1
<1> QED BY <1>1, <1>2

LEMMA AsksFit ==
  ASSUME Links!LinksFit, LinksTyped, \A r \in Reqs : AskFits(r), Links!Next
  PROVE  \A r \in Reqs : AskFits(r)'
<1>0. ask \in [Reqs -> AskRow] /\ now \in Nat  BY DEF LinksTyped
<1>1. ASSUME NEW r \in Reqs, now' = now, ask'[r] = ask[r] \/ ask'[r] = [ask[r] EXCEPT !.late = TRUE]
      PROVE  AskFits(r)'
  BY <1>1, AskKept, Sees
<1>2. CASE Links!User \/ Links!ShareUpdate \/ Links!Admin
  <2>1. ask' = ask /\ now' = now
    BY <1>2 DEF Links!User, Links!Put, Links!Trash, Links!Restore, Links!ShareCheck, Links!Unshare, Links!Mint,
                Links!ShareUpdate, Links!Admin, Links!SetPublic, Links!Configure
  <2> QED BY <1>1, <2>1
<1>3. CASE Links!Delete
  <2>1. now' = now /\ (ask' = ask \/ \E B : ask' = [r \in Reqs |->
           IF ask[r].pc # "idle" /\ ask[r].url \in B THEN [ask[r] EXCEPT !.late = TRUE] ELSE ask[r]])
    BY <1>3 DEF Links!Delete, Links!DeleteRead, Links!DeleteRows, Links!Purge, Links!PurgeEnds, Links!PurgeBatch
  <2>2. \A r \in Reqs : ask'[r] = ask[r] \/ ask'[r] = [ask[r] EXCEPT !.late = TRUE]
    BY <2>1
  <2> QED BY <1>1, <2>1, <2>2
<1>4. CASE Links!Tick
  <2>1. ask' = ask /\ now' = now + 1 /\ \A r \in Reqs : ask[r].pc # "idle" => now < ask[r].at + Flight
    BY <1>4 DEF Links!Tick
  <2>2. ASSUME NEW r \in Reqs, ask[r].pc # "idle" PROVE AskFits(r)'
    <3>1. ask'[r] = ask[r] /\ saw[r] \subseteq saw'[r]  BY <2>1, <2>2, Sees
    <3>2. ask[r].at \in Nat /\ Flight \in Nat  BY <1>0 DEF AskRow, Links!LinksFit
    <3>3. ask[r].at <= now' /\ now' <= ask[r].at + Flight
      BY <1>0, <2>1, <2>2, <3>2 DEF AskFits
    <3> QED BY <2>2, <3>1, <3>3 DEF AskFits
  <2> QED BY <2>1, <2>2 DEF AskFits
<1>5. CASE Links!Serve
  <2>1. now' = now /\ UNCHANGED <<files, public>>
    BY <1>5, ZenonT(60) DEF Links!Serve, Links!Ask, Links!Guard, Links!LookUp, Links!Answer, Links!AnswerHead, Links!Deliver
  <2>2. ASSUME NEW r \in Reqs, NEW q \in Reqs, NEW s, ask' = [ask EXCEPT ![r] = s], q # r PROVE AskFits(q)'
    BY <1>0, <1>1, <2>1, <2>2
  <2>3. ASSUME NEW r \in Reqs, NEW u \in Links!Urls, NEW head \in BOOLEAN, Links!Ask(r, u, head)
        PROVE  \A q \in Reqs : AskFits(q)'
    <3> DEFINE s == [Links!Idle EXCEPT !.pc = IF u.kind = "public" THEN "guard" ELSE "asked",
               !.url = u, !.head = head, !.had = Links!Copy(u).file, !.at = now]
    <3>1. ask' = [ask EXCEPT ![r] = s] /\ (head => u.kind = "public")  BY <2>3 DEF Links!Ask
    <3>2. s.url = u /\ s.head = head /\ s.at = now /\ s.pc \in {"guard", "asked"}  BY DEF Links!Idle
    <3> HIDE DEF s
    <3>3. ask'[r] = s  BY <1>0, <3>1
    <3>4. Formed(u)  BY UrlsFormed
    <3>5. now <= now + Flight  BY <1>0 DEF Links!LinksFit
    <3>6. AskFits(r)'  BY <1>0, <2>1, <3>1, <3>2, <3>3, <3>4, <3>5 DEF AskFits
    <3> QED BY <2>2, <3>1, <3>6
  <2>4. ASSUME NEW r \in Reqs, Links!Guard(r) PROVE \A q \in Reqs : AskFits(q)'
    <3> DEFINE s == [ask[r] EXCEPT !.pc = IF public THEN "asked" ELSE "failed"]
    <3>1. ask' = [ask EXCEPT ![r] = s] /\ ask[r].pc = "guard"  BY <1>0, <2>4 DEF Links!Guard
    <3>2. /\ s.url = ask[r].url /\ s.head = ask[r].head /\ s.at = ask[r].at
          /\ s.pc \in {"asked", "failed"}
      BY <1>0 DEF AskRow
    <3> HIDE DEF s
    <3>3. ask'[r] = s  BY <1>0, <3>1
    <3>4. AskFits(r)'  BY <2>1, <3>1, <3>2, <3>3 DEF AskFits
    <3> QED BY <2>2, <3>1, <3>4
  <2>5. ASSUME NEW r \in Reqs, Links!LookUp(r) PROVE \A q \in Reqs : AskFits(q)'
    <3>1. ASSUME NEW f \in File, Links!Names(ask[r].url, f), ask' = [ask EXCEPT ![r].pc = "found", ![r].file = f]
          PROVE  \A q \in Reqs : AskFits(q)'
      <4> DEFINE s == [ask[r] EXCEPT !.pc = "found", !.file = f]
      <4>1. ask' = [ask EXCEPT ![r] = s] /\ ask[r].pc = "asked"  BY <1>0, <2>5, <3>1 DEF Links!LookUp
      <4>2. s.url = ask[r].url /\ s.head = ask[r].head /\ s.at = ask[r].at /\ s.pc = "found" /\ s.file = f
        BY <1>0 DEF AskRow
      <4> HIDE DEF s
      <4>3. ask'[r] = s  BY <1>0, <4>1
      <4>4. f \in saw'[r]  BY <2>1, <3>1, <4>2, <4>3, Sees
      <4>5. AskFits(r)'  BY <2>1, <4>1, <4>2, <4>3, <4>4 DEF AskFits
      <4> QED BY <2>2, <4>1, <4>5
    <3>2. ASSUME ask' = [ask EXCEPT ![r].pc = "failed"] PROVE \A q \in Reqs : AskFits(q)'
      <4> DEFINE s == [ask[r] EXCEPT !.pc = "failed"]
      <4>1. ask' = [ask EXCEPT ![r] = s] /\ ask[r].pc = "asked"  BY <1>0, <2>5, <3>2 DEF Links!LookUp
      <4>2. s.url = ask[r].url /\ s.head = ask[r].head /\ s.at = ask[r].at /\ s.pc = "failed"
        BY <1>0 DEF AskRow
      <4> HIDE DEF s
      <4>3. ask'[r] = s  BY <1>0, <4>1
      <4>4. AskFits(r)'  BY <2>1, <4>1, <4>2, <4>3 DEF AskFits
      <4> QED BY <2>2, <4>1, <4>4
    <3> QED BY <2>5, <3>1, <3>2 DEF Links!LookUp
  <2>6. ASSUME NEW r \in Reqs, NEW c \in Links!Seen, Links!Answer(r, c) PROVE \A q \in Reqs : AskFits(q)'
    <3> DEFINE u == ask[r].url
               same == Links!Mode(u, c) # "disabled" /\ Links!Signed(u) /\ Links!Matches(ask[r].had, ask[r].file)
               s == [ask[r] EXCEPT !.pc = "answered", !.age = Links!MaxAge(u, c), !.code = IF same THEN 304 ELSE 200]
    <3>1. ask' = [ask EXCEPT ![r] = s] /\ ask[r].pc = "found" /\ ~ask[r].head  BY <1>0, <2>6 DEF Links!Answer
    <3>2. same => ask[r].had = ask[r].file /\ Links!Signed(u) /\ Links!Mode(u, c) # "disabled"
      BY DEF Links!Matches, Links!ETag
    <3> HIDE DEF same
    <3>3. /\ s.url = u /\ s.head = ask[r].head /\ s.at = ask[r].at /\ s.pc = "answered"
          /\ s.file = ask[r].file /\ s.had = ask[r].had /\ s.age = Links!MaxAge(u, c) /\ (s.code = 304 => same)
      BY <1>0 DEF AskRow
    <3> HIDE DEF s
    <3>4. ask'[r] = s  BY <1>0, <3>1
    <3>5. c \in Configs  BY DEF Links!Seen, LinksTyped, Seeable
    <3>6. /\ s.age <= MaxTtl \/ s.age = Links!Unstorable
          /\ (Links!Signed(u) /\ Links!Mode(u, c) # "disabled") => s.age <= MaxTtl
          /\ ~Links!Signed(u) => s.age = Links!Unstorable
      BY <3>3, <3>5, AgeFits
    <3>7. saw[r] \subseteq saw'[r]  BY <3>3, <3>4, Sees
    <3>8. AskFits(r)'
      BY <2>1, <3>1, <3>2, <3>3, <3>4, <3>6, <3>7 DEF AskFits, Links!Signed, Links!Unstorable
    <3> QED BY <2>2, <3>1, <3>8
  <2>7. ASSUME NEW r \in Reqs, Links!AnswerHead(r) PROVE \A q \in Reqs : AskFits(q)'
    <3> DEFINE same == Links!Matches(ask[r].had, ask[r].file)
               s == [ask[r] EXCEPT !.pc = "answered", !.code = IF same THEN 304 ELSE 200]
    <3>1. ask' = [ask EXCEPT ![r] = s] /\ ask[r].pc = "found" /\ ask[r].head  BY <1>0, <2>7 DEF Links!AnswerHead
    <3>2. same => ask[r].had = ask[r].file
      BY DEF Links!Matches, Links!ETag
    <3> HIDE DEF same
    <3>3. /\ s.url = ask[r].url /\ s.head = ask[r].head /\ s.at = ask[r].at /\ s.pc = "answered"
          /\ s.file = ask[r].file /\ s.had = ask[r].had /\ (s.code = 304 => same)
      BY <1>0 DEF AskRow
    <3> HIDE DEF s
    <3>4. ask'[r] = s  BY <1>0, <3>1
    <3>5. saw[r] \subseteq saw'[r]  BY <3>3, <3>4, Sees
    <3>6. /\ Formed(ask[r].url) /\ ask[r].url.kind = "public" /\ Links!Signed(ask[r].url)
          /\ ask[r].at <= now /\ now <= ask[r].at + Flight /\ ask[r].file \in saw[r]
      BY <3>1 DEF AskFits, Links!Signed
    <3>7. s.head = TRUE
      <4>1. ask[r].head \in BOOLEAN  BY <1>0 DEF AskRow
      <4> QED BY <3>1, <3>3, <4>1
    <3>8. /\ ask'[r].url = ask[r].url /\ ask'[r].at = ask[r].at /\ ask'[r].pc = "answered"
          /\ ask'[r].head = TRUE /\ ask'[r].file = ask[r].file /\ ask'[r].had = ask[r].had
          /\ ask'[r].file \in saw'[r] /\ (ask'[r].code = 304 => ask'[r].had = ask'[r].file)
      BY <3>2, <3>3, <3>4, <3>5, <3>6, <3>7
    <3>9. AskFits(r)'
      BY <2>1, <3>6, <3>8 DEF AskFits
    <3> QED BY <2>2, <3>1, <3>9
  <2>8. ASSUME NEW r \in Reqs, Links!Deliver(r) PROVE \A q \in Reqs : AskFits(q)'
    <3>1. ask' = [ask EXCEPT ![r] = Links!Idle]  BY <2>8 DEF Links!Deliver
    <3>2. ask'[r].pc = "idle"  BY <1>0, <3>1 DEF Links!Idle
    <3>3. AskFits(r)'  BY <3>2 DEF AskFits
    <3> QED BY <2>2, <3>1, <3>3
  <2> QED BY <1>5, <2>3, <2>4, <2>5, <2>6, <2>7, <2>8 DEF Links!Serve
<1> QED BY <1>2, <1>3, <1>4, <1>5 DEF Links!Next

\* An answer that is stored.
LEMMA StoresFit ==
  ASSUME Links!LinksFit, LinksTyped, NEW r \in Reqs, AskFits(r), ask[r].pc # "idle",
         \A u \in DOMAIN cdn : CopyFits(u), Links!Signed(ask[r].url),
         NEW f, NEW age \in Nat, age <= MaxTtl, cdn' = Links!Stored(r, f, age)
  PROVE  \A u \in DOMAIN cdn' : CopyFits(u)'
<1>1. ask[r] \in AskRow /\ now \in Nat  BY DEF LinksTyped
<1>2. MaxTtl \in Nat /\ Flight \in Nat  BY DEF Links!LinksFit
<1>3. ask[r].at \in Nat  BY <1>1 DEF AskRow
<1>4. now + age <= ask[r].at + Flight + MaxTtl /\ Formed(ask[r].url)
  BY <1>1, <1>2, <1>3 DEF AskFits
<1>5. /\ DOMAIN cdn' = DOMAIN cdn \cup {ask[r].url}
      /\ cdn'[ask[r].url] =
           [file |-> f, age |-> age, until |-> now + age, since |-> ask[r].at, late |-> ask[r].late]
      /\ \A u \in DOMAIN cdn : u # ask[r].url => cdn'[u] = cdn[u]
  BY StoredFits, Zenon
<1>6. ASSUME NEW u \in DOMAIN cdn', u = ask[r].url PROVE CopyFits(u)'
  <2>1. cdn'[u].age = age /\ cdn'[u].until = now + age /\ cdn'[u].since = ask[r].at  BY <1>5, <1>6
  <2>2. Formed(u) /\ Links!Signed(u)  BY <1>4, <1>6
  <2> QED BY <1>4, <2>1, <2>2 DEF CopyFits, Links!Signed
<1>7. ASSUME NEW u \in DOMAIN cdn', u # ask[r].url PROVE CopyFits(u)'
  <2>1. u \in DOMAIN cdn /\ cdn'[u] = cdn[u]  BY <1>5, <1>7
  <2>2. CopyFits(u)  BY <2>1
  <2> QED BY <2>1, <2>2 DEF CopyFits, Links!Signed
<1> QED BY <1>6, <1>7

LEMMA CopiesFit ==
  ASSUME Links!LinksFit, LinksTyped, \A r \in Reqs : AskFits(r), \A u \in DOMAIN cdn : CopyFits(u), Links!Next
  PROVE  \A u \in DOMAIN cdn' : CopyFits(u)'
<1>1. ASSUME NEW u \in DOMAIN cdn', u \in DOMAIN cdn, cdn'[u] = cdn[u] PROVE CopyFits(u)'
  <2>1. CopyFits(u)  BY <1>1
  <2> QED BY <1>1, <2>1 DEF CopyFits, Links!Signed
<1>2. CASE cdn' = cdn  BY <1>1, <1>2
<1>3. ASSUME NEW S, cdn' = Links!Dropped(S) PROVE \A u \in DOMAIN cdn' : CopyFits(u)'
  <2>1. DOMAIN cdn' = DOMAIN cdn \ S /\ \A u \in DOMAIN cdn \ S : cdn'[u] = cdn[u]
    BY <1>3, DroppedFits
  <2> QED BY <1>1, <2>1
<1>4. CASE Links!User \/ Links!ShareUpdate \/ Links!Admin
  BY <1>2, <1>4 DEF Links!User, Links!Put, Links!Trash, Links!Restore, Links!ShareCheck, Links!Unshare, Links!Mint,
       Links!ShareUpdate, Links!Admin, Links!SetPublic, Links!Configure
<1>5. CASE Links!Delete
  <2>1. cdn' = cdn \/ \E B : cdn' = Links!Dropped(B)
    BY <1>5 DEF Links!Delete, Links!DeleteRead, Links!DeleteRows, Links!Purge, Links!PurgeEnds, Links!PurgeBatch
  <2> QED BY <1>2, <1>3, <2>1
<1>6. CASE Links!Tick
  <2>1. /\ DOMAIN cdn' = DOMAIN cdn
        /\ \A u \in DOMAIN cdn : cdn'[u] = cdn[u] \/ cdn'[u] = [cdn[u] EXCEPT !.until = 0, !.since = 0]
    BY <1>6 DEF Links!Tick
  <2>2. ASSUME NEW u \in DOMAIN cdn', cdn'[u] = [cdn[u] EXCEPT !.until = 0, !.since = 0] PROVE CopyFits(u)'
    <3>1. u \in DOMAIN cdn  BY <2>1
    <3>2. CopyFits(u) /\ cdn[u] \in CopyRow  BY <3>1 DEF LinksTyped
    <3>3. cdn'[u].age = cdn[u].age /\ cdn'[u].until = 0 /\ cdn'[u].since = 0  BY <2>2, <3>2 DEF CopyRow
    <3>4. 0 <= 0 + Flight + MaxTtl  BY DEF Links!LinksFit
    <3> QED BY <3>2, <3>3, <3>4 DEF CopyFits, Links!Signed
  <2> QED BY <1>1, <2>1, <2>2
<1>7. CASE Links!Serve
  <2>1. cdn' = cdn \/ \E r \in Reqs : Links!Deliver(r)
    BY <1>7 DEF Links!Serve, Links!Ask, Links!Guard, Links!LookUp, Links!Answer, Links!AnswerHead
  <2>2. ASSUME NEW r \in Reqs, Links!Deliver(r) PROVE \A u \in DOMAIN cdn' : CopyFits(u)'
    <3>1. AskFits(r) /\ ask[r] \in AskRow  BY DEF LinksTyped
    <3>2. ASSUME ask[r].pc = "answered", NEW f, NEW age \in Nat, age <= MaxTtl, Links!Signed(ask[r].url),
                 cdn' = Links!Stored(r, f, age)
          PROVE  \A u \in DOMAIN cdn' : CopyFits(u)'
      BY <3>1, <3>2, StoresFit
    <3>3. CASE /\ ask[r].pc = "answered" /\ ask[r].code = 304 /\ ask[r].head
               /\ ask[r].url \in DOMAIN cdn
               /\ cdn' = Links!Stored(r, ask[r].had, cdn[ask[r].url].age)
      <4>1. CopyFits(ask[r].url) /\ cdn[ask[r].url].age \in Nat  BY <3>3 DEF LinksTyped, CopyRow
      <4> QED BY <3>2, <3>3, <4>1 DEF CopyFits
    <3>4. CASE /\ ask[r].pc = "answered" /\ ask[r].code = 304 /\ ~ask[r].head
               /\ cdn' = Links!Stored(r, ask[r].had, ask[r].age)
      <4>1. ask[r].age \in Nat /\ ask[r].age <= MaxTtl /\ Links!Signed(ask[r].url)
        BY <3>1, <3>4 DEF AskFits, AskRow
      <4> QED BY <3>2, <3>4, <4>1
    <3>5. CASE /\ ask[r].pc = "answered" /\ ask[r].code # 304 /\ ask[r].age # Links!Unstorable /\ ~ask[r].head
               /\ cdn' = Links!Stored(r, ask[r].file, ask[r].age)
      <4>1. ask[r].age \in Nat /\ ask[r].age <= MaxTtl /\ Links!Signed(ask[r].url)
        BY <3>1, <3>5 DEF AskFits, AskRow
      <4> QED BY <3>2, <3>5, <4>1
    <3>6. \/ cdn' = cdn
          \/ cdn' = Links!Dropped({ask[r].url})
          \/ /\ ask[r].pc = "answered" /\ ask[r].code = 304 /\ ask[r].head
             /\ ask[r].url \in DOMAIN cdn
             /\ cdn' = Links!Stored(r, ask[r].had, cdn[ask[r].url].age)
          \/ /\ ask[r].pc = "answered" /\ ask[r].code = 304 /\ ~ask[r].head
             /\ cdn' = Links!Stored(r, ask[r].had, ask[r].age)
          \/ /\ ask[r].pc = "answered" /\ ask[r].code # 304 /\ ask[r].age # Links!Unstorable /\ ~ask[r].head
             /\ cdn' = Links!Stored(r, ask[r].file, ask[r].age)
      BY <2>2, Delivers, Zenon
    <3>7. CASE cdn' = cdn  BY <1>1, <3>7
    <3>8. CASE cdn' = Links!Dropped({ask[r].url})  BY <1>3, <3>8
    <3> QED BY <3>3, <3>4, <3>5, <3>6, <3>7, <3>8, Zenon
  <2> QED BY <1>2, <2>1, <2>2
<1> QED BY <1>4, <1>5, <1>6, <1>7 DEF Links!Next

\* The links that were minted.
LEMMA LinksFitNext ==
  ASSUME Links!LinksFit, LinksTyped, \A l \in links : LinkFits(l), Links!Next
  PROVE  \A l \in links' : LinkFits(l)
<1>1. CASE links' = links  BY <1>1
<1>2. ASSUME NEW f \in File, NEW c \in Links!Seen, Links!Mint(f, c) PROVE \A l \in links' : LinkFits(l)
  <2> DEFINE l0 == [file |-> f, exp |-> Links!Expiry(c), at |-> now, window |-> Links!Window(c)]
  <2>1. links' = links \cup {l0}  BY <1>2 DEF Links!Mint
  <2>2. now + LinkTtl \in Nat  BY DEF LinksTyped, Links!LinksFit
  <2>3. c \in Configs  BY DEF Links!Seen, LinksTyped, Seeable
  <2>4. Links!Window(c) \in Nat  BY <2>3 DEF Links!Window, Links!LinksFit
  <2>5. LinkFits(l0)
    <3>1. l0.exp = Links!Quantized(now + LinkTtl, Links!Window(c)) /\ l0.at = now /\ l0.window = Links!Window(c)
      BY DEF Links!Expiry
    <3> DEFINE e == now + LinkTtl
               w == Links!Window(c)
    <3> HIDE DEF l0
    <3>2. /\ e <= Links!Quantized(e, w)
          /\ Links!Quantized(e, w) <= e + (IF w = 0 THEN 0 ELSE w - 1)
          /\ w # 0 => \E n \in Nat : Links!Quantized(e, w) = n * w
      BY <2>2, <2>4, QuantizedFits
    <3> QED BY <3>1, <3>2 DEF LinkFits
  <2> QED BY <2>1, <2>5
<1>3. CASE Links!User \/ Links!ShareUpdate \/ Links!Admin
  <2>1. links' = links \/ \E f \in File, c \in Links!Seen : Links!Mint(f, c)
    BY <1>3 DEF Links!User, Links!Put, Links!Trash, Links!Restore, Links!ShareCheck, Links!Unshare,
         Links!ShareUpdate, Links!Admin, Links!SetPublic, Links!Configure
  <2> QED BY <1>1, <1>2, <2>1
<1>4. CASE Links!Serve \/ Links!Delete \/ Links!Tick
  <2>1. links' = links
    BY <1>4, ZenonT(60) DEF Links!Serve, Links!Ask, Links!Guard, Links!LookUp, Links!Answer, Links!AnswerHead, Links!Deliver,
         Links!Delete, Links!DeleteRead, Links!DeleteRows, Links!Purge, Links!PurgeEnds, Links!PurgeBatch, Links!Tick
  <2> QED BY <1>1, <2>1
<1> QED BY <1>3, <1>4 DEF Links!Next

\* What the invariants say of URLs, answers and links.
UrlsFit ==
  /\ LinksTyped
  /\ \A r \in Reqs : AskFits(r)
  /\ \A u \in DOMAIN cdn : CopyFits(u)
  /\ \A l \in links : LinkFits(l)

LEMMA UrlsFitMeans ==
  ASSUME Links!LinksFit, UrlsFit PROVE UrlsHold
<1>1. ASSUME NEW r \in Reqs, ask[r].pc = "answered"
      PROVE  (IF ask[r].code = 304 THEN ask[r].had ELSE ask[r].file) \in saw[r]
  <2>1. AskFits(r)  BY DEF UrlsFit
  <2> QED BY <1>1, <2>1 DEF AskFits
<1>2. ASSUME NEW u \in DOMAIN cdn
      PROVE  /\ Links!Signed(u)
             /\ now < cdn[u].until => now < cdn[u].since + Flight + MaxTtl
  <2>1. CopyFits(u) /\ cdn[u] \in CopyRow /\ now \in Nat /\ Flight \in Nat /\ MaxTtl \in Nat
    BY DEF UrlsFit, LinksTyped, Links!LinksFit
  <2>2. cdn[u].until \in Nat /\ cdn[u].since \in Nat  BY <2>1 DEF CopyRow
  <2> QED BY <2>1, <2>2 DEF CopyFits
<1>3. Links!ServedWasNamed  BY <1>1, <1>2 DEF Links!ServedWasNamed
<1>4. ASSUME NEW k \in links, NEW l \in links, k.window = l.window, k.exp < l.exp PROVE k.exp + l.window <= l.exp
  <2>1. LinkFits(k) /\ LinkFits(l) /\ k \in LinkRow /\ l \in LinkRow  BY DEF UrlsFit, LinksTyped
  <2>2. k.exp \in Nat /\ l.exp \in Nat /\ l.window \in Nat  BY <2>1 DEF LinkRow
  <2>3. CASE l.window = 0  BY <1>4, <2>2, <2>3
  <2>4. CASE l.window # 0
    <3>1. PICK m \in Nat : k.exp = m * l.window  BY <1>4, <2>1, <2>4 DEF LinkFits
    <3>2. PICK n \in Nat : l.exp = n * l.window  BY <2>1, <2>4 DEF LinkFits
    <3> QED BY <1>4, <2>2, <3>1, <3>2, Multiples
  <2> QED BY <2>3, <2>4
<1>5. Links!LinksLast
  <2>1. \A l \in links : LinkFits(l)  BY DEF UrlsFit
  <2> QED BY <1>4, <2>1 DEF Links!LinksLast, LinkFits
<1> QED BY <1>3, <1>5 DEF UrlsHold, Links!UrlsHold

LEMMA UrlsFitInit ==
  ASSUME Links!LinksFit, Links!Init PROVE UrlsFit
<1>1. LinksTyped  BY LinksTypedInit
<1>2. \A r \in Reqs : ask[r].pc = "idle"  BY DEF Links!Init, Links!Idle
<1>3. DOMAIN cdn = {} /\ links = {}  BY DEF Links!Init
<1> QED BY <1>1, <1>2, <1>3 DEF UrlsFit, AskFits

LEMMA UrlsFitNext ==
  ASSUME Links!LinksFit, UrlsFit, [Links!Next]_(Links!vars) PROVE UrlsFit'
<1>1. CASE Links!Next
  <2>1. LinksTyped /\ (\A r \in Reqs : AskFits(r)) /\ (\A u \in DOMAIN cdn : CopyFits(u))
        /\ (\A l \in links : LinkFits(l))
    BY DEF UrlsFit
  <2>2. LinksTyped'  BY <1>1, <2>1, LinksTypedNext
  <2>3. \A r \in Reqs : AskFits(r)'  BY <1>1, <2>1, AsksFit
  <2>4. \A u \in DOMAIN cdn' : CopyFits(u)'  BY <1>1, <2>1, CopiesFit
  <2>5. \A l \in links' : LinkFits(l)  BY <1>1, <2>1, LinksFitNext
  <2> QED BY <2>2, <2>3, <2>4, <2>5 DEF UrlsFit, LinkFits
<1>2. CASE UNCHANGED Links!vars
  BY <1>2 DEF UrlsFit, Links!vars, LinksTyped, AskFits, CopyFits, LinkFits, Links!Signed
<1> QED BY <1>1, <1>2

\* Whatever the settings, the windows and the order of the steps: an answer is of a file
\* that the URL has named since it was asked for, a copy is served for at most MaxTtl, and a
\* link lasts as long as it says (UrlsHold).
THEOREM UrlsAreTrue == ASSUME Links!LinksFit PROVE Links!Spec => []UrlsHold
<1>1. Links!Init => UrlsFit  BY UrlsFitInit
<1>2. UrlsFit /\ [Links!Next]_(Links!vars) => UrlsFit'  BY UrlsFitNext
<1>3. UrlsFit => UrlsHold  BY UrlsFitMeans
<1> QED BY <1>1, <1>2, <1>3, PTL DEF Links!Spec

-----------------------------------------------------------------------------
(* Tokens and purges.                                                       *)

\* The share token is of the file, or about to be.
Bearer(f, t) == t # 0 /\ (files[f].token = t \/ (sharing.file = f /\ sharing.token = t))

TokensFit ==
  /\ \A f \in File : files[f].token <= issued
  /\ sharing.token <= issued
  /\ \A f, g \in File, t \in Nat : (Bearer(f, t) /\ Bearer(g, t)) => f = g

\* Whose tokens a delete takes are gone, or will be with their rows.
DeletionFits ==
  /\ \A t \in deletion.tokens :
       /\ 1 <= t /\ t <= issued
       /\ \A f \in File : Bearer(f, t) => \/ files[f].place = "gone"
                                          \/ deletion.pc = "read" /\ f \in deletion.files
  /\ deletion.pc \in {"removed", "purge"} => \A f \in deletion.files : files[f].place = "gone"
  /\ deletion.pc \in {"idle", "read", "removed"} => deletion.failed = FALSE

ClearedFits ==
  /\ \A t \in cleared.tokens : /\ 1 <= t /\ t <= issued
                               /\ \A f \in File : Bearer(f, t) => files[f].place = "gone"
  /\ \A f \in cleared.files : files[f].place = "gone"

\* A purge has dropped the copy of f under u, or the one that runs has.
Evicted(u, f) ==
  \/ u.kind = "share" /\ u.of \in cleared.tokens
  \/ u = Links!PublicPath /\ f \in cleared.files
  \/ /\ deletion.pc = "purge" /\ deletion.failed = FALSE /\ u \notin deletion.todo
     /\ \/ u.kind = "share" /\ u.of \in deletion.tokens
        \/ u = Links!PublicPath /\ f \in deletion.files

\* No step gives an old token to another file or brings back a row that is gone.
LEMMA Bearers ==
  ASSUME Links!LinksFit, LinksTyped, TokensFit, Links!Next
  PROVE  /\ issued <= issued' /\ sharing'.token <= issued'
         /\ \A f \in File : /\ files'[f].token <= issued
                            /\ files[f].place = "gone" => files'[f].place = "gone"
         /\ \A f \in File, t \in Nat : (t <= issued /\ Bearer(f, t)') => Bearer(f, t)
<1>0. issued \in Nat /\ files \in [File -> FileRow] /\ sharing \in [file : Nat, token : Nat]
  BY DEF LinksTyped
<1>1. ASSUME sharing' = sharing, issued' = issued,
             \A f \in File : /\ files'[f].token \in {files[f].token, 0}
                             /\ files[f].place = "gone" => files'[f].place = "gone"
      PROVE  /\ issued <= issued' /\ sharing'.token <= issued'
             /\ \A f \in File : /\ files'[f].token <= issued
                                /\ files[f].place = "gone" => files'[f].place = "gone"
             /\ \A f \in File, t \in Nat : (t <= issued /\ Bearer(f, t)') => Bearer(f, t)
  BY <1>0, <1>1 DEF TokensFit, Bearer
<1>2. ASSUME UNCHANGED <<files, sharing, issued>>
      PROVE  \A f \in File : /\ files'[f].token \in {files[f].token, 0}
                             /\ files[f].place = "gone" => files'[f].place = "gone"
  BY <1>2
<1>3. CASE Links!Serve \/ Links!Tick \/ Links!Admin
  <2>1. UNCHANGED <<files, sharing, issued>>
    BY <1>3, ZenonT(60) DEF Links!Serve, Links!Ask, Links!Guard, Links!LookUp, Links!Answer, Links!AnswerHead, Links!Deliver,
         Links!Tick, Links!Admin, Links!SetPublic, Links!Configure
  <2> QED BY <1>1, <1>2, <2>1
<1>4. CASE Links!Delete
  <2>1. \/ UNCHANGED <<files, sharing, issued>>
        \/ Links!DeleteRows
    BY <1>4 DEF Links!Delete, Links!DeleteRead, Links!Purge, Links!PurgeEnds, Links!PurgeBatch
  <2>2. CASE Links!DeleteRows
    <3>1. sharing' = sharing /\ issued' = issued  BY <2>2 DEF Links!DeleteRows
    <3>2. \A f \in File : files'[f] = files[f] \/ files'[f] = [files[f] EXCEPT !.place = "gone", !.token = 0]
      BY <2>2 DEF Links!DeleteRows
    <3>3. \A f \in File : /\ files'[f].token \in {files[f].token, 0}
                          /\ files[f].place = "gone" => files'[f].place = "gone"
      BY <1>0, <3>2, ZenonT(60) DEF FileRow
    <3> QED BY <1>1, <3>1, <3>3
  <2> QED BY <1>1, <1>2, <2>1, <2>2
<1>5. CASE Links!ShareUpdate
  <2>1. /\ issued' = issued /\ sharing' = Links!NoShare
        /\ files' = [files EXCEPT ![sharing.file].token =
                       IF files[sharing.file].place = "gone" THEN @ ELSE sharing.token]
    BY <1>5 DEF Links!ShareUpdate
  <2>2. \A f \in File : /\ files'[f].place = files[f].place
                        /\ \/ files'[f].token = files[f].token
                           \/ f = sharing.file /\ files'[f].token = sharing.token
    BY <1>0, <2>1 DEF FileRow
  <2>3. sharing'.token = 0  BY <2>1 DEF Links!NoShare
  <2> QED BY <1>0, <2>1, <2>2, <2>3 DEF TokensFit, Bearer
<1>6. ASSUME NEW f \in File, Links!ShareCheck(f)
      PROVE  /\ issued <= issued' /\ sharing'.token <= issued'
             /\ \A g \in File : /\ files'[g].token <= issued
                                /\ files[g].place = "gone" => files'[g].place = "gone"
             /\ \A g \in File, t \in Nat : (t <= issued /\ Bearer(g, t)') => Bearer(g, t)
  <2>1. files' = files  BY <1>6 DEF Links!ShareCheck
  <2>2. \/ issued' = issued /\ sharing' = [file |-> f, token |-> files[f].token]
        \/ issued' = issued + 1 /\ sharing' = [file |-> f, token |-> issued + 1]
    BY <1>6 DEF Links!ShareCheck
  <2> QED BY <1>0, <2>1, <2>2 DEF TokensFit, Bearer
<1>7. ASSUME NEW f \in File, Links!Put(f) \/ Links!Trash(f) \/ Links!Restore(f) \/ Links!Unshare(f)
      PROVE  /\ UNCHANGED <<sharing, issued>>
             /\ \A g \in File : /\ files'[g].token \in {files[g].token, 0}
                                /\ files[g].place = "gone" => files'[g].place = "gone"
  <2>1. UNCHANGED <<sharing, issued>>
    BY <1>7 DEF Links!Put, Links!Trash, Links!Restore, Links!Unshare
  <2>2. CASE Links!Put(f)
    <3>1. \A g \in File : \/ g = f /\ files[f].place = "absent" /\ files'[f].token = files[f].token
                          \/ files'[g] = files[g]
                          \/ files[g].place = "active" /\ files'[g] = [files[g] EXCEPT !.place = "trashed"]
      BY <1>0, <2>2 DEF Links!Put, Links!Active, FileRow
    <3> QED BY <1>0, <2>1, <3>1, ZenonT(60) DEF FileRow
  <2>3. CASE Links!Trash(f)  BY <1>0, <2>1, <2>3 DEF Links!Trash, Links!Active, FileRow
  <2>4. CASE Links!Restore(f)
    <3>1. files[f].place = "trashed"  BY <2>4 DEF Links!Restore
    <3>2. \A g \in File : g # f => files'[g] = files[g]  BY <1>0, <2>4 DEF Links!Restore
    <3>3. files'[f].token = files[f].token  BY <1>0, <2>4 DEF Links!Restore, FileRow
    <3> QED BY <2>1, <3>1, <3>2, <3>3
  <2>5. CASE Links!Unshare(f)  BY <1>0, <2>1, <2>5 DEF Links!Unshare, FileRow
  <2> QED BY <1>7, <2>2, <2>3, <2>4, <2>5
<1>8. CASE Links!User
  <2>1. \/ UNCHANGED <<files, sharing, issued>>
        \/ \E f \in File : \/ Links!Put(f) \/ Links!Trash(f) \/ Links!Restore(f) \/ Links!Unshare(f)
                           \/ Links!ShareCheck(f)
    BY <1>8 DEF Links!User, Links!Mint
  <2> QED BY <1>1, <1>2, <1>6, <1>7, <2>1
<1> QED BY <1>3, <1>4, <1>5, <1>8 DEF Links!Next

LEMMA TokensFitNext ==
  ASSUME Links!LinksFit, LinksTyped, TokensFit, Links!Next PROVE TokensFit'
<1>1. /\ issued <= issued' /\ sharing'.token <= issued'
      /\ \A f \in File : files'[f].token <= issued
      /\ \A f \in File, t \in Nat : (t <= issued /\ Bearer(f, t)') => Bearer(f, t)
  BY Bearers
<1>2. issued \in Nat /\ issued' \in Nat /\ files' \in [File -> FileRow]
  BY LinksTypedNext DEF LinksTyped
<1>3. ASSUME NEW f \in File, NEW g \in File, NEW t \in Nat, Bearer(f, t)', Bearer(g, t)' PROVE f = g
  <2>1. CASE t <= issued  BY <1>1, <1>3, <2>1 DEF TokensFit
  <2>2. CASE issued < t
    <3>1. files'[f].token # t /\ files'[g].token # t  BY <1>1, <1>2, <2>2 DEF FileRow
    <3> QED BY <1>3, <3>1 DEF Bearer
  <2> QED BY <1>2, <2>1, <2>2
<1>4. \A f \in File : files'[f].token <= issued'
  <2>1. \A f \in File : files'[f].token \in Nat  BY <1>2 DEF FileRow
  <2> QED BY <1>1, <1>2, <2>1
<1> QED BY <1>1, <1>3, <1>4 DEF TokensFit

\* A step outside the delete.
LEMMA DeletionKept ==
  ASSUME Links!LinksFit, LinksTyped, TokensFit, DeletionFits, Links!Next, deletion' = deletion
  PROVE  DeletionFits'
<1>1. /\ issued <= issued'
      /\ \A f \in File : files[f].place = "gone" => files'[f].place = "gone"
      /\ \A f \in File, t \in Nat : (t <= issued /\ Bearer(f, t)') => Bearer(f, t)
  BY Bearers
<1>2. issued \in Nat /\ issued' \in Nat /\ deletion.tokens \subseteq Nat /\ deletion.files \subseteq File
  BY LinksTypedNext DEF LinksTyped, DeletionRow
<1>3. ASSUME NEW t \in deletion.tokens
      PROVE  /\ 1 <= t /\ t <= issued'
             /\ \A f \in File : Bearer(f, t)' => \/ files'[f].place = "gone"
                                                 \/ deletion.pc = "read" /\ f \in deletion.files
  BY <1>1, <1>2 DEF DeletionFits
<1>4. deletion.pc \in {"removed", "purge"} => \A f \in deletion.files : files'[f].place = "gone"
  BY <1>1, <1>2 DEF DeletionFits
<1> QED BY <1>3, <1>4 DEF DeletionFits

LEMMA ClearedKept ==
  ASSUME Links!LinksFit, LinksTyped, TokensFit, ClearedFits, Links!Next, cleared' = cleared
  PROVE  ClearedFits'
<1>1. /\ issued <= issued'
      /\ \A f \in File : files[f].place = "gone" => files'[f].place = "gone"
      /\ \A f \in File, t \in Nat : (t <= issued /\ Bearer(f, t)') => Bearer(f, t)
  BY Bearers
<1>2. issued \in Nat /\ issued' \in Nat /\ cleared.tokens \subseteq Nat /\ cleared.files \subseteq File
  BY LinksTypedNext DEF LinksTyped
<1> QED BY <1>1, <1>2 DEF ClearedFits

LEMMA ClearedFitsNext ==
  ASSUME Links!LinksFit, LinksTyped, TokensFit, DeletionFits, ClearedFits, Links!Next
  PROVE  ClearedFits'
<1>1. CASE cleared' = cleared  BY <1>1, ClearedKept
<1>2. CASE Links!PurgeEnds /\ cleared' # cleared
  <2>1. /\ deletion.pc = "purge" /\ UNCHANGED <<files, sharing, issued>>
        /\ cleared' = [tokens |-> cleared.tokens \cup deletion.tokens,
                       files |-> cleared.files \cup deletion.files]
    BY <1>2 DEF Links!PurgeEnds
  <2>2. /\ \A t \in deletion.tokens : /\ 1 <= t /\ t <= issued
                                      /\ \A f \in File : Bearer(f, t) => files[f].place = "gone"
        /\ \A f \in deletion.files : files[f].place = "gone"
    BY <2>1 DEF DeletionFits
  <2>3. \A f, t : Bearer(f, t)' <=> Bearer(f, t)  BY <2>1 DEF Bearer
  <2> QED BY <2>1, <2>2, <2>3 DEF ClearedFits
<1>3. cleared' = cleared \/ Links!PurgeEnds
  BY ZenonT(60) DEF Links!Next, Links!User, Links!Put, Links!Trash, Links!Restore, Links!ShareCheck, Links!Unshare, Links!Mint,
       Links!ShareUpdate, Links!Admin, Links!SetPublic, Links!Configure,
       Links!Serve, Links!Ask, Links!Guard, Links!LookUp, Links!Answer, Links!AnswerHead, Links!Deliver,
       Links!Delete, Links!DeleteRead, Links!DeleteRows, Links!Purge, Links!PurgeBatch, Links!Tick
<1> QED BY <1>1, <1>2, <1>3

LEMMA DeletionFitsNext ==
  ASSUME Links!LinksFit, LinksTyped, TokensFit, DeletionFits, Links!Next
  PROVE  DeletionFits'
<1>0. /\ deletion \in DeletionRow /\ issued \in Nat /\ files \in [File -> FileRow]
      /\ deletion.tokens \subseteq Nat /\ deletion.files \subseteq File
  BY DEF LinksTyped, DeletionRow
<1>1. CASE deletion' = deletion  BY <1>1, DeletionKept
<1>2. ASSUME deletion' = Links!NoDeletion PROVE DeletionFits'
  <2>1. deletion'.tokens = {} /\ deletion'.pc = "idle" /\ deletion'.failed = FALSE
    BY <1>2 DEF Links!NoDeletion
  <2> QED BY <2>1 DEF DeletionFits
<1>3. ASSUME NEW S \in SUBSET File, Links!DeleteRead(S) PROVE DeletionFits'
  <2>1. deletion' = [Links!NoDeletion EXCEPT !.pc = "read", !.files = S,
                                             !.tokens = {files[f].token : f \in S} \ {0}]
        /\ UNCHANGED <<files, sharing, issued>>
    BY <1>3 DEF Links!DeleteRead
  <2>2. /\ deletion'.pc = "read" /\ deletion'.files = S /\ deletion'.failed = FALSE
        /\ deletion'.tokens = {files[f].token : f \in S} \ {0}
    BY <2>1 DEF Links!NoDeletion
  <2>3. ASSUME NEW t \in deletion'.tokens
        PROVE  /\ 1 <= t /\ t <= issued
               /\ \A f \in File : Bearer(f, t) => f \in S
    <3>1. PICK g \in S : t = files[g].token /\ t # 0  BY <2>2
    <3>2. t \in Nat /\ t <= issued /\ Bearer(g, t)  BY <1>0, <3>1 DEF TokensFit, Bearer, FileRow
    <3> QED BY <3>1, <3>2 DEF TokensFit
  <2>4. \A f, t : Bearer(f, t)' <=> Bearer(f, t)  BY <2>1 DEF Bearer
  <2> QED BY <2>1, <2>2, <2>3, <2>4 DEF DeletionFits
<1>4. CASE Links!DeleteRows
  <2>1. deletion.pc = "read" /\ deletion' = [deletion EXCEPT !.pc = "removed"] /\ issued' = issued
    BY <1>4 DEF Links!DeleteRows
  <2>2. /\ deletion'.pc = "removed" /\ deletion'.tokens = deletion.tokens /\ deletion'.files = deletion.files
        /\ deletion'.failed = deletion.failed
    BY <1>0, <2>1 DEF DeletionRow
  <2>3. \A f \in deletion.files : files'[f].place = "gone"
    BY <1>0, <1>4 DEF Links!DeleteRows, FileRow
  <2>4. /\ \A f \in File : files[f].place = "gone" => files'[f].place = "gone"
        /\ \A f \in File, t \in Nat : (t <= issued /\ Bearer(f, t)') => Bearer(f, t)
    BY Bearers
  <2>5. \A t \in deletion.tokens :
          /\ 1 <= t /\ t <= issued /\ \A f \in File : Bearer(f, t)' => files'[f].place = "gone"
    BY <1>0, <2>3, <2>4 DEF DeletionFits
  <2> QED BY <2>1, <2>2, <2>3, <2>5 DEF DeletionFits
<1>5. CASE Links!Purge /\ deletion' # Links!NoDeletion
  <2> DEFINE todo == (UNION {Links!RoutesOf(t) : t \in deletion.tokens})
                       \cup (IF Links!Keyed(deletion.files) # {} THEN {Links!PublicPath} ELSE {})
  <2>1. /\ deletion.pc = "removed" /\ UNCHANGED <<files, sharing, issued>>
        /\ deletion' = [deletion EXCEPT !.pc = "purge", !.files = Links!Keyed(deletion.files), !.todo = todo]
    BY <1>5 DEF Links!Purge
  <2> HIDE DEF todo
  <2>2. /\ deletion'.pc = "purge" /\ deletion'.tokens = deletion.tokens /\ deletion'.files \subseteq deletion.files
    BY <1>0, <2>1 DEF DeletionRow, Links!Keyed
  <2>3. \A f, t : Bearer(f, t)' <=> Bearer(f, t)  BY <2>1 DEF Bearer
  <2> QED BY <2>1, <2>2, <2>3 DEF DeletionFits
<1>6. ASSUME NEW B, NEW ok \in BOOLEAN, Links!PurgeBatch(B, ok) PROVE DeletionFits'
  <2>1. /\ deletion.pc = "purge" /\ UNCHANGED <<files, sharing, issued>>
        /\ deletion' = [deletion EXCEPT !.todo = @ \ B, !.failed = @ \/ ~ok]
    BY <1>6 DEF Links!PurgeBatch
  <2>2. /\ deletion'.pc = "purge" /\ deletion'.tokens = deletion.tokens /\ deletion'.files = deletion.files
    BY <1>0, <2>1 DEF DeletionRow
  <2>3. \A f, t : Bearer(f, t)' <=> Bearer(f, t)  BY <2>1 DEF Bearer
  <2> QED BY <2>1, <2>2, <2>3 DEF DeletionFits
<1>7. \/ deletion' = deletion \/ deletion' = Links!NoDeletion
      \/ \E S \in SUBSET File : Links!DeleteRead(S)
      \/ Links!DeleteRows \/ Links!Purge
      \/ \E B : \E ok \in BOOLEAN : Links!PurgeBatch(B, ok)
  <2>1. CASE Links!Delete
    BY <2>1 DEF Links!Delete, Links!PurgeEnds
  <2>2. CASE Links!User \/ Links!ShareUpdate \/ Links!Admin \/ Links!Serve \/ Links!Tick
    BY <2>2, ZenonT(60) DEF Links!User, Links!Put, Links!Trash, Links!Restore, Links!ShareCheck, Links!Unshare, Links!Mint,
       Links!ShareUpdate, Links!Admin, Links!SetPublic, Links!Configure,
       Links!Serve, Links!Ask, Links!Guard, Links!LookUp, Links!Answer, Links!AnswerHead, Links!Deliver, Links!Tick
  <2> QED BY <2>1, <2>2 DEF Links!Next
<1> QED BY <1>1, <1>2, <1>3, <1>4, <1>5, <1>6, <1>7

LEMMA PurgeFitsInit ==
  ASSUME Links!LinksFit, Links!Init PROVE TokensFit /\ DeletionFits /\ ClearedFits
<1>1. LinksTyped  BY LinksTypedInit
<1>2. sharing.token = 0 /\ issued = setup.given /\ issued \in Nat
      /\ \A f \in File : files[f].token = 0 \/ (f = 1 /\ files[f].token = issued)
  <2>1. sharing.token = 0 /\ issued = setup.given  BY DEF Links!Init, Links!NoShare
  <2>2. \A f \in File : files[f] = IF f = 1 THEN [place |-> "active", token |-> setup.given, keyed |-> TRUE]
                                   ELSE [place |-> "absent", token |-> 0, keyed |-> FALSE]
    BY DEF Links!Init
  <2> QED BY <1>1, <2>1, <2>2 DEF LinksTyped
<1>3. TokensFit
  BY <1>2 DEF TokensFit, Bearer
<1>4. DeletionFits  BY DEF DeletionFits, Links!Init, Links!NoDeletion
<1>5. ClearedFits  BY DEF ClearedFits, Links!Init
<1> QED BY <1>3, <1>4, <1>5

\* What is looked up has not been evicted.
LEMMA NamedIsNotEvicted ==
  ASSUME DeletionFits, ClearedFits, LinksTyped, NEW u, NEW f \in File, Links!Names(u, f)
  PROVE  ~Evicted(u, f)
<1>1. files[f].place = "active" /\ (u.kind = "share" => files[f].token = u.of)
  BY DEF Links!Names, Links!Active
<1>2. u.kind = "share" => (1 <= u.of => Bearer(f, u.of))  BY <1>1 DEF Bearer
<1>3. "active" # "gone"  OBVIOUS
<1> QED BY <1>1, <1>2, <1>3 DEF Evicted, DeletionFits, ClearedFits

\* An answer of what was evicted meanwhile is known to be late, and so is its copy.
LateAsk(r) == (ask[r].pc \in {"found", "answered"} /\ Evicted(ask[r].url, ask[r].file)) => ask[r].late = TRUE
LateCopy(u) == Evicted(u, cdn[u].file) => cdn[u].late = TRUE

PurgesFit ==
  /\ UrlsFit /\ TokensFit /\ DeletionFits /\ ClearedFits
  /\ \A r \in Reqs : LateAsk(r)
  /\ \A u \in DOMAIN cdn : LateCopy(u)

\* What a step of the delete evicts anew is what a batch takes.
LEMMA Evicts ==
  ASSUME LinksTyped, DeletionFits, Links!Delete, NEW u, Formed(u), NEW f, Evicted(u, f)'
  PROVE  \/ Evicted(u, f)
         \/ \E B : Links!PurgeBatch(B, TRUE) /\ u \in B
<1>0. deletion \in DeletionRow  BY DEF LinksTyped
<1>1. CASE \E S \in SUBSET File : Links!DeleteRead(S)
  <2>1. deletion'.pc = "read" /\ cleared' = cleared
    BY <1>1 DEF Links!DeleteRead, Links!NoDeletion
  <2> QED BY <2>1 DEF Evicted
<1>2. CASE Links!DeleteRows
  <2>1. deletion'.pc = "removed" /\ cleared' = cleared
    BY <1>0, <1>2 DEF Links!DeleteRows, DeletionRow
  <2> QED BY <2>1 DEF Evicted
<1>3. CASE Links!Purge
  <2>1. cleared' = cleared  BY <1>3 DEF Links!Purge
  <2>2. CASE deletion' = Links!NoDeletion
    <3>1. deletion'.pc = "idle"  BY <2>2 DEF Links!NoDeletion
    <3> QED BY <2>1, <3>1 DEF Evicted
  <2>3. CASE deletion' # Links!NoDeletion
    <3> DEFINE todo == (UNION {Links!RoutesOf(t) : t \in deletion.tokens})
                         \cup (IF Links!Keyed(deletion.files) # {} THEN {Links!PublicPath} ELSE {})
    <3>1. deletion' = [deletion EXCEPT !.pc = "purge", !.files = Links!Keyed(deletion.files), !.todo = todo]
      BY <1>3, <2>3 DEF Links!Purge
    <3>2. /\ deletion'.tokens = deletion.tokens /\ deletion'.files = Links!Keyed(deletion.files)
          /\ deletion'.todo = todo
      BY <1>0, <3>1 DEF DeletionRow
    <3>3. (u.kind = "share" /\ u.of \in deletion.tokens) => u \in todo
      <4>1. ASSUME u.kind = "share", u.of \in deletion.tokens PROVE u \in todo
        <5>1. PICK n \in Nat, k \in 1 .. 3 : u = Links!Share(n, k)  BY <4>1 DEF Formed
        <5>2. u.of = n  BY <5>1 DEF Links!Share
        <5>3. u \in Links!RoutesOf(n) /\ n \in deletion.tokens  BY <4>1, <5>1, <5>2 DEF Links!RoutesOf
        <5> QED BY <5>3
      <4> QED BY <4>1
    <3>4. (u = Links!PublicPath /\ f \in Links!Keyed(deletion.files)) => u \in todo
      OBVIOUS
    <3> HIDE DEF todo
    <3> QED BY <2>1, <3>2, <3>3, <3>4 DEF Evicted
  <2> QED BY <2>2, <2>3
<1>4. CASE Links!PurgeEnds
  <2>1. /\ deletion.pc = "purge" /\ deletion.todo = {} /\ deletion' = Links!NoDeletion
        /\ cleared' = IF deletion.failed THEN cleared
                      ELSE [tokens |-> cleared.tokens \cup deletion.tokens,
                            files |-> cleared.files \cup deletion.files]
    BY <1>4 DEF Links!PurgeEnds
  <2>2. deletion'.pc = "idle"  BY <2>1 DEF Links!NoDeletion
  <2>3. deletion.failed = TRUE \/ deletion.failed = FALSE  BY <1>0 DEF DeletionRow
  <2>4. CASE deletion.failed = TRUE
    <3>1. cleared' = cleared  BY <2>1, <2>4
    <3> QED BY <2>2, <3>1 DEF Evicted
  <2>5. CASE deletion.failed = FALSE
    <3>1. /\ cleared'.tokens = cleared.tokens \cup deletion.tokens
          /\ cleared'.files = cleared.files \cup deletion.files
      BY <2>1, <2>5
    <3> QED BY <2>1, <2>2, <2>5, <3>1 DEF Evicted
  <2> QED BY <2>3, <2>4, <2>5
<1>5. ASSUME NEW B, NEW ok \in BOOLEAN, Links!PurgeBatch(B, ok)
      PROVE  Evicted(u, f) \/ (ok = TRUE /\ u \in B)
  <2>1. /\ deletion.pc = "purge" /\ cleared' = cleared
        /\ deletion' = [deletion EXCEPT !.todo = @ \ B, !.failed = @ \/ ~ok]
    BY <1>5 DEF Links!PurgeBatch
  <2>2. /\ deletion'.tokens = deletion.tokens /\ deletion'.files = deletion.files
        /\ deletion'.todo = deletion.todo \ B /\ deletion'.failed = (deletion.failed \/ ~ok)
    BY <1>0, <2>1 DEF DeletionRow
  <2>3. deletion'.failed = FALSE => deletion.failed = FALSE /\ ok = TRUE
    <3>1. deletion.failed \in BOOLEAN  BY <1>0 DEF DeletionRow
    <3> QED BY <2>2, <3>1
  <2> QED BY <2>1, <2>2, <2>3 DEF Evicted
<1>6. CASE \E B : \E ok \in BOOLEAN : Links!PurgeBatch(B, ok)
  <2>1. PICK B : \E ok \in BOOLEAN : Links!PurgeBatch(B, ok)  BY <1>6
  <2> QED BY <1>5, <2>1
<1> QED BY <1>1, <1>2, <1>3, <1>4, <1>6 DEF Links!Delete

LEMMA LateNext ==
  ASSUME Links!LinksFit, PurgesFit, Links!Next
  PROVE  (\A r \in Reqs : LateAsk(r)') /\ (\A u \in DOMAIN cdn' : LateCopy(u)')
<1>0. /\ LinksTyped /\ TokensFit /\ DeletionFits /\ ClearedFits
      /\ ask \in [Reqs -> AskRow]
      /\ (\A r \in Reqs : AskFits(r) /\ LateAsk(r))
      /\ (\A u \in DOMAIN cdn : CopyFits(u) /\ LateCopy(u))
  BY DEF PurgesFit, UrlsFit, LinksTyped
<1>2. ASSUME UNCHANGED <<deletion, cleared, ask>> PROVE \A r \in Reqs : LateAsk(r)'
  <2>1. ASSUME NEW r \in Reqs PROVE LateAsk(r)'
    <3>1. LateAsk(r)  BY <1>0
    <3>2. ask'[r] = ask[r]  BY <1>2
    <3> QED BY <1>2, <3>1, <3>2 DEF LateAsk, Evicted
  <2> QED BY <2>1
<1>3. ASSUME UNCHANGED <<deletion, cleared, cdn>> PROVE \A u \in DOMAIN cdn' : LateCopy(u)'
  BY <1>0, <1>3 DEF LateCopy, Evicted
<1>4. CASE Links!User \/ Links!ShareUpdate \/ Links!Admin
  <2>1. UNCHANGED <<deletion, cleared, cdn, ask>>
    BY <1>4 DEF Links!User, Links!Put, Links!Trash, Links!Restore, Links!ShareCheck, Links!Unshare, Links!Mint,
       Links!ShareUpdate, Links!Admin, Links!SetPublic, Links!Configure
  <2> QED BY <1>2, <1>3, <2>1
<1>5. CASE Links!Tick
  <2>1. /\ UNCHANGED <<deletion, cleared, ask>>
        /\ DOMAIN cdn' = DOMAIN cdn
        /\ \A u \in DOMAIN cdn : cdn'[u] = cdn[u] \/ cdn'[u] = [cdn[u] EXCEPT !.until = 0, !.since = 0]
    BY <1>5 DEF Links!Tick
  <2>2. \A u \in DOMAIN cdn : cdn'[u].file = cdn[u].file /\ cdn'[u].late = cdn[u].late
    BY <1>0, <2>1 DEF LinksTyped, CopyRow
  <2>3. \A u \in DOMAIN cdn' : LateCopy(u)'
    BY <1>0, <2>1, <2>2 DEF LateCopy, Evicted
  <2> QED BY <1>2, <2>1, <2>3
<1>6. CASE Links!Delete
  <2>1. ASSUME NEW u, Formed(u), NEW f, Evicted(u, f)', ~Evicted(u, f)
        PROVE  \E B : Links!PurgeBatch(B, TRUE) /\ u \in B
    BY <1>0, <1>6, <2>1, Evicts
  <2>2. \/ UNCHANGED <<cdn, ask>>
        \/ \E B : /\ cdn' = Links!Dropped(B)
                  /\ ask' = [r \in Reqs |-> IF ask[r].pc # "idle" /\ ask[r].url \in B
                                            THEN [ask[r] EXCEPT !.late = TRUE] ELSE ask[r]]
    BY <1>6 DEF Links!Delete, Links!DeleteRead, Links!DeleteRows, Links!Purge, Links!PurgeEnds, Links!PurgeBatch
  <2>3. \A r \in Reqs : /\ ask'[r].pc = ask[r].pc /\ ask'[r].url = ask[r].url /\ ask'[r].file = ask[r].file
                        /\ ask[r].late = TRUE => ask'[r].late = TRUE
    <3>1. CASE UNCHANGED <<cdn, ask>>  BY <3>1
    <3>2. ASSUME NEW r \in Reqs, ask'[r] = ask[r] \/ ask'[r] = [ask[r] EXCEPT !.late = TRUE]
          PROVE  /\ ask'[r].pc = ask[r].pc /\ ask'[r].url = ask[r].url /\ ask'[r].file = ask[r].file
                 /\ ask[r].late = TRUE => ask'[r].late = TRUE
      <4>1. ask[r] \in AskRow  BY <1>0
      <4> QED BY <3>2, <4>1 DEF AskRow
    <3> QED BY <2>2, <3>1, <3>2
  <2>4. ASSUME NEW u \in DOMAIN cdn' PROVE u \in DOMAIN cdn /\ cdn'[u] = cdn[u]
    <3>1. CASE cdn' = cdn  BY <2>4, <3>1
    <3>2. ASSUME NEW B, cdn' = Links!Dropped(B) PROVE u \in DOMAIN cdn /\ cdn'[u] = cdn[u]
      <4>1. DOMAIN cdn' = DOMAIN cdn \ B /\ \A v \in DOMAIN cdn \ B : cdn'[v] = cdn[v]
        BY <3>2, DroppedFits
      <4> QED BY <2>4, <4>1
    <3> QED BY <2>2, <3>1, <3>2
  <2>5. ASSUME NEW r \in Reqs PROVE LateAsk(r)'
    <3>1. SUFFICES ASSUME ask'[r].pc \in {"found", "answered"}, Evicted(ask[r].url, ask[r].file)'
                   PROVE  ask'[r].late = TRUE
      BY DEF LateAsk
    <3>2. PICK u, f : u = ask[r].url /\ f = ask[r].file  OBVIOUS
    <3>3. ask'[r].url = u /\ ask'[r].file = f /\ ask[r].pc = ask'[r].pc  BY <2>3, <3>2
    <3>4. Evicted(u, f)'  BY <3>1, <3>3 DEF Evicted
    <3>5. CASE Evicted(u, f)
      <4>1. LateAsk(r)  BY <1>0
      <4> QED BY <2>3, <3>1, <3>2, <3>3, <3>5, <4>1 DEF LateAsk
    <3>6. CASE ~Evicted(u, f)
      <4>1. AskFits(r)  BY <1>0
      <4>2. Formed(u)  BY <3>1, <3>2, <3>3, <4>1 DEF AskFits
      <4>3. PICK B : Links!PurgeBatch(B, TRUE) /\ u \in B  BY <2>1, <3>4, <3>6, <4>2
      <4>4. ask' = [q \in Reqs |-> IF ask[q].pc # "idle" /\ ask[q].url \in B
                                   THEN [ask[q] EXCEPT !.late = TRUE] ELSE ask[q]]
        BY <4>3 DEF Links!PurgeBatch
      <4>5. ask'[r] = [ask[r] EXCEPT !.late = TRUE] /\ ask[r] \in AskRow
        BY <1>0, <3>1, <3>2, <3>3, <4>3, <4>4
      <4> QED BY <4>5 DEF AskRow
    <3> QED BY <3>5, <3>6
  <2>6. ASSUME NEW u \in DOMAIN cdn' PROVE LateCopy(u)'
    <3>1. SUFFICES ASSUME Evicted(u, cdn[u].file)' PROVE cdn'[u].late = TRUE
      BY DEF LateCopy
    <3>2. u \in DOMAIN cdn /\ cdn'[u] = cdn[u]  BY <2>4
    <3>3. PICK f : f = cdn[u].file  OBVIOUS
    <3>4. Evicted(u, f)'  BY <3>1, <3>2, <3>3 DEF Evicted
    <3>5. CASE Evicted(u, f)
      <4>1. LateCopy(u)  BY <1>0, <3>2
      <4> QED BY <3>2, <3>3, <3>5, <4>1 DEF LateCopy
    <3>6. CASE ~Evicted(u, f)
      <4>1. Formed(u)  BY <1>0, <3>2 DEF CopyFits
      <4>2. PICK B : Links!PurgeBatch(B, TRUE) /\ u \in B  BY <2>1, <3>4, <3>6, <4>1
      <4>3. cdn' = Links!Dropped(B)  BY <4>2 DEF Links!PurgeBatch
      <4>4. u \notin DOMAIN cdn'
        <5>1. DOMAIN cdn' = DOMAIN cdn \ B  BY <4>3, DroppedFits
        <5> QED BY <4>2, <5>1
      <4> QED BY <2>6, <4>4
    <3> QED BY <3>5, <3>6
  <2> QED BY <2>5, <2>6
<1>7. CASE Links!Serve
  <2>0. UNCHANGED <<deletion, cleared>>
    BY <1>7, ZenonT(60) DEF Links!Serve, Links!Ask, Links!Guard, Links!LookUp, Links!Answer, Links!AnswerHead, Links!Deliver
  <2>1. ASSUME NEW r \in Reqs, NEW s, ask' = [ask EXCEPT ![r] = s], cdn' = cdn,
               \/ s.pc \notin {"found", "answered"}
               \/ ~Evicted(s.url, s.file)
               \/ /\ ask[r].pc = "found"
                  /\ s.url = ask[r].url /\ s.file = ask[r].file /\ s.late = ask[r].late
        PROVE  (\A q \in Reqs : LateAsk(q)') /\ (\A u \in DOMAIN cdn' : LateCopy(u)')
    <3>1. ask'[r] = s  BY <1>0, <2>1
    <3>2. LateAsk(r)  BY <1>0
    <3>3. LateAsk(r)'  BY <2>0, <2>1, <3>1, <3>2 DEF LateAsk, Evicted
    <3>4. ASSUME NEW q \in Reqs, q # r PROVE LateAsk(q)'
      <4>1. ask'[q] = ask[q] /\ LateAsk(q)  BY <1>0, <2>1, <3>4
      <4> QED BY <2>0, <4>1 DEF LateAsk, Evicted
    <3> QED BY <1>3, <2>0, <2>1, <3>3, <3>4
  <2>2. ASSUME NEW r \in Reqs, NEW u \in Links!Urls, NEW head \in BOOLEAN, Links!Ask(r, u, head)
        PROVE  (\A q \in Reqs : LateAsk(q)') /\ (\A v \in DOMAIN cdn' : LateCopy(v)')
    <3> DEFINE s == [Links!Idle EXCEPT !.pc = IF u.kind = "public" THEN "guard" ELSE "asked",
               !.url = u, !.head = head, !.had = Links!Copy(u).file, !.at = now]
    <3>1. ask' = [ask EXCEPT ![r] = s] /\ cdn' = cdn  BY <2>2 DEF Links!Ask
    <3>2. s.pc \in {"guard", "asked"}  BY DEF Links!Idle
    <3> HIDE DEF s
    <3> QED BY <2>1, <3>1, <3>2
  <2>3. ASSUME NEW r \in Reqs, Links!Guard(r)
        PROVE  (\A q \in Reqs : LateAsk(q)') /\ (\A v \in DOMAIN cdn' : LateCopy(v)')
    <3> DEFINE s == [ask[r] EXCEPT !.pc = IF public THEN "asked" ELSE "failed"]
    <3>1. ask' = [ask EXCEPT ![r] = s] /\ cdn' = cdn  BY <1>0, <2>3 DEF Links!Guard
    <3>2. s.pc \in {"asked", "failed"}  BY <1>0 DEF AskRow
    <3> HIDE DEF s
    <3> QED BY <2>1, <3>1, <3>2
  <2>4. ASSUME NEW r \in Reqs, Links!LookUp(r)
        PROVE  (\A q \in Reqs : LateAsk(q)') /\ (\A v \in DOMAIN cdn' : LateCopy(v)')
    <3>0. cdn' = cdn  BY <2>4 DEF Links!LookUp
    <3>1. ASSUME NEW f \in File, Links!Names(ask[r].url, f), ask' = [ask EXCEPT ![r].pc = "found", ![r].file = f]
          PROVE  (\A q \in Reqs : LateAsk(q)') /\ (\A v \in DOMAIN cdn' : LateCopy(v)')
      <4> DEFINE s == [ask[r] EXCEPT !.pc = "found", !.file = f]
      <4>1. ask' = [ask EXCEPT ![r] = s]  BY <1>0, <3>1
      <4>2. s.url = ask[r].url /\ s.file = f  BY <1>0 DEF AskRow
      <4> HIDE DEF s
      <4>3. ~Evicted(ask[r].url, f)  BY <1>0, <3>1, NamedIsNotEvicted
      <4>4. ~Evicted(s.url, s.file)  BY <4>2, <4>3
      <4> QED BY <2>1, <3>0, <4>1, <4>4
    <3>2. ASSUME ask' = [ask EXCEPT ![r].pc = "failed"]
          PROVE  (\A q \in Reqs : LateAsk(q)') /\ (\A v \in DOMAIN cdn' : LateCopy(v)')
      <4> DEFINE s == [ask[r] EXCEPT !.pc = "failed"]
      <4>1. ask' = [ask EXCEPT ![r] = s]  BY <1>0, <3>2
      <4>2. s.pc = "failed"  BY <1>0 DEF AskRow
      <4> HIDE DEF s
      <4> QED BY <2>1, <3>0, <4>1, <4>2
    <3> QED BY <2>4, <3>1, <3>2 DEF Links!LookUp
  <2>5. ASSUME NEW r \in Reqs, NEW c \in Links!Seen, Links!Answer(r, c)
        PROVE  (\A q \in Reqs : LateAsk(q)') /\ (\A v \in DOMAIN cdn' : LateCopy(v)')
    <3> DEFINE same == /\ Links!Mode(ask[r].url, c) # "disabled"
                       /\ Links!Signed(ask[r].url) /\ Links!Matches(ask[r].had, ask[r].file)
               s == [ask[r] EXCEPT !.pc = "answered", !.age = Links!MaxAge(ask[r].url, c),
                                   !.code = IF same THEN 304 ELSE 200]
    <3>1. ask' = [ask EXCEPT ![r] = s] /\ cdn' = cdn /\ ask[r].pc = "found"  BY <1>0, <2>5, ZenonT(60) DEF Links!Answer
    <3> HIDE DEF same
    <3>2. s.url = ask[r].url /\ s.file = ask[r].file /\ s.late = ask[r].late  BY <1>0 DEF AskRow
    <3> HIDE DEF s
    <3> QED BY <2>1, <3>1, <3>2
  <2>6. ASSUME NEW r \in Reqs, Links!AnswerHead(r)
        PROVE  (\A q \in Reqs : LateAsk(q)') /\ (\A v \in DOMAIN cdn' : LateCopy(v)')
    <3> DEFINE same == Links!Matches(ask[r].had, ask[r].file)
               s == [ask[r] EXCEPT !.pc = "answered", !.code = IF same THEN 304 ELSE 200]
    <3>1. ask' = [ask EXCEPT ![r] = s] /\ cdn' = cdn /\ ask[r].pc = "found"  BY <1>0, <2>6 DEF Links!AnswerHead
    <3> HIDE DEF same
    <3>2. s.url = ask[r].url /\ s.file = ask[r].file /\ s.late = ask[r].late  BY <1>0 DEF AskRow
    <3> HIDE DEF s
    <3> QED BY <2>1, <3>1, <3>2
  <2>7. ASSUME NEW r \in Reqs, Links!Deliver(r)
        PROVE  (\A q \in Reqs : LateAsk(q)') /\ (\A v \in DOMAIN cdn' : LateCopy(v)')
    <3>1. ask' = [ask EXCEPT ![r] = Links!Idle]  BY <2>7 DEF Links!Deliver
    <3>2. ASSUME NEW q \in Reqs PROVE LateAsk(q)'
      <4>1. CASE q = r
        <5>1. ask'[q].pc = "idle"  BY <1>0, <3>1, <4>1 DEF Links!Idle
        <5> QED BY <5>1 DEF LateAsk
      <4>2. CASE q # r
        <5>1. ask'[q] = ask[q] /\ LateAsk(q)  BY <1>0, <3>1, <4>2
        <5> QED BY <2>0, <5>1 DEF LateAsk, Evicted
      <4> QED BY <4>1, <4>2
    <3>3. ASSUME NEW u \in DOMAIN cdn', u \in DOMAIN cdn, cdn'[u] = cdn[u] PROVE LateCopy(u)'
      <4>1. LateCopy(u)  BY <1>0, <3>3
      <4> QED BY <2>0, <3>3, <4>1 DEF LateCopy, Evicted
    <3>4. CASE cdn' = cdn  BY <3>2, <3>3, <3>4
    <3>5. CASE cdn' = Links!Dropped({ask[r].url})
      <4>1. /\ DOMAIN cdn' = DOMAIN cdn \ {ask[r].url}
            /\ \A u \in DOMAIN cdn \ {ask[r].url} : cdn'[u] = cdn[u]
        BY <3>5, DroppedFits
      <4> QED BY <3>2, <3>3, <4>1
    <3>6. ASSUME ask[r].pc = "answered", NEW age, cdn' = Links!Stored(r, ask[r].file, age)
          PROVE  (\A q \in Reqs : LateAsk(q)') /\ (\A v \in DOMAIN cdn' : LateCopy(v)')
      <4>1. /\ DOMAIN cdn' = DOMAIN cdn \cup {ask[r].url}
            /\ cdn'[ask[r].url] = [file |-> ask[r].file, age |-> age, until |-> now + age,
                                   since |-> ask[r].at, late |-> ask[r].late]
            /\ \A u \in DOMAIN cdn : u # ask[r].url => cdn'[u] = cdn[u]
        BY <3>6, StoredFits, Zenon
      <4>2. ASSUME NEW u \in DOMAIN cdn', u = ask[r].url PROVE LateCopy(u)'
        <5>1. cdn'[u].file = ask[r].file /\ cdn'[u].late = ask[r].late  BY <4>1, <4>2
        <5>2. LateAsk(r)  BY <1>0
        <5> QED BY <2>0, <3>6, <4>2, <5>1, <5>2 DEF LateCopy, LateAsk, Evicted
      <4>3. ASSUME NEW u \in DOMAIN cdn', u # ask[r].url PROVE LateCopy(u)'
        BY <3>3, <4>1, <4>3
      <4> QED BY <3>2, <4>2, <4>3
    <3>7. ask[r].code = 304 /\ ask[r].pc = "answered" => ask[r].had = ask[r].file
      <4>1. AskFits(r)  BY <1>0
      <4> QED BY <4>1 DEF AskFits
    <3>8. \/ cdn' = cdn
          \/ cdn' = Links!Dropped({ask[r].url})
          \/ ask[r].pc = "answered" /\ \E age : cdn' = Links!Stored(r, ask[r].file, age)
      <4>1. CASE ask[r].pc = "answered" /\ ask[r].code = 304 /\ \E age : cdn' = Links!Stored(r, ask[r].had, age)
        BY <3>7, <4>1
      <4>2. \/ cdn' = cdn
            \/ cdn' = Links!Dropped({ask[r].url})
            \/ ask[r].pc = "answered" /\ \E age : cdn' = Links!Stored(r, ask[r].file, age)
            \/ ask[r].pc = "answered" /\ ask[r].code = 304 /\ \E age : cdn' = Links!Stored(r, ask[r].had, age)
        BY <1>0, <2>7, Delivers, Zenon
      <4> QED BY <4>1, <4>2
    <3> QED BY <3>4, <3>5, <3>6, <3>8
  <2> QED BY <1>7, <2>2, <2>3, <2>4, <2>5, <2>6, <2>7 DEF Links!Serve
<1> QED BY <1>4, <1>5, <1>6, <1>7 DEF Links!Next

LEMMA PurgesFitNext ==
  ASSUME Links!LinksFit, PurgesFit, [Links!Next]_(Links!vars) PROVE PurgesFit'
<1>1. CASE Links!Next
  <2>1. LinksTyped /\ UrlsFit /\ TokensFit /\ DeletionFits /\ ClearedFits  BY DEF PurgesFit, UrlsFit
  <2>2. UrlsFit'  BY <1>1, <2>1, UrlsFitNext
  <2>3. TokensFit'  BY <1>1, <2>1, TokensFitNext
  <2>4. DeletionFits'  BY <1>1, <2>1, DeletionFitsNext
  <2>5. ClearedFits'  BY <1>1, <2>1, ClearedFitsNext
  <2>6. (\A r \in Reqs : LateAsk(r)') /\ (\A u \in DOMAIN cdn' : LateCopy(u)')  BY <1>1, LateNext
  <2> QED BY <2>2, <2>3, <2>4, <2>5, <2>6 DEF PurgesFit
<1>2. CASE UNCHANGED Links!vars
  <2>1. UrlsFit'  BY <1>2, UrlsFitNext DEF PurgesFit
  <2>2. UNCHANGED <<files, sharing, issued, cdn, ask, deletion, cleared>>  BY <1>2 DEF Links!vars
  <2> QED BY <2>1, <2>2 DEF PurgesFit, TokensFit, DeletionFits, ClearedFits, Bearer, LateAsk, LateCopy, Evicted
<1> QED BY <1>1, <1>2

\* Whatever the order of the steps: what a purge without failure has evicted does not
\* come back, but from a request that was under way then (PurgedStaysGone).
THEOREM PurgedAreGone == ASSUME Links!LinksFit PROVE Links!Spec => []PurgedStaysGone
<1>1. Links!Init => PurgesFit
  <2>1. SUFFICES ASSUME Links!Init PROVE PurgesFit  OBVIOUS
  <2>2. UrlsFit /\ TokensFit /\ DeletionFits /\ ClearedFits  BY <2>1, UrlsFitInit, PurgeFitsInit
  <2>3. (\A r \in Reqs : ask[r].pc = "idle") /\ DOMAIN cdn = {}  BY <2>1 DEF Links!Init, Links!Idle
  <2> QED BY <2>2, <2>3 DEF PurgesFit, LateAsk
<1>2. PurgesFit /\ [Links!Next]_(Links!vars) => PurgesFit'  BY PurgesFitNext
<1>3. PurgesFit => PurgedStaysGone
  <2>1. SUFFICES ASSUME PurgesFit, NEW u \in DOMAIN cdn,
                        \/ u.kind = "share" /\ u.of \in cleared.tokens
                        \/ u = Links!PublicPath /\ cdn[u].file \in cleared.files
                 PROVE  cdn[u].late
    BY DEF PurgedStaysGone, Links!PurgedStaysGone
  <2>2. LateCopy(u)  BY <2>1 DEF PurgesFit
  <2> QED BY <2>1, <2>2 DEF LateCopy, Evicted
<1> QED BY <1>1, <1>2, <1>3, PTL DEF Links!Spec
=============================================================================
