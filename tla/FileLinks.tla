------------------------------ MODULE FileLinks -----------------------------
(***************************************************************************)
(* How a download comes to the content of chunks that are on Telegram: the *)
(* link to every chunk is asked of a bot and cached, at most one getFile   *)
(* per file and a few at a time are under way, the chunks to come are      *)
(* looked up ahead, and a file whose bot is gone is forwarded to the main  *)
(* bot.  The transfer service (client.go, downloader.go) and the core      *)
(* (telegram.service.ts, transfer-read.service.ts, and                     *)
(* download-zip.processor.ts) do it in their own ways.  Every chunk has    *)
(* its message, and forwarding a message twice gives the same file id.     *)
(***************************************************************************)
EXTENDS Integers, Sequences, FiniteSets

CONSTANTS
  Download,   \* downloads of the same file
  Chunks,     \* its number of chunks
  Situations, \* the service, who wants the content, the chunks whose bot is still
              \* configured, whether a bot reads the files of the others, and how
              \* many answers at most are worth a retry: that are looked at
  Ahead,      \* prefetchAhead
  Permits,    \* SEMAPHORE_LIMIT
  Retries,    \* maxRetries
  CacheTTL,   \* how long a link is cached, in ticks
  LinkLife    \* how long Telegram honours it

ASSUME LinkAssumption ==
  /\ Chunks \in Nat \ {0} /\ Ahead \in Nat /\ Permits \in Nat \ {0} /\ Retries \in Nat
  /\ CacheTTL \in Nat \ {0} /\ LinkLife \in Nat /\ CacheTTL <= LinkLife

VARIABLES
  place,    \* the situation: service "go" or "core", wants "zip" or "client" of
            \* each download, bots, local, trouble
  progress, \* of each download, with the chunk it is at
  rows,     \* the chunks whose row names a forwarded copy
  ids,      \* the same, as each download read it
  call,     \* the lookups of links
  waiting,  \* the lookups that wait for a permit, in order
  linkCache, \* the age of the cached link of each file id
  trouble

linkVars == <<place, progress, rows, ids, call, waiting, linkCache, trouble>>

Part == 1 .. Chunks
\* A chunk has the id of its upload, and that of its copy.
FileId == Part \X BOOLEAN
\* A download waits for the link of a chunk, or looks it up ahead.
Caller == Download \X (0 .. Chunks)
Main(d) == <<d, 0>>
IsMain(x) == x[2] = 0

NoCall == [pc |-> "none", id |-> <<1, FALSE>>, age |-> 0, tries |-> 0]
Never == LinkLife + 1
NoLinks == [f \in FileId |-> Never]

LinkInit(s, downloads) ==
  /\ place = s
  /\ progress = [d \in Download |-> [pc |-> IF d \in downloads THEN "idle" ELSE "absent", at |-> 0]]
  /\ rows = {} /\ ids = [d \in Download |-> {}] /\ call = [x \in Caller |-> NoCall]
  /\ waiting = <<>> /\ linkCache = NoLinks /\ trouble = 0

InGo == place.service = "go"
Ended(how) == [pc |-> how, at |-> 0]
Gone(d) == progress[d].pc = "leaving"

-----------------------------------------------------------------------------
(* The permits and the lookups under way.                                  *)

Leading == {"queued", "holding", "get"}
Holders == {x \in Caller : call[x].pc \in {"holding", "get"}}

\* The variant forgets what is under way.
NothingInFlight(f) == FALSE
InFlight(f) == \E x \in Caller : call[x].pc \in Leading /\ call[x].id = f

\* The variant never forgets a link.
CachedForever(f) == linkCache[f] <= LinkLife /\ linkCache[f] # Never
Fresh(f) == linkCache[f] < CacheTTL

\* What is looked up ahead is only cached.
Linked(x, age) == IF IsMain(x) THEN [call[x] EXCEPT !.pc = "linked", !.age = age, !.tries = 0] ELSE NoCall
Refused(x) == [call[x] EXCEPT !.pc = "refused", !.tries = 0]

\* The queue that x leaves before its turn.
Without(queue, x) ==
  LET n == CHOOSE k \in 1 .. Len(queue) : queue[k] = x
  IN  [k \in 1 .. Len(queue) - 1 |-> IF k < n THEN queue[k] ELSE queue[k + 1]]

\* The lookup of x ends, also for those that joined it, and a permit that it had
\* goes to the first that waits.
Conclude(x, result) ==
  LET held == x \in Holders
      next == IF held /\ waiting # <<>> THEN {Head(waiting)} ELSE {} IN
  /\ call' = [y \in Caller |->
       IF y = x \/ (call[y].pc = "joined" /\ call[y].id = call[x].id) THEN result[y]
       ELSE IF y \in next THEN [call[y] EXCEPT !.pc = "holding"] ELSE call[y]]
  /\ waiting' = IF held THEN (IF waiting = <<>> THEN waiting ELSE Tail(waiting))
                        ELSE Without(waiting, x)

-----------------------------------------------------------------------------
(* getFileLink.                                                            *)

Rest == <<place, progress, rows, ids>>

Hit(x) ==
  /\ call[x].pc = "ask" /\ Fresh(call[x].id)
  /\ call' = [call EXCEPT ![x] = Linked(x, linkCache[call[x].id])]
  /\ UNCHANGED <<Rest, waiting, linkCache, trouble>>

\* The transfer service asks the cache, then singleflight, which may have filled it
\* in between.
Miss(x) ==
  /\ InGo /\ call[x].pc = "ask" /\ ~Fresh(call[x].id)
  /\ call' = [call EXCEPT ![x].pc = "do"]
  /\ UNCHANGED <<Rest, waiting, linkCache, trouble>>

Do(x) ==
  /\ call[x].pc = "do" \/ (~InGo /\ call[x].pc = "ask" /\ ~Fresh(call[x].id))
  /\ IF InFlight(call[x].id) THEN call' = [call EXCEPT ![x].pc = "joined"] /\ UNCHANGED waiting
     ELSE IF Cardinality(Holders) < Permits
          THEN call' = [call EXCEPT ![x].pc = "holding"] /\ UNCHANGED waiting
          ELSE call' = [call EXCEPT ![x].pc = "queued"] /\ waiting' = Append(waiting, x)
  /\ UNCHANGED <<Rest, linkCache, trouble>>

\* The cache is asked again under the permit.
CheckAgain(x) ==
  LET f == call[x].id IN
  /\ call[x].pc = "holding"
  /\ IF Fresh(f) THEN Conclude(x, [y \in Caller |-> Linked(y, linkCache[f])])
     ELSE call' = [call EXCEPT ![x].pc = "get", ![x].tries = 0] /\ UNCHANGED waiting
  /\ UNCHANGED <<Rest, linkCache, trouble>>

\* The bot that uploaded it, or the main bot in its place.
Reads(f) == f[2] \/ f[1] \in place.bots \/ place.local

GetFile(x) ==
  LET f == call[x].id IN
  /\ call[x].pc = "get"
  /\ IF Reads(f) THEN linkCache' = [linkCache EXCEPT ![f] = 0] /\ Conclude(x, [y \in Caller |-> Linked(y, 0)])
     ELSE UNCHANGED linkCache /\ Conclude(x, [y \in Caller |-> Refused(y)])
  /\ UNCHANGED <<Rest, trouble>>

\* A lookup in the name of a client that leaves fails for all who joined it.
Cancelled(x) ==
  /\ InGo /\ IsMain(x) /\ Gone(x[1]) /\ call[x].pc \in {"queued", "get"}
  /\ Conclude(x, [y \in Caller |-> Refused(y)])
  /\ UNCHANGED <<Rest, linkCache, trouble>>

-----------------------------------------------------------------------------
(* resolveFileLink.                                                        *)

Recovers(x) == ~call[x].id[2] /\ (InGo \/ call[x].id[1] \notin place.bots)

Recover(x) ==
  /\ call[x].pc = "refused" /\ Recovers(x)
  /\ call' = [call EXCEPT ![x].pc = "forward"]
  /\ UNCHANGED <<Rest, waiting, linkCache, trouble>>

Forward(x) ==
  /\ call[x].pc = "forward"
  /\ call' = [call EXCEPT ![x].pc = "ask", ![x].id = <<@[1], TRUE>>, ![x].tries = 0]
  /\ UNCHANGED <<place, progress, ids, waiting, linkCache, trouble>>

\* Nobody is told of the copy, and the next download makes another one.
RecoverFileID(x) == (InGo \/ place.wants[x[1]] = "zip") /\ Forward(x) /\ UNCHANGED rows

\* The core notes it in the row, if it serves a client.
RecoverFileId(x) ==
  ~InGo /\ place.wants[x[1]] = "client" /\ Forward(x) /\ rows' = rows \cup {call[x].id[1]}

Broken == [d \in Download |-> IF progress[d].pc \in {"running", "leaving"} THEN Ended("failed") ELSE progress[d]]

\* The response breaks off.  Nobody catches what fails ahead: the transfer service
\* does not care, the core ends.
Fails(x) ==
  IF IsMain(x)
  THEN /\ progress' = [progress EXCEPT ![x[1]] = Ended("failed")]
       /\ call' = [call EXCEPT ![x] = NoCall] /\ UNCHANGED <<waiting, linkCache>>
  ELSE IF InGo THEN call' = [call EXCEPT ![x] = NoCall] /\ UNCHANGED <<progress, waiting, linkCache>>
  ELSE progress' = Broken /\ call' = [y \in Caller |-> NoCall] /\ waiting' = <<>> /\ linkCache' = NoLinks

GiveUpLink(x) ==
  /\ call[x].pc = "refused" /\ ~Recovers(x) /\ Fails(x)
  /\ UNCHANGED <<place, rows, ids, trouble>>

\* withRetry.
TryAgain(x) ==
  /\ call[x].pc \in {"get", "forward"}
  /\ IF call[x].tries < Retries
     THEN call' = [call EXCEPT ![x].tries = @ + 1] /\ UNCHANGED <<progress, waiting, linkCache>>
     ELSE IF call[x].pc = "get" THEN Conclude(x, [y \in Caller |-> Refused(y)]) /\ UNCHANGED <<progress, linkCache>>
     ELSE Fails(x)

\* fetchWithRetry of the core.  The transfer service does not fetch twice, which breaks
\* its response.
FetchAgain(x) ==
  /\ ~InGo /\ call[x].pc = "linked"
  /\ IF call[x].tries < Retries
     THEN call' = [call EXCEPT ![x].tries = @ + 1] /\ UNCHANGED <<progress, waiting, linkCache>>
     ELSE Fails(x)

Trouble(x) ==
  /\ trouble < place.trouble /\ trouble' = trouble + 1
  /\ TryAgain(x) \/ FetchAgain(x)
  /\ UNCHANGED <<place, rows, ids>>

-----------------------------------------------------------------------------
(* A download.                                                             *)

\* The lookup of chunk c, and of the chunks that follow it.
Want(d, c, known, calls) ==
  [x \in Caller |->
    IF x = Main(d) THEN [NoCall EXCEPT !.pc = "ask", !.id = <<c, c \in known>>]
    ELSE IF /\ x[1] = d /\ x[2] \in c + 1 .. c + Ahead /\ calls[x] = NoCall
            /\ InGo \/ place.wants[d] = "client"
         THEN [NoCall EXCEPT !.pc = "ask", !.id = <<x[2], x[2] \in known>>]
    ELSE calls[x]]

Start(d) ==
  /\ progress[d].pc = "idle"
  /\ progress' = [progress EXCEPT ![d] = [pc |-> "running", at |-> 1]]
  /\ ids' = [ids EXCEPT ![d] = rows]
  /\ call' = Want(d, 1, rows, call)
  /\ UNCHANGED <<place, rows, waiting, linkCache, trouble>>

\* The link in hand is fetched at once; a dead one is not found.
Fetch(d) ==
  LET x == Main(d) IN
  /\ call[x].pc = "linked" /\ ~Gone(d)
  /\ IF call[x].age < LinkLife
     THEN call' = [call EXCEPT ![x].pc = "body"] /\ UNCHANGED <<progress, waiting, linkCache>>
     ELSE Fails(x)
  /\ UNCHANGED <<place, rows, ids, trouble>>

EndOfChunk(d) ==
  LET c == progress[d].at IN
  /\ call[Main(d)].pc = "body" /\ ~Gone(d)
  /\ IF c < Chunks
     THEN /\ progress' = [progress EXCEPT ![d].at = c + 1]
          /\ call' = Want(d, c + 1, ids[d], call)
     ELSE /\ progress' = [progress EXCEPT ![d] = Ended("done")]
          /\ call' = [call EXCEPT ![Main(d)] = NoCall]
  /\ UNCHANGED <<place, rows, ids, waiting, linkCache, trouble>>

\* The client goes away; the core notices when it writes.
Leave(d) ==
  /\ progress[d].pc = "running" /\ place.wants[d] = "client"
  /\ progress' = [progress EXCEPT ![d].pc = "leaving"]
  /\ UNCHANGED <<place, rows, ids, call, waiting, linkCache, trouble>>

Stop(d) ==
  /\ Gone(d) /\ call[Main(d)].pc \in {"linked", "body"} \cup (IF InGo THEN {"refused", "forward"} ELSE {})
  /\ progress' = [progress EXCEPT ![d] = Ended("left")]
  /\ call' = [call EXCEPT ![Main(d)] = NoCall]
  /\ UNCHANGED <<place, rows, ids, waiting, linkCache, trouble>>

\* Ten minutes pass between the lookups, which are short.
TenMinutes ==
  /\ \A x \in Caller : call[x].pc \in {"none", "body"}
  /\ linkCache' = [f \in FileId |-> IF linkCache[f] < LinkLife THEN linkCache[f] + 1 ELSE linkCache[f]]
  /\ linkCache' # linkCache
  /\ UNCHANGED <<Rest, call, waiting, trouble>>

AllOver == \A d \in Download : progress[d].pc \in {"done", "failed", "left"}

LinkStep(x) == \/ Hit(x) \/ Miss(x) \/ Do(x) \/ CheckAgain(x) \/ GetFile(x) \/ Cancelled(x)
               \/ Recover(x) \/ RecoverFileID(x) \/ RecoverFileId(x) \/ GiveUpLink(x)

DownloadStep(d) == Fetch(d) \/ EndOfChunk(d) \/ Stop(d)

LinkNext ==
  \/ \E x \in Caller : LinkStep(x) \/ Trouble(x)
  \/ \E d \in Download : Start(d) \/ DownloadStep(d) \/ Leave(d)
  \/ TenMinutes
  \/ AllOver /\ UNCHANGED linkVars

\* Downloads begin, bots and Telegram answer, and a client reads or leaves.  None takes
\* infinitely many steps, so that none is starved by the others.
LinkWork ==
  \/ \E x \in Caller : call[x] # NoCall /\ LinkStep(x)
  \/ \E d \in Download : progress[d].pc # "absent" /\ (Start(d) \/ DownloadStep(d))
LinkFairness == WF_linkVars(LinkWork)

-----------------------------------------------------------------------------
(* What the lookups promise.                                               *)

\* At most so many getFile calls are under way as there are permits, never two for
\* one file, and nobody waits for a permit that is free, whatever is refused, retried
\* or cancelled (client.go:347-355, telegram.service.ts:454-474, 593-609).
Permitted ==
  /\ Cardinality(Holders) <= Permits
  /\ \A x, y \in Caller : call[x].pc = "get" /\ call[y].pc = "get" /\ x # y => call[x].id # call[y].id
  /\ waiting # <<>> => Cardinality(Holders) = Permits

\* The client who stays gets the whole file, and so does a ZIP: although a bot is gone,
\* another client takes the lookup that was shared with it away, or the answer was
\* cached long ago; unless answers are worth more retries than there are, or the shared
\* lookup was that of a copy already (downloader.go:360-378,
\* transfer-read.service.ts:412-459).
TakesCopyAway(d) == InGo /\ Gone(d) /\ call[Main(d)].id[2]

Served(d) == \/ progress[d].pc \in {"absent", "done", "left"}
             \/ progress[d].pc = "failed" /\ trouble > Retries

ContentArrives ==
  [](\A d \in Download : ~TakesCopyAway(d)) => <>(\A d \in Download : Served(d))
=============================================================================
