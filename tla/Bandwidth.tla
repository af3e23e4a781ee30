----------------------------- MODULE Bandwidth -----------------------------
(* The daily and per-file bandwidth quotas of one user, or one guest, as the *)
(* transfer service enforces them (quota_resolver.go, bandwidth.go): the     *)
(* counter in Redis that requests lock and refund, the snapshot of the core  *)
(* that seeds it (bandwidth-lock.service.ts), and the usage reports that     *)
(* bring the rows of the core up to date; or as the core enforces them       *)
(* itself (bandwidth.interceptor.ts).  Every request reads one file.         *)
EXTENDS Integers, FiniteSets, Functions

CONSTANTS Request,
          Size,          \* what a request may ask for, in units of bytes
          DailyLimit, DownloadLimit, FileLimit,
          Subject,       \* "user", "guest" (with a GuestTracker row)
          Owner,         \* who enforces them, BANDWIDTH_OWNER: "go", "nest"
          WindowMax,     \* bound on the number of 24 hour windows
          None,
          Faults         \* "call", "reply", "core", "crash", "race", "cross", "expiry"

ASSUME BandwidthAssumption ==
  /\ IsFiniteSet(Request)
  /\ Size \subseteq Nat \ {0} /\ Subject \subseteq {"user", "guest"} /\ Owner \subseteq {"go", "nest"}
  /\ None \notin Nat /\ DailyLimit \in Nat \ {0} /\ DownloadLimit \in Nat \ {0} /\ FileLimit \in Nat \ {0}
  /\ WindowMax \in Nat

VARIABLES subject,
          owner,
          window,  \* the 24 hour window that the clock is in
          user,    \* the row of the user, or of the GuestTracker
          file,    \* the row of the file
          hash,    \* the quota hash of the subject in Redis
          req,     \* the requests
          buffer   \* the requests whose usage report the core has not accepted yet

vars == <<subject, owner, window, user, file, hash, req, buffer>>

NoHash == [exists |-> FALSE, used |-> 0, reset |-> None]

NoAnswer == [used |-> 0, reset |-> 0, downloads |-> 0, bytes |-> 0]

\* hs and fresh are what it read from Redis and from the core; "held" is what the
\* other requests held when it was judged, "alone" that no other was being judged;
\* "wipes" and "rolls" that it has found the row of the file, or of the subject,
\* in an old window (the core only).
Idle == [stage |-> "idle", est |-> 0, full |-> FALSE, hs |-> NoHash, fresh |-> NoAnswer, used |-> 0,
         locked |-> FALSE, actual |-> 0, window |-> 0, held |-> 0, alone |-> TRUE,
         wipes |-> FALSE, rolls |-> FALSE]

Judging == {r \in Request : req[r].stage \in {"read", "fetched", "seeded"}}
Streaming == {r \in Request : req[r].stage \in {"streaming", "closed"}}
Current == {r \in Request : req[r].stage \in {"streaming", "closed", "ended", "lost"} /\ req[r].window = window}

Est == [r \in Request |-> req[r].est]
Actual == [r \in Request |-> req[r].actual]

\* The bytes of the window's quota that are taken: the size asked for until the
\* rest is refunded, the bytes sent after that.
Held == SumFunctionOnSet([r \in Request |-> IF r \in Streaming THEN req[r].est ELSE req[r].actual], Current)

\* The requests that the counter need not know: let through without a lock, or
\* cut by a restart before their report was accepted.
Unsure == {r \in Current : ~req[r].locked \/ req[r].stage = "lost"}
Doubt == SumFunctionOnSet(Est, Unsure)

\* What it read is forgotten once it is let through, or refused.
Through(r, locked) ==
  [Idle EXCEPT !.stage = "streaming", !.rolls = req[r].rolls, !.est = req[r].est, !.full = req[r].full, !.locked = locked,
               !.window = window, !.alone = req[r].alone]

Refused == [Idle EXCEPT !.stage = "denied"]

Judge(r, record) ==
  req' = [s \in Request |-> IF s = r THEN record ELSE [req[s] EXCEPT !.alone = @ /\ s \notin Judging]]

-----------------------------------------------------------------------------
(* The core: getQuotaSnapshot and reconcileFromReport.                      *)

\* 24 hours have passed since the last reset of a row.
NeverElapsed(row) == FALSE

Elapsed(row) == row.reset < window

\* A window that has elapsed is closed once, in the row.
Rolled(row) == IF Elapsed(row) THEN [used |-> 0, reset |-> window] ELSE row

RolledFile == IF Elapsed(file) THEN [downloads |-> 0, bytes |-> 0, reset |-> window] ELSE file

\* A guest has a row.
Snapshot ==
  [used |-> Rolled(user).used, reset |-> Rolled(user).reset,
   downloads |-> RolledFile.downloads, bytes |-> RolledFile.bytes]

\* The report of a guest names no subject.
Downloaded(r) == req[r].full /\ (owner = "nest" => req[r].actual = req[r].est)

Reconcile(batch) ==
  LET bytes == SumFunctionOnSet(Actual, batch)
  IN  /\ user' = IF subject = "user" THEN [user EXCEPT !.used = @ + bytes] ELSE user
      /\ file' = [file EXCEPT !.bytes = @ + bytes,
                              !.downloads = @ + Cardinality({r \in batch : Downloaded(r)})]

-----------------------------------------------------------------------------
(* The transfer service: CheckAndLock.                                      *)

\* Two requests that find no counter, or one of an old window, may both seed it,
\* and the later seed wipes the lock of the earlier request.
SeedsAlone ==
  \/ "race" \in Faults
  \/ Judging = {}
  \/ /\ hash.exists /\ hash.reset = window
     /\ \A r \in Judging : req[r].hs.reset = window

\* readHash
Start(r, est, full) ==
  /\ owner = "go" /\ req[r].stage = "idle" /\ SeedsAlone
  /\ Judge(r, [Idle EXCEPT !.stage = "read", !.est = est, !.full = full, !.hs = hash,
                           !.held = Held, !.alone = Judging = {}])
  /\ UNCHANGED <<subject, owner, window, user, file, hash, buffer>>

\* fetch: the per-file tier is never cached, so every download asks the core.
Fetch(r) ==
  /\ owner = "go" /\ req[r].stage = "read"
  /\ user' = Rolled(user) /\ file' = RolledFile
  /\ req' = [req EXCEPT ![r].stage = "fetched", ![r].fresh = Snapshot]
  /\ UNCHANGED <<subject, owner, window, hash, buffer>>

\* The core is down: the request goes through without a lock.  Its refund makes a
\* counter without a reset marker where there is none.
FailOpen(r) ==
  /\ owner = "go" /\ "core" \in Faults /\ req[r].stage = "read"
  /\ "expiry" \in Faults \/ (hash.exists /\ hash.reset = window)
  /\ req' = [req EXCEPT ![r] = Through(r, FALSE)]
  /\ UNCHANGED <<subject, owner, window, user, file, hash, buffer>>

\* windowRolledOver: no, if the cached marker is missing.
RolledOverAlways(hs, fresh) == hs.exists

RolledOver(hs, fresh) == hs.reset # None /\ fresh.reset > hs.reset

\* reconcileHash: seed the counter, or keep what has accumulated in it.
Seed(r) ==
  LET hs == req[r].hs
      fresh == req[r].fresh
      seeds == ~hs.exists \/ RolledOver(hs, fresh)
  IN  /\ req[r].stage = "fetched"
      /\ hash' = [exists |-> TRUE, reset |-> fresh.reset, used |-> IF seeds THEN fresh.used ELSE hash.used]
      /\ req' = [req EXCEPT ![r].stage = "seeded", ![r].used = IF seeds THEN fresh.used ELSE hs.used]
      /\ UNCHANGED <<subject, owner, window, user, file, buffer>>

FileAllows(r) == req[r].fresh.downloads < DownloadLimit /\ req[r].fresh.bytes + req[r].est <= FileLimit

DailyAllowsAny(r) == req[r].used < DailyLimit

DailyAllows(r) == req[r].used + req[r].est <= DailyLimit

\* HINCRBY makes a hash that is gone, without a limit and a reset marker.
Add(n) == [hash EXCEPT !.exists = TRUE, !.used = @ + n]

Lock(r) ==
  /\ owner = "go" /\ req[r].stage = "seeded" /\ FileAllows(r) /\ DailyAllows(r)
  /\ hash' = Add(req[r].est)
  /\ req' = [req EXCEPT ![r] = Through(r, TRUE)]
  /\ UNCHANGED <<subject, owner, window, user, file, buffer>>

Deny(r) ==
  /\ owner = "go" /\ req[r].stage = "seeded" /\ ~(FileAllows(r) /\ DailyAllows(r))
  /\ req' = [req EXCEPT ![r] = Refused]
  /\ UNCHANGED <<subject, owner, window, user, file, hash, buffer>>

-----------------------------------------------------------------------------
(* RefundAndReconcile, flushBandwidth.                                      *)

RefundAll(r, n) == req[r].est

Refund(r, n) == req[r].est - n

\* The response ends after n bytes: by itself, by the client, or by an error.
Close(r, n) ==
  /\ owner = "go" /\ req[r].stage = "streaming" /\ n <= req[r].est
  /\ hash' = IF Refund(r, n) > 0 THEN Add(-Refund(r, n)) ELSE hash
  /\ req' = [req EXCEPT ![r].stage = "ended", ![r].actual = n]
  /\ buffer' = buffer \cup {r}
  /\ UNCHANGED <<subject, owner, window, user, file>>

DropBatch == {}

KeepBatch == buffer

\* The buffered reports go in one call; it may fail, or only its answer does.
Flush ==
  /\ owner = "go" /\ buffer # {}
  /\ \/ Reconcile(buffer) /\ buffer' = {}
     \/ "call" \in Faults /\ buffer' = KeepBatch /\ UNCHANGED <<user, file>>
     \/ "reply" \in Faults /\ buffer' = KeepBatch /\ Reconcile(buffer)
  /\ UNCHANGED <<subject, owner, window, hash, req>>

-----------------------------------------------------------------------------
(* The core as the owner: the interceptor of its download routes.           *)

Outdated == Elapsed(user) \/ Elapsed(file)

\* A request that finds a row in an old window resets it after it has read it, and
\* when it closes it sets the usage of the subject to its own: whatever others
\* have locked or counted meanwhile is gone.
RollsAlone ==
  \/ "race" \in Faults
  \/ /\ \A r \in Request : ~req[r].wipes /\ ~(req[r].rolls /\ r \in Judging \cup Streaming)
     /\ Outdated => Judging = {}

\* checkFileQuota: a row in an old window allows anything.
FileRowAllows(est) == Elapsed(file) \/ (file.downloads < DownloadLimit /\ file.bytes + est <= FileLimit)

Intercept(r, est, full) ==
  /\ owner = "nest" /\ req[r].stage = "idle" /\ RollsAlone
  /\ IF FileRowAllows(est)
     THEN Judge(r, [Idle EXCEPT !.stage = "read", !.est = est, !.full = full, !.alone = Judging = {},
                                !.wipes = Elapsed(file)])
     ELSE Judge(r, Refused)
  /\ UNCHANGED <<subject, owner, window, user, file, hash, buffer>>

\* The reset of the file is not awaited.
Wipe(r) ==
  /\ req[r].wipes
  /\ file' = [downloads |-> 0, bytes |-> 0, reset |-> window]
  /\ req' = [req EXCEPT ![r].wipes = FALSE]
  /\ UNCHANGED <<subject, owner, window, user, hash, buffer>>

\* resolveUserUsage, resolveGuestUsage
ReadUsage(r) ==
  /\ owner = "nest" /\ req[r].stage = "read"
  /\ req' = [req EXCEPT ![r].stage = "seeded", ![r].used = IF Elapsed(user) THEN 0 ELSE user.used,
                        ![r].rolls = Elapsed(user), ![r].held = Held]
  /\ UNCHANGED <<subject, owner, window, user, file, hash, buffer>>

\* lockUserBandwidth, lockGuestBandwidth: the usage of a user is written to Redis
\* as well.
LockedRow(r) == IF req[r].rolls THEN [used |-> req[r].est, reset |-> window] ELSE [user EXCEPT !.used = @ + req[r].est]

LockRow(r) ==
  LET used == req[r].used + req[r].est
  IN  /\ owner = "nest" /\ req[r].stage = "seeded" /\ DailyAllows(r)
      /\ user' = LockedRow(r)
      /\ hash' = IF subject = "user" THEN [exists |-> TRUE, used |-> used, reset |-> user'.reset] ELSE hash
      /\ req' = [req EXCEPT ![r] = [Through(r, TRUE) EXCEPT !.wipes = req[r].wipes]]
      /\ UNCHANGED <<subject, owner, window, file, buffer>>

DenyRow(r) ==
  /\ owner = "nest" /\ req[r].stage = "seeded" /\ ~DailyAllows(r)
  /\ req' = [req EXCEPT ![r] = [Refused EXCEPT !.wipes = req[r].wipes]]
  /\ UNCHANGED <<subject, owner, window, user, file, hash, buffer>>

\* What a socket has written and what the response has are not the same, but no
\* more than the size that was locked counts.
ActualBytes(r) == 0..req[r].est

\* The response closes after n bytes; the refund and the counters of the file are
\* two updates that nobody awaits.
CloseRow(r, n) ==
  /\ owner = "nest" /\ req[r].stage = "streaming" /\ n \in ActualBytes(r)
  /\ req' = [req EXCEPT ![r].stage = "closed", ![r].actual = n]
  /\ buffer' = buffer \cup {r}
  /\ UNCHANGED <<subject, owner, window, user, file, hash>>

RefundRow(r) ==
  LET refund == Refund(r, req[r].actual)
  IN  /\ req[r].stage = "closed"
      /\ user' = CASE refund > 0 /\ req[r].rolls -> [user EXCEPT !.used = req[r].est - refund]
                   [] refund > 0 /\ ~req[r].rolls -> [user EXCEPT !.used = @ - refund]
                   [] OTHER -> user
      /\ req' = [req EXCEPT ![r].stage = "ended"]
      /\ UNCHANGED <<subject, owner, window, file, hash, buffer>>

\* reconcilePerFileCounters: a download counts when all of it was sent.
CountFile(r) ==
  /\ owner = "nest" /\ r \in buffer /\ ("race" \in Faults \/ ~req[r].wipes)
  /\ file' = [file EXCEPT !.bytes = @ + req[r].actual,
                          !.downloads = @ + IF Downloaded(r) THEN 1 ELSE 0]
  /\ buffer' = buffer \ {r}
  /\ UNCHANGED <<subject, owner, window, user, hash, req>>

\* The owner restarts: its responses end without a refund, its reports are lost.
\* What the core had locked stays locked.
Crash ==
  /\ "crash" \in Faults
  /\ req' = [r \in Request |->
               CASE r \in Judging -> Refused
                 [] r \in Streaming \cup buffer ->
                      [req[r] EXCEPT !.stage = "lost", !.wipes = FALSE,
                                     !.actual = IF owner = "nest" /\ r \in Streaming THEN req[r].est ELSE @]
                 [] OTHER -> [req[r] EXCEPT !.wipes = FALSE]]
  /\ buffer' = {}
  /\ UNCHANGED <<subject, owner, window, user, file, hash>>

-----------------------------------------------------------------------------
(* Time.                                                                    *)

Settled == Judging = {} /\ Streaming = {} /\ buffer = {} /\ \A r \in Request : ~req[r].wipes

\* No request for an hour; or a download takes longer than that.  The usage of a
\* guest is nowhere else.  A core that enforces the quotas does not read it.
Expire ==
  /\ owner = "go" /\ hash.exists
  /\ "expiry" \in Faults \/ (Settled /\ subject = "user")
  /\ hash' = NoHash
  /\ UNCHANGED <<subject, owner, window, user, file, req, buffer>>

\* The next window begins, between requests unless they may cross the boundary.
Tick ==
  /\ window < WindowMax
  /\ Settled \/ "cross" \in Faults
  /\ window' = window + 1
  /\ UNCHANGED <<subject, owner, user, file, hash, req, buffer>>

Init ==
  /\ subject \in Subject /\ owner \in Owner
  /\ window = 0
  /\ user = [used |-> 0, reset |-> 0] /\ file = [downloads |-> 0, bytes |-> 0, reset |-> 0]
  /\ hash = NoHash
  /\ req = [r \in Request |-> Idle]
  /\ buffer = {}

Next ==
  \/ \E r \in Request :
       \/ \E est \in Size, full \in BOOLEAN : Start(r, est, full)
       \/ Fetch(r) \/ FailOpen(r) \/ Seed(r) \/ Lock(r) \/ Deny(r)
       \/ \E est \in Size, full \in BOOLEAN : Intercept(r, est, full)
       \/ Wipe(r) \/ ReadUsage(r) \/ LockRow(r) \/ DenyRow(r) \/ RefundRow(r) \/ CountFile(r)
       \/ \E n \in 0..req[r].est : Close(r, n) \/ CloseRow(r, n)
  \/ Flush \/ Crash \/ Expire \/ Tick

Spec == Init /\ [][Next]_vars

-----------------------------------------------------------------------------
(* Properties.                                                              *)

\* A request is judged by what the requests of the window really hold, those
\* still running and those whose report is on its way included, in spite of the
\* counter expiring and the window rolling over in between (quota_resolver.go:229,
\* bandwidth.go:110).  It is wrong at most by the requests that an outage of the
\* core let through or a restart cut.
Judged ==
  \A r \in Request : req[r].stage = "seeded" =>
    req[r].held - Doubt <= req[r].used /\ req[r].used <= req[r].held + Doubt

\* The limit of the day is exceeded at most by the requests that were judged
\* while another was, since the check and the lock are two calls to Redis
\* (quota_resolver.go:166, 177), and by those an outage let through.
DailyFits ==
  Held <= DailyLimit + SumFunctionOnSet(Est, {r \in Current : ~req[r].alone} \cup Unsure)

\* The rows of the core hold exactly what was served in their window and
\* reported: no report counts twice or is dropped when a call fails
\* (batch_reporter.go:174), and no window counts in the next one.  A core that
\* enforces the quotas holds what is locked, too, and gives back exactly the rest,
\* also across the reset of a window (bandwidth-lock.service.ts:339).
Charged ==
  LET ended == {r \in Current : req[r].stage = "ended"} \ buffer
      counted == IF owner = "nest" THEN {r \in Current : req[r].stage \in {"closed", "ended"}} \ buffer ELSE ended
      cut == {r \in Current : owner = "nest" /\ req[r].stage = "lost"}
  IN  /\ subject = "user" /\ owner = "go" /\ user.reset = window =>
           user.used = SumFunctionOnSet(Actual, ended)
      /\ owner = "nest" /\ user.reset = window => user.used = Held
      /\ file.reset = window =>
           /\ file.bytes - SumFunctionOnSet(Actual, counted) \in 0..SumFunctionOnSet(Est, cut)
           /\ file.downloads - Cardinality({r \in counted : Downloaded(r)}) \in 0..Cardinality(cut)
=============================================================================
